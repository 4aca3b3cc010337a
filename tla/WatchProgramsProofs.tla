------------------------ MODULE WatchProgramsProofs ------------------------
(***************************************************************************)
(* Type correctness of WatchPrograms; that a program found for a file has  *)
(* the text of the call, provided no two projects can reach one file; and   *)
(* that a call which has looked at all its projects undisturbed is right to *)
(* give its file up, for any projects, files, imports, texts and edits.     *)
(***************************************************************************)
EXTENDS WatchPrograms, TLAPS

(* The files a program of p may hold. *)
Roots(p) == UNION Includes[p]
Reach(p) == Roots(p) \cup UNION {Imports[f] : f \in Roots(p)}

Apart == \A p, q \in Projects : p # q => Reach(p) \cap Reach(q) = {}

-----------------------------------------------------------------------------
(* TypeOK, by the groups in which the steps change the variables.           *)
MaybeTexts == [Files -> Texts \cup {Absent}]

WorldType ==
    /\ disk \in MaybeTexts
    /\ DOMAIN config = Projects /\ \A p \in Projects : config[p] \in Configs(p)
    /\ mtime \in [Projects -> 0..MaxEdits]
    /\ calm \in BOOLEAN

WatchType ==
    /\ level \in [Projects -> {"current", "names", "full"}]
    /\ DOMAIN loaded = Projects
    /\ \A p \in Projects : loaded[p] \in Configs(p) \cup {Unread}
    /\ roots \in [Projects -> SUBSET Files]
    /\ text \in [Projects -> MaybeTexts]
    /\ stale \in [Projects -> SUBSET Files]
    /\ early \in [Projects -> BOOLEAN]

KnownType ==
    /\ known \in Seq(Projects)
    /\ \A i, j \in DOMAIN known : known[i] = known[j] => i = j

CachesType ==
    /\ KnownType
    /\ fileList \in [Projects -> {NotCached} \cup SUBSET Files]
    /\ timestamp \in [Projects -> {Never} \cup 0..MaxEdits]

HashType == seenHash \in MaybeTexts

CurType == cur \in [file : Files, code : Texts, projects : Requests]

CallType ==
    /\ pc \in Labels
    /\ at \in Nat \ {0}
    /\ results \in Seq(Projects)
    /\ outcome \in Texts \cup {Refused, Threw, Pending}

Types == /\ WorldType /\ WatchType /\ CachesType
         /\ HashType /\ CurType /\ CallType

(* What the second loop is at, once past "visit". *)
Inside == {"config", "folder", "folderSync", "deleted", "deletedSync", "listing"}

-----------------------------------------------------------------------------
(* The inductive invariant of FreshText.                                    *)

(* A program has only what its tsconfig can reach. *)
Loads == \A p \in Projects :
             loaded[p].include \subseteq Roots(p) /\ roots[p] \subseteq Roots(p)

Held == \A p \in Projects, f \in Files :
            text[p][f] # Absent => p \in Known /\ f \in Reach(p)

(* The hash of a file is of the text its program has, or else the program   *)
(* has been told that the file has changed.                                 *)
Hashed == \A p \in Projects, f \in Files :
            text[p][f] # Absent /\ f \notin stale[p] => seenHash[f] = text[p][f]

(* A program that has not been told has the text of the call already. *)
Informed == \A p \in Projects :
                text[p][cur.file] # Absent /\ cur.file \notin stale[p]
                    => text[p][cur.file] = cur.code

Told == pc # "idle" => Informed

Fresh(p) == text[p][cur.file] \in {Absent, cur.code}

(* The programs the call has synced. *)
Synced == /\ pc # "idle" => \A i \in DOMAIN results : Fresh(results[i])
          /\ pc \in Inside => Project \in Known /\ Fresh(Project)

FreshInv == Loads /\ Held /\ Hashed /\ Told /\ Synced /\ FreshText

-----------------------------------------------------------------------------
(* TypeOK is its groups, before a step and after it.                        *)
LEMMA TypeParts == (TypeOK <=> Types) /\ (TypeOK' <=> Types')
  BY DEF TypeOK, Types, WorldType, WatchType, CachesType, KnownType, HashType, CurType,
         CallType, MaybeTexts

(* What TypeScript computes for a program is of the right type.             *)
LEMMA SyncedTypes ==
  ASSUME Types, NEW p \in Projects
  PROVE  /\ NewLoaded(p) \in Configs(p) \cup {Unread}
         /\ NewLoaded(p).include \in SUBSET Files
         /\ NewRoots(p) \in SUBSET Files
         /\ NewText(p) \in MaybeTexts
         /\ NewSeenHash(p) \in MaybeTexts
<1> USE DEF Types
<1>1. \A c \in Configs(p) \cup {Unread} : c.include \in SUBSET Files
  BY WatchAssumption DEF Configs, Unread
<1>2. NewLoaded(p) \in Configs(p) \cup {Unread} /\ NewLoaded(p).include \in SUBSET Files
  BY <1>1 DEF NewLoaded, WatchType, WorldType
<1>3. NewRoots(p) \in SUBSET Files
  BY <1>2 DEF NewRoots, WatchType
<1>4. \A f \in Files : Read(f) \in Texts \cup {Absent}
  BY DEF Read, WorldType, CurType, MaybeTexts
<1>5. text[p] \in MaybeTexts
  BY DEF WatchType
<1>6. NewText(p) \in MaybeTexts
  BY <1>4, <1>5 DEF NewText, MaybeTexts
<1>7. NewSeenHash(p) \in MaybeTexts
  BY <1>4 DEF NewSeenHash, HashType, MaybeTexts
<1>8. QED
  BY <1>2, <1>3, <1>6, <1>7

(* Asking for a program keeps the types.                                    *)
LEMMA SyncType ==
  ASSUME Types, NEW p \in Projects, Sync(p)
  PROVE  WatchType' /\ HashType'
<1>1. HashType'
  BY SyncedTypes DEF Sync, HashType
<1>2. WatchType'
  <2>1. level' \in [Projects -> {"current", "names", "full"}] /\ stale' \in [Projects -> SUBSET Files]
    BY DEF Types, WatchType, Sync
  <2>2. roots' \in [Projects -> SUBSET Files] /\ early' \in [Projects -> BOOLEAN]
    BY SyncedTypes DEF Types, WatchType, Sync
  <2>5. /\ DOMAIN loaded' = Projects
        /\ \A q \in Projects : loaded'[q] \in Configs(q) \cup {Unread}
    BY SyncedTypes DEF Types, WatchType, Sync
  <2>3. text' \in [Projects -> MaybeTexts]
    BY SyncedTypes DEF Types, WatchType, Sync
  <2>4. QED
    BY <2>1, <2>2, <2>3, <2>5 DEF WatchType, Configs, Unread
<1>3. QED
  BY <1>1, <1>2

(* The end of a call, whichever of the programs has the file.               *)
LEMMA FinishType ==
  ASSUME NEW programs \in Seq(Projects), NEW texts \in [Projects -> MaybeTexts],
         CurType, FinishWith(programs, texts)
  PROVE  CallType'
<1>1. CASE Finish(Refused)
  BY <1>1 DEF Finish, CallType, Labels
<1>2. CASE \E i \in DOMAIN programs :
             /\ texts[programs[i]][cur.file] # Absent
             /\ Finish(texts[programs[i]][cur.file])
  <2>1. PICK i \in DOMAIN programs : /\ texts[programs[i]][cur.file] # Absent
                                     /\ Finish(texts[programs[i]][cur.file])
    BY <1>2
  <2>2. texts[programs[i]][cur.file] \in Texts
    BY <2>1 DEF MaybeTexts, CurType
  <2>3. QED
    BY <2>1, <2>2 DEF Finish, CallType, Labels
<1>3. QED
  BY <1>1, <1>2 DEF FinishWith

(* The other ends of a step of a call.                                      *)
LEMMA ThrewType ==
  ASSUME Finish(Threw) PROVE CallType'
  BY DEF Finish, CallType, Labels

LEMMA GotoType ==
  ASSUME CallType, NEW label \in Labels, Goto(label) PROVE CallType'
  BY DEF Goto, CallType

LEMMA NextProjectType ==
  ASSUME CallType, NextProject, results' \in Seq(Projects) PROVE CallType'
  BY DEF NextProject, CallType, Labels

(* The project the second loop is at.                                       *)
LEMMA ProjectType ==
  ASSUME Types, NEW label, Visits(label)
  PROVE  Project \in Projects
  BY WatchAssumption DEF Types, CurType, Visits, Project

(* A list set keeps the type of the cache.                                  *)
LEMMA FileListType ==
  ASSUME Types, NEW p \in Projects, NEW files \in {NotCached} \cup SUBSET Files,
         SetFileList(p, files)
  PROVE  fileList' \in [Projects -> {NotCached} \cup SUBSET Files]
  BY DEF Types, CachesType, SetFileList

(* What the programs are told.                                              *)
LEMMA MarkStaleType ==
  ASSUME Types, NEW qs, NEW f \in Files, MarkStale(qs, f)
  PROVE  stale' \in [Projects -> SUBSET Files]
  BY DEF Types, WatchType, MarkStale

LEMMA MarkNamesType ==
  ASSUME Types, NEW qs, MarkNames(qs)
  PROVE  level' \in [Projects -> {"current", "names", "full"}]
  BY DEF Types, WatchType, MarkNames

-----------------------------------------------------------------------------
(* Every variable keeps the type TypeOK gives it: the loops stay inside the *)
(* map and the call's list, and no project is entered into the map twice.   *)
THEOREM TypeCorrect == Spec => []TypeOK
<1>1. Init => TypeOK
  <2> SUFFICES ASSUME Init PROVE Types
    BY TypeParts
  <2>1. WorldType
    <3>1. DOMAIN config = Projects /\ \A p \in Projects : config[p] \in Configs(p)
      BY DEF Init
    <3>2. mtime \in [Projects -> 0..MaxEdits]
      BY WatchAssumption DEF Init
    <3>3. QED
      BY <3>1, <3>2 DEF Init, WorldType, MaybeTexts
  <2>2. WatchType /\ HashType
    BY DEF Init, WatchType, HashType, MaybeTexts
  <2>3. CachesType
    BY DEF Init, CachesType, KnownType
  <2>4. CurType /\ CallType
    BY DEF Init, CurType, CallType, Labels
  <2>5. QED
    BY <2>1, <2>2, <2>3, <2>4 DEF Types
<1>2. TypeOK /\ [Next]_vars => TypeOK'
  <2> SUFFICES ASSUME Types, [Next]_vars PROVE Types'
    BY TypeParts
  <2>1. ASSUME NEW f \in Files, NEW code \in Texts, NEW projects \in Requests,
               Lint(f, code, projects)
        PROVE  Types'
    <3>1. stale' \in [Projects -> SUBSET Files]
      <4>1. PICK qs : MarkStale(qs, f)
        BY <2>1 DEF Lint
      <4>2. QED
        BY <4>1, MarkStaleType
    <3>2. CallType' /\ CurType'
      BY <2>1 DEF Lint, CallType, CurType, Labels
    <3>3. QED
      BY <2>1, <3>1, <3>2 DEF Lint, caches, Types, WorldType, WatchType, CachesType,
                              KnownType, HashType, program
  <2>2. CASE CallStep
    <3>w. WorldType'
      BY <2>2 DEF CallStep, FastSkip, FastFill, FastHit, FastMiss, Create, CreateThrows,
           Visit, CheckConfig, Folder, FolderSync, NoneDeleted, Deleted, DeletedSync,
           Listing, NoMoreProjects, world, Types, WorldType
    <3>c. CurType'
      BY <2>2 DEF CallStep, FastSkip, FastFill, FastHit, FastMiss, Create, CreateThrows,
           Visit, CheckConfig, Folder, FolderSync, NoneDeleted, Deleted, DeletedSync,
           Listing, NoMoreProjects, Types, CurType
    <3> SUFFICES WatchType' /\ CachesType' /\ HashType' /\ CallType'
      BY <3>w, <3>c DEF Types
    <3>k. ASSUME InFast PROVE known[at] \in Projects
      BY <3>k DEF InFast, Types, CachesType, KnownType
    <3>t. text \in [Projects -> MaybeTexts]
      BY DEF Types, WatchType
    <3>n. ASSUME NEW p \in Projects PROVE NewTexts(p) \in [Projects -> MaybeTexts]
      BY <3>n, <3>t, SyncedTypes DEF NewTexts
    <3>1. CASE FastSkip
      BY <3>1 DEF FastSkip, NextIndex, Types, WatchType, CachesType, KnownType, HashType,
                  CallType, watch, program, caches
    <3>2. CASE FastFill
      <4>1. known[at] \in Projects /\ Sync(known[at])
        BY <3>2, <3>k DEF FastFill
      <4>2. WatchType' /\ HashType'
        BY <4>1, SyncType
      <4>3. CachesType'
        <5>1. fileList' \in [Projects -> {NotCached} \cup SUBSET Files]
          BY <3>2, <4>1, SyncedTypes, FileListType DEF FastFill, Types, CachesType
        <5>2. QED
          BY <3>2, <5>1 DEF FastFill, Types, CachesType, KnownType
      <4>4. CallType'
        <5>1. CASE Finish(Threw)
          BY <5>1, ThrewType
        <5>2. CASE FinishWith(<<known[at]>>, NewTexts(known[at]))
          <6>1. <<known[at]>> \in Seq(Projects)
            BY <4>1
          <6>2. QED
            BY <5>2, <6>1, <4>1, <3>n, FinishType DEF Types
        <5>3. CASE NextIndex /\ UNCHANGED results
          BY <5>3 DEF NextIndex, Types, CallType
        <5>4. QED
          BY <3>2, <5>1, <5>2, <5>3 DEF FastFill
      <4>5. QED
        BY <4>2, <4>3, <4>4
    <3>3. CASE FastHit
      <4>1. known[at] \in Projects /\ Sync(known[at])
        BY <3>3, <3>k DEF FastHit
      <4>2. WatchType' /\ HashType'
        BY <4>1, SyncType
      <4>3. CachesType'
        BY <3>3 DEF FastHit, caches, Types, CachesType, KnownType
      <4>4. CallType'
        <5>1. CASE Finish(Threw)
          BY <5>1, ThrewType
        <5>2. CASE FinishWith(<<known[at]>>, NewTexts(known[at]))
          <6>1. <<known[at]>> \in Seq(Projects)
            BY <4>1
          <6>2. QED
            BY <5>2, <6>1, <4>1, <3>n, FinishType DEF Types
        <5>3. QED
          BY <3>3, <5>1, <5>2 DEF FastHit
      <4>5. QED
        BY <4>2, <4>3, <4>4
    <3>4. CASE FastMiss
      BY <3>4 DEF FastMiss, Types, WatchType, CachesType, KnownType, HashType, CallType,
                  watch, program, caches, Labels
    <3>5. CASE Create
      <4>1. Project \in Projects /\ Sync(Project)
        BY <3>5, ProjectType DEF Create
      <4>2. WatchType' /\ HashType'
        BY <4>1, SyncType
      <4>3. CachesType'
        <5>1. fileList' \in [Projects -> {NotCached} \cup SUBSET Files]
          BY <3>5, <4>1, SyncedTypes, FileListType DEF Create
        <5>2. KnownType'
          BY <3>5, <4>1 DEF Create, Types, CachesType, KnownType, Known
        <5>3. QED
          BY <3>5, <5>1, <5>2 DEF Create, Types, CachesType
      <4>4. CallType'
        <5>1. CASE FinishWith(<<Project>>, NewTexts(Project))
          <6>1. <<Project>> \in Seq(Projects)
            BY <4>1
          <6>2. QED
            BY <5>1, <6>1, <4>1, <3>n, FinishType DEF Types
        <5>2. CASE NextProject /\ results' = Append(results, Project)
          <6>1. results' \in Seq(Projects)
            BY <5>2, <4>1 DEF Types, CallType
          <6>2. QED
            BY <5>2, <6>1, NextProjectType DEF Types
        <5>3. QED
          BY <3>5, <5>1, <5>2 DEF Create
      <4>5. QED
        BY <4>2, <4>3, <4>4
    <3>6. CASE CreateThrows
      <4>1. HashType'
        BY <3>6, ProjectType, SyncedTypes DEF CreateThrows, HashType
      <4>2. CallType'
        BY <3>6, ThrewType DEF CreateThrows
      <4>3. QED
        BY <3>6, <4>1, <4>2 DEF CreateThrows, Types, WatchType, CachesType, KnownType,
                                watch, program, caches
    <3>7. CASE Visit \/ FolderSync \/ DeletedSync
      <4>1. Project \in Projects /\ Sync(Project)
        BY <3>7, ProjectType DEF Visit, FolderSync, DeletedSync
      <4>2. WatchType' /\ HashType'
        BY <4>1, SyncType
      <4>3. CachesType'
        BY <3>7 DEF Visit, FolderSync, DeletedSync, caches, Types, CachesType, KnownType
      <4>4. CallType'
        <5>1. CASE Finish(Threw)
          BY <5>1, ThrewType
        <5>2. CASE \E label \in Labels : Goto(label)
          BY <5>2, GotoType DEF Types
        <5>3. CASE NextProject /\ UNCHANGED results
          BY <5>3, NextProjectType DEF Types, CallType
        <5>4. QED
          BY <3>7, <5>1, <5>2, <5>3 DEF Visit, FolderSync, DeletedSync, Labels
      <4>5. QED
        BY <4>2, <4>3, <4>4
    <3>8. CASE CheckConfig
      <4>1. Project \in Projects
        BY <3>8, ProjectType DEF CheckConfig
      <4>2. CachesType'
        <5>1. fileList' \in [Projects -> {NotCached} \cup SUBSET Files]
          BY <3>8, <4>1, FileListType DEF CheckConfig, Types, CachesType
        <5>2. timestamp' \in [Projects -> {Never} \cup 0..MaxEdits]
          BY <3>8, <4>1 DEF CheckConfig, Types, CachesType, WorldType
        <5>3. QED
          BY <3>8, <5>1, <5>2 DEF CheckConfig, Types, CachesType, KnownType
      <4>3. WatchType'
        BY <3>8 DEF CheckConfig, Types, WatchType, program
      <4>4. CallType'
        BY <3>8, GotoType DEF CheckConfig, Types, Labels
      <4>5. QED
        BY <3>8, <4>2, <4>3, <4>4 DEF CheckConfig, Types, HashType
    <3>9. CASE Folder
      <4>1. Project \in Projects
        BY <3>9, ProjectType DEF Folder
      <4>2. level' \in [Projects -> {"current", "names", "full"}]
        BY <3>9, MarkNamesType DEF Folder, Types, WatchType, program
      <4>3. fileList' \in [Projects -> {NotCached} \cup SUBSET Files]
        BY <3>9, <4>1, FileListType DEF Folder, Types, CachesType
      <4>4. CallType'
        BY <3>9, GotoType, NextProjectType DEF Folder, Types, CallType, Labels
      <4>5. QED
        BY <3>9, <4>2, <4>3, <4>4 DEF Folder, Types, WatchType, CachesType, KnownType,
                                      HashType, program
    <3>10. CASE NoneDeleted
      <4>1. CallType'
        BY <3>10, NextProjectType DEF NoneDeleted, Types, CallType
      <4>2. QED
        BY <3>10, <4>1 DEF NoneDeleted, Types, WatchType, CachesType, KnownType, HashType,
                           watch, program, caches
    <3>11. ASSUME NEW d \in Files, Deleted(d)
           PROVE  WatchType' /\ CachesType' /\ HashType' /\ CallType'
      <4>1. Project \in Projects
        BY <3>11, ProjectType DEF Deleted
      <4>2. level' \in [Projects -> {"current", "names", "full"}]
        BY <3>11, MarkNamesType DEF Deleted
      <4>3. stale' \in [Projects -> SUBSET Files]
        BY <3>11, MarkStaleType DEF Deleted
      <4>4. fileList' \in [Projects -> {NotCached} \cup SUBSET Files]
        BY <3>11, <4>1, FileListType DEF Deleted
      <4>5. CallType'
        BY <3>11, GotoType DEF Deleted, Types, Labels
      <4>6. QED
        BY <3>11, <4>2, <4>3, <4>4, <4>5 DEF Deleted, Types, WatchType, CachesType, KnownType,
                                              HashType, program
    <3>12. CASE Listing
      <4>1. Project \in Projects /\ roots[Project] \in SUBSET Files
        BY <3>12, ProjectType DEF Listing, Types, WatchType
      <4>2. fileList' \in [Projects -> {NotCached} \cup SUBSET Files]
        BY <3>12, <4>1, FileListType DEF Listing
      <4>3. CallType'
        <5>1. CASE FinishWith(<<Project>>, text)
          <6>1. <<Project>> \in Seq(Projects)
            BY <4>1
          <6>2. QED
            BY <5>1, <6>1, <3>t, FinishType DEF Types
        <5>2. CASE NextProject /\ results' = Append(results, Project)
          <6>1. results' \in Seq(Projects)
            BY <5>2, <4>1 DEF Types, CallType
          <6>2. QED
            BY <5>2, <6>1, NextProjectType DEF Types
        <5>3. QED
          BY <3>12, <5>1, <5>2 DEF Listing
      <4>4. QED
        BY <3>12, <4>2, <4>3 DEF Listing, Types, WatchType, CachesType, KnownType, HashType,
                                 watch, program
    <3>13. CASE NoMoreProjects
      <4>1. CallType'
        BY <3>13, <3>t, FinishType DEF NoMoreProjects, Types, CallType
      <4>2. QED
        BY <3>13, <4>1 DEF NoMoreProjects, Types, WatchType, CachesType, KnownType, HashType,
                           watch, program, caches
    <3>14. QED
      BY <2>2, <3>1, <3>2, <3>3, <3>4, <3>5, <3>6, <3>7, <3>8, <3>9, <3>10, <3>11, <3>12,
         <3>13 DEF CallStep
  <2>3. CASE ClearWatchCaches
    <3>1. WatchType' /\ CachesType' /\ HashType'
      BY <2>3 DEF ClearWatchCaches, WatchType, CachesType, KnownType, HashType, MaybeTexts
    <3>2. QED
      BY <2>3, <3>1 DEF ClearWatchCaches, world, call, Types, WorldType, CurType, CallType
  <2>4. ASSUME NEW f \in Files, NEW t \in Texts \cup {Absent}, Save(f, t)
        PROVE  Types'
    <3>1. WorldType'
      BY <2>4 DEF Save, Types, WorldType, MaybeTexts
    <3>2. QED
      BY <2>4, <3>1 DEF Save, watch, program, caches, call, Types, WatchType, CachesType,
                        KnownType, HashType, CurType, CallType
  <2>5. ASSUME NEW p \in Projects, NEW c \in Configs(p), WriteConfig(p, c)
        PROVE  Types'
    <3>1. WorldType'
      <4>1. DOMAIN config' = Projects /\ \A q \in Projects : config'[q] \in Configs(q)
        BY <2>5 DEF WriteConfig, Types, WorldType
      <4>2. mtime' \in [Projects -> 0..MaxEdits]
        BY <2>5, WatchAssumption DEF WriteConfig, Types, WorldType
      <4>3. QED
        BY <2>5, <4>1, <4>2 DEF WriteConfig, Types, WorldType, Configs
    <3>2. QED
      BY <2>5, <3>1 DEF WriteConfig, watch, program, caches, call, Types, WatchType, CachesType,
                        KnownType, HashType, CurType, CallType
  <2>6. CASE UNCHANGED vars
    BY <2>6 DEF vars, world, watch, program, caches, call, Types, WorldType, WatchType,
                CachesType, KnownType, HashType, CurType, CallType
  <2>7. QED
    BY <2>1, <2>2, <2>3, <2>4, <2>5, <2>6 DEF Next
<1>3. QED
  BY <1>1, <1>2, PTL DEF Spec

-----------------------------------------------------------------------------
(* A program asks only for files its tsconfig can reach.                    *)
LEMMA WantedWithinReach ==
  ASSUME Types, Loads, Held, NEW p \in Projects
  PROVE  /\ NewLoaded(p).include \subseteq Roots(p)
         /\ NewRoots(p) \subseteq Roots(p)
         /\ Wanted(p) \subseteq Reach(p)
<1>1. config[p].include \subseteq Roots(p)
  BY DEF Types, WorldType, Configs, Roots
<1>2. NewLoaded(p).include \subseteq Roots(p)
  BY <1>1 DEF NewLoaded, Loads
<1>3. NewRoots(p) \subseteq Roots(p)
  BY <1>2 DEF NewRoots, Loads
<1>4. ASSUME NEW g \in Wanted(p) PROVE g \in Reach(p)
  BY <1>3 DEF Wanted, Reach
<1>5. QED
  BY <1>2, <1>3, <1>4

(* Where no two programs reach one file, what one program reads leaves the  *)
(* hashes of what another one has alone.                                    *)
LEMMA HashesApart ==
  ASSUME Apart, Types, Loads, Held,
         NEW p \in Projects, NEW q \in Projects, p # q,
         NEW f \in Files, text[q][f] # Absent
  PROVE  NewSeenHash(p)[f] = seenHash[f]
<1>1. f \in Reach(q) /\ f \notin Reach(p)
  BY DEF Held, Apart
<1>2. f \notin Wanted(p)
  BY <1>1, WantedWithinReach
<1>3. QED
  BY <1>2 DEF NewSeenHash

(* The file of the call is read as the code of the call, or was so before.  *)
LEMMA NewTextFresh ==
  ASSUME Types, Informed, NEW p \in Projects
  PROVE  NewText(p)[cur.file] \in {Absent, cur.code}
<1>1. cur.file \in Files /\ Read(cur.file) = cur.code
  BY DEF Types, CurType, Read
<1>2. CASE ~OutOfDate(p)
  BY <1>2 DEF OutOfDate, NewText, Informed
<1>3. CASE OutOfDate(p)
  BY <1>1, <1>3 DEF NewText, Kept, Informed
<1>4. QED
  BY <1>2, <1>3

(* Asking for a program keeps the invariant and makes the program fresh.    *)
LEMMA SyncFresh ==
  ASSUME Apart, Types, Loads, Held, Hashed, Informed,
         NEW p \in Projects, Sync(p), UNCHANGED cur,
         p \in Known', Known \subseteq Known'
  PROVE  /\ Loads' /\ Held' /\ Hashed' /\ Informed'
         /\ \A q \in Projects : Fresh(q) => Fresh(q)'
         /\ Fresh(p)'
<1>t. /\ text' = [text EXCEPT ![p] = NewText(p)] /\ text \in [Projects -> MaybeTexts]
      /\ stale' = [stale EXCEPT ![p] = {}] /\ stale \in [Projects -> SUBSET Files]
      /\ seenHash' = NewSeenHash(p)
  BY DEF Sync, Types, WatchType
<1>p. text'[p] = NewText(p) /\ stale'[p] = {}
  BY <1>t
<1>q. ASSUME NEW q \in Projects, q # p
      PROVE  text'[q] = text[q] /\ stale'[q] = stale[q]
  BY <1>q, <1>t
<1>1. Loads'
  BY WantedWithinReach DEF Sync, Loads, Types, WatchType
<1>2. Held'
  <2> SUFFICES ASSUME NEW q \in Projects, NEW f \in Files, text'[q][f] # Absent
               PROVE  q \in Known' /\ f \in Reach(q)
    BY DEF Held
  <2>1. CASE q # p
    BY <2>1, <1>q DEF Held
  <2>2. CASE q = p /\ ~OutOfDate(p)
    BY <2>2, <1>p DEF Held, NewText
  <2>3. CASE q = p /\ OutOfDate(p)
    BY <2>3, <1>p, WantedWithinReach DEF NewText
  <2>4. QED
    BY <2>1, <2>2, <2>3
<1>3. Hashed'
  <2> SUFFICES ASSUME NEW q \in Projects, NEW f \in Files,
                      text'[q][f] # Absent, f \notin stale'[q]
               PROVE  seenHash'[f] = text'[q][f]
    BY DEF Hashed
  <2>1. CASE q # p
    BY <2>1, <1>q, <1>t, HashesApart DEF Hashed
  <2>2. CASE q = p /\ ~OutOfDate(p)
    BY <2>2, <1>p, <1>t DEF Hashed, NewText, NewSeenHash, OutOfDate
  <2>3. CASE q = p /\ OutOfDate(p)
    BY <2>3, <1>p, <1>t DEF Hashed, NewText, NewSeenHash, Kept
  <2>4. QED
    BY <2>1, <2>2, <2>3
<1>4. Fresh(p)'
  BY <1>p, NewTextFresh DEF Fresh
<1>5. \A q \in Projects : Fresh(q) => Fresh(q)'
  BY <1>4, <1>q DEF Fresh
<1>6. Informed'
  <2> SUFFICES ASSUME NEW q \in Projects,
                      text'[q][cur.file] # Absent, cur.file \notin stale'[q]
               PROVE  text'[q][cur.file] = cur.code
    BY DEF Informed
  <2>1. CASE q = p
    BY <2>1, <1>4 DEF Fresh
  <2>2. CASE q # p
    BY <2>2, <1>q DEF Informed
  <2>3. QED
    BY <2>1, <2>2
<1>7. QED
  BY <1>1, <1>2, <1>3, <1>4, <1>5, <1>6

(* A step that reads nothing and tells the programs something, or nothing.  *)
LEMMA QuietStep ==
  ASSUME Loads, Held, Hashed, UNCHANGED <<loaded, roots, text, seenHash>>,
         \A p \in Projects : stale[p] \subseteq stale'[p],
         Known \subseteq Known'
  PROVE  Loads' /\ Held' /\ Hashed'
  BY DEF Loads, Held, Hashed

LEMMA QuietCall ==
  ASSUME UNCHANGED <<text, cur>>, \A p \in Projects : stale[p] \subseteq stale'[p]
  PROVE  /\ Informed => Informed'
         /\ \A p \in Projects : Fresh(p) => Fresh(p)'
  BY DEF Informed, Fresh

(* A call ends with a fresh text if its programs are fresh.                 *)
LEMMA FinishFresh ==
  ASSUME NEW programs, NEW texts, UNCHANGED cur,
         FinishWith(programs, texts),
         \A i \in DOMAIN programs : texts[programs[i]][cur.file] \in {Absent, cur.code}
  PROVE  Told' /\ Synced' /\ FreshText'
<1>1. CASE Finish(Refused)
  BY <1>1, WatchAssumption DEF Finish, Told, Synced, FreshText, Inside
<1>2. CASE \E i \in DOMAIN programs :
             /\ texts[programs[i]][cur.file] # Absent
             /\ Finish(texts[programs[i]][cur.file])
  BY <1>2 DEF Finish, Told, Synced, FreshText, Inside
<1>3. QED
  BY <1>1, <1>2 DEF FinishWith

LEMMA ThrewFresh ==
  ASSUME Finish(Threw) PROVE Told' /\ Synced' /\ FreshText'
  BY WatchAssumption DEF Finish, Told, Synced, FreshText, Inside

(* A call that goes on, with the results it had or with one more that is    *)
(* fresh.                                                                   *)
LEMMA GoesOnFresh ==
  ASSUME Types, Synced, Informed', UNCHANGED cur, pc # "idle", pc' \in {"fast", "visit"},
         \A q \in Projects : Fresh(q) => Fresh(q)',
         \/ results' = results
         \/ \E p \in Projects : /\ results' = Append(results, p)
                                /\ text'[p][cur.file] \in {Absent, cur.code}
  PROVE  Told' /\ Synced' /\ FreshText'
<1>r. results \in Seq(Projects) /\ \A i \in DOMAIN results : Fresh(results[i])
  BY DEF Types, CallType, Synced
<1>1. \A i \in DOMAIN results' : text'[results'[i]][cur.file] \in {Absent, cur.code}
  <2>1. CASE results' = results
    BY <1>r, <2>1 DEF Fresh
  <2>2. ASSUME NEW p \in Projects, results' = Append(results, p),
               text'[p][cur.file] \in {Absent, cur.code}
        PROVE  \A i \in DOMAIN results' : text'[results'[i]][cur.file] \in {Absent, cur.code}
    <3>1. ASSUME NEW i \in DOMAIN results'
          PROVE  (i \in DOMAIN results /\ results'[i] = results[i]) \/ results'[i] = p
      BY <1>r, <2>2
    <3>2. \A i \in DOMAIN results : text'[results[i]][cur.file] \in {Absent, cur.code}
      BY <1>r DEF Fresh
    <3>3. QED
      BY <2>2, <3>1, <3>2
  <2>3. QED
    BY <2>1, <2>2
<1>2. QED
  BY <1>1 DEF Told, Synced, FreshText, Fresh, Inside

(* A call that goes on with the project it is at.                           *)
LEMMA EntersFresh ==
  ASSUME Types, Synced, Informed', UNCHANGED cur, pc # "idle",
         \A q \in Projects : Fresh(q) => Fresh(q)',
         NEW label \in Inside, Goto(label),
         Project \in Known', text'[Project][cur.file] \in {Absent, cur.code}
  PROVE  Told' /\ Synced' /\ FreshText'
<1>1. \A i \in DOMAIN results' : text'[results'[i]][cur.file] \in {Absent, cur.code}
  BY DEF Goto, Types, CallType, Synced, Fresh
<1>2. QED
  BY <1>1 DEF Goto, Told, Synced, FreshText, Fresh, Inside, Project

-----------------------------------------------------------------------------
(* Where no two projects reach one file, the hashes are of what the programs*)
(* hold, and the programs of a call are fresh.                              *)
LEMMA FreshInvariant ==
    ASSUME Apart PROVE Spec => []FreshInv
<1>1. Init => FreshInv
  <2> SUFFICES ASSUME Init PROVE FreshInv
    OBVIOUS
  <2>1. Loads /\ Held /\ Hashed
    BY DEF Init, Unread, Loads, Held, Hashed
  <2>2. Told /\ Synced /\ FreshText
    BY WatchAssumption DEF Init, Told, Synced, FreshText, Inside
  <2>3. QED
    BY <2>1, <2>2 DEF FreshInv
<1>2. TypeOK /\ FreshInv /\ [Next]_vars => FreshInv'
  <2> SUFFICES ASSUME Types, FreshInv, [Next]_vars PROVE FreshInv'
    BY TypeParts
  <2> USE DEF FreshInv
  <2>1. ASSUME NEW f \in Files, NEW code \in Texts, NEW projects \in Requests,
               Lint(f, code, projects)
        PROVE  FreshInv'
    <3>1. \A p \in Projects : stale[p] \subseteq stale'[p]
      BY <2>1 DEF Lint, MarkStale
    <3>2. Loads' /\ Held' /\ Hashed'
      BY <2>1, <3>1, QuietStep DEF Lint, caches, Known, program
    <3>3. Informed'
      <4> SUFFICES ASSUME NEW p \in Projects, text[p][f] # Absent, f \notin stale'[p]
                   PROVE  text[p][f] = code
        BY <2>1 DEF Lint, program, Informed
      <4>1. CASE seenHash[f] # code
        <5>1. p \in Holders(f)
          BY DEF Holders, Held
        <5>2. QED
          BY <2>1, <4>1, <5>1 DEF Lint, MarkStale
      <4>2. CASE seenHash[f] = code
        BY <3>1, <4>2 DEF Hashed
      <4>3. QED
        BY <4>1, <4>2
    <3>4. Told' /\ Synced' /\ FreshText'
      BY <2>1, <3>3 DEF Lint, Told, Synced, FreshText, Inside
    <3>5. QED
      BY <3>2, <3>4
  <2>2. CASE CallStep
    <3>i. pc # "idle" /\ UNCHANGED cur
      BY <2>2 DEF CallStep, FastSkip, FastFill, FastHit, FastMiss, Create, CreateThrows,
           Visit, CheckConfig, Folder, FolderSync, NoneDeleted, Deleted, DeletedSync,
           Listing, NoMoreProjects, InFast, Visits
    <3>j. Informed
      BY <3>i DEF Told
    <3>k. ASSUME InFast PROVE known[at] \in Projects /\ known[at] \in Known
      BY <3>k DEF InFast, Types, CachesType, KnownType, Known
    <3>l. ASSUME NEW p \in Projects, Sync(p), UNCHANGED known, p \in Known
          PROVE  /\ Loads' /\ Held' /\ Hashed' /\ Informed'
                 /\ \A q \in Projects : Fresh(q) => Fresh(q)'
                 /\ text'[p][cur.file] \in {Absent, cur.code}
      <4>1. p \in Known' /\ Known \subseteq Known'
        BY <3>l DEF Known
      <4>2. QED
        BY <3>i, <3>j, <3>l, <4>1, SyncFresh DEF Fresh
    (* The steps that ask for no program. *)
    <3>m. ASSUME UNCHANGED <<loaded, roots, text, seenHash, known>>,
                 \A p \in Projects : stale[p] \subseteq stale'[p]
          PROVE  /\ Loads' /\ Held' /\ Hashed' /\ Informed'
                 /\ \A q \in Projects : Fresh(q) => Fresh(q)'
      <4>1. Known \subseteq Known'
        BY <3>m DEF Known
      <4>2. QED
        BY <3>i, <3>j, <3>m, <4>1, QuietStep, QuietCall
    <3>n. ASSUME NEW p \in Projects
          PROVE  NewTexts(p)[p][cur.file] \in {Absent, cur.code}
      BY <3>j, NewTextFresh DEF NewTexts, Types, WatchType
    <3>1. CASE FastSkip \/ FastMiss
      <4>1. Loads' /\ Held' /\ Hashed' /\ Informed'
            /\ \A q \in Projects : Fresh(q) => Fresh(q)'
        BY <3>1, <3>m DEF FastSkip, FastMiss, watch, program, caches
      <4>2. pc' \in {"fast", "visit"} /\ results' = results
        BY <3>1 DEF FastSkip, FastMiss, NextIndex, InFast
      <4>3. QED
        BY <3>i, <4>1, <4>2, GoesOnFresh
    <3>2. CASE FastFill \/ FastHit
      <4>1. known[at] \in Projects /\ known[at] \in Known /\ Sync(known[at])
        BY <3>2, <3>k DEF FastFill, FastHit
      <4>2. Loads' /\ Held' /\ Hashed' /\ Informed'
            /\ \A q \in Projects : Fresh(q) => Fresh(q)'
        BY <3>2, <4>1, <3>l DEF FastFill, FastHit, caches
      <4>3. CASE Finish(Threw)
        BY <4>2, <4>3, ThrewFresh
      <4>4. CASE FinishWith(<<known[at]>>, NewTexts(known[at]))
        BY <3>i, <4>1, <4>2, <4>4, <3>n, FinishFresh
      <4>5. CASE NextIndex /\ InFast /\ UNCHANGED results
        BY <3>i, <4>2, <4>5, GoesOnFresh DEF NextIndex, InFast
      <4>6. QED
        BY <3>2, <4>3, <4>4, <4>5 DEF FastFill, FastHit
    <3>3. CASE Create
      <4>1. Project \in Projects /\ Sync(Project)
        BY <3>3, ProjectType DEF Create
      <4>2. Project \in Known' /\ Known \subseteq Known'
        BY <3>3, <4>1 DEF Create, Known, Types, CachesType, KnownType
      <4>3. PICK p \in Projects : p = Project
        BY <4>1
      <4>4. /\ Loads' /\ Held' /\ Hashed' /\ Informed'
            /\ \A q \in Projects : Fresh(q) => Fresh(q)'
            /\ text'[p][cur.file] \in {Absent, cur.code}
        BY <3>i, <3>j, <4>1, <4>2, <4>3, SyncFresh DEF Fresh
      <4>5. CASE FinishWith(<<Project>>, NewTexts(Project))
        BY <3>i, <4>1, <4>4, <4>5, <3>n, FinishFresh
      <4>6. CASE NextProject /\ results' = Append(results, Project)
        BY <3>i, <4>3, <4>4, <4>6, GoesOnFresh DEF NextProject
      <4>7. QED
        BY <3>3, <4>5, <4>6 DEF Create
    <3>4. CASE CreateThrows
      <4>1. Loads' /\ Held'
        BY <3>4 DEF CreateThrows, watch, program, caches, Loads, Held, Known
      <4>2. Hashed'
        <5> SUFFICES ASSUME NEW q \in Projects, NEW f \in Files,
                            text[q][f] # Absent, f \notin stale[q]
                     PROVE  seenHash'[f] = text[q][f]
          BY <3>4 DEF CreateThrows, watch, program, Hashed
        <5>1. q # Project /\ Project \in Projects
          BY <3>4, ProjectType DEF CreateThrows, Held
        <5>2. QED
          BY <3>4, <5>1, HashesApart DEF CreateThrows, Hashed
      <4>3. QED
        BY <3>4, <4>1, <4>2, ThrewFresh DEF CreateThrows
    <3>5. CASE Visit
      <4>1. Project \in Projects /\ Sync(Project) /\ Project \in Known
        BY <3>5, ProjectType DEF Visit
      <4>2. /\ Loads' /\ Held' /\ Hashed' /\ Informed'
            /\ \A q \in Projects : Fresh(q) => Fresh(q)'
            /\ text'[Project][cur.file] \in {Absent, cur.code}
        BY <3>5, <4>1, <3>l DEF Visit, caches
      <4>3. CASE Finish(Threw)
        BY <4>2, <4>3, ThrewFresh
      <4>4. CASE \E label \in Inside : Goto(label)
        <5>1. Project \in Known'
          BY <3>5, <4>1 DEF Visit, caches, Known
        <5>2. QED
          BY <3>i, <4>2, <4>4, <5>1, EntersFresh
      <4>5. QED
        BY <3>5, <4>3, <4>4 DEF Visit, Inside
    <3>6. CASE FolderSync \/ DeletedSync
      <4>1. Project \in Projects /\ Sync(Project) /\ Project \in Known
        BY <3>6, ProjectType DEF FolderSync, DeletedSync, Visits, Synced, Inside
      <4>2. /\ Loads' /\ Held' /\ Hashed' /\ Informed'
            /\ \A q \in Projects : Fresh(q) => Fresh(q)'
            /\ text'[Project][cur.file] \in {Absent, cur.code}
        BY <3>6, <4>1, <3>l DEF FolderSync, DeletedSync, caches
      <4>3. CASE Finish(Threw)
        BY <4>2, <4>3, ThrewFresh
      <4>4. CASE \E label \in Inside : Goto(label)
        <5>1. Project \in Known'
          BY <3>6, <4>1 DEF FolderSync, DeletedSync, caches, Known
        <5>2. QED
          BY <3>i, <4>2, <4>4, <5>1, EntersFresh
      <4>5. CASE NextProject /\ UNCHANGED results
        BY <3>i, <4>2, <4>5, GoesOnFresh DEF NextProject
      <4>6. QED
        BY <3>6, <4>3, <4>4, <4>5 DEF FolderSync, DeletedSync, Inside
    <3>7. CASE CheckConfig \/ Folder \/ NoneDeleted \/ (\E d \in Files : Deleted(d))
      <4>1. Project \in Projects /\ Project \in Known
            /\ text[Project][cur.file] \in {Absent, cur.code}
        BY <3>7, ProjectType DEF CheckConfig, Folder, NoneDeleted, Deleted, Visits, Synced,
                                 Inside, Fresh
      <4>2. UNCHANGED <<loaded, roots, text, seenHash, known>>
        BY <3>7 DEF CheckConfig, Folder, NoneDeleted, Deleted, watch, program, caches
      <4>3. \A p \in Projects : stale[p] \subseteq stale'[p]
        BY <3>7 DEF CheckConfig, Folder, NoneDeleted, Deleted, MarkStale, watch, program
      <4>4. Loads' /\ Held' /\ Hashed' /\ Informed'
            /\ \A q \in Projects : Fresh(q) => Fresh(q)'
        BY <4>2, <4>3, <3>m
      <4>5. CASE \E label \in Inside : Goto(label)
        <5>1. Project \in Known' /\ text'[Project][cur.file] \in {Absent, cur.code}
          BY <4>1, <4>2 DEF Known
        <5>2. QED
          BY <3>i, <4>4, <4>5, <5>1, EntersFresh
      <4>6. CASE NextProject /\ UNCHANGED results
        BY <3>i, <4>4, <4>6, GoesOnFresh DEF NextProject
      <4>7. QED
        BY <3>7, <4>5, <4>6 DEF CheckConfig, Folder, NoneDeleted, Deleted, Inside
    <3>8. CASE Listing
      <4>1. PICK p \in Projects : p = Project
        BY <3>8, ProjectType DEF Listing
      <4>2. text[p][cur.file] \in {Absent, cur.code}
        BY <3>8, <4>1 DEF Listing, Visits, Synced, Inside, Fresh
      <4>3. Loads' /\ Held' /\ Hashed' /\ Informed'
            /\ \A q \in Projects : Fresh(q) => Fresh(q)'
        BY <3>8, <3>m DEF Listing, watch, program
      <4>4. CASE FinishWith(<<Project>>, text)
        BY <3>i, <4>1, <4>2, <4>3, <4>4, FinishFresh
      <4>5. CASE NextProject /\ results' = Append(results, Project)
        <5>1. text'[p][cur.file] \in {Absent, cur.code}
          BY <3>8, <4>2 DEF Listing, watch, program
        <5>2. QED
          BY <3>i, <4>1, <4>3, <4>5, <5>1, GoesOnFresh DEF NextProject
      <4>6. QED
        BY <3>8, <4>4, <4>5 DEF Listing
    <3>9. CASE NoMoreProjects
      <4>1. Loads' /\ Held' /\ Hashed'
        BY <3>9, <3>m DEF NoMoreProjects, watch, program, caches
      <4>2. \A i \in DOMAIN results : text[results[i]][cur.file] \in {Absent, cur.code}
        BY <3>i DEF Synced, Fresh
      <4>3. QED
        BY <3>9, <3>i, <4>1, <4>2, FinishFresh DEF NoMoreProjects
    <3>10. QED
      BY <2>2, <3>1, <3>2, <3>3, <3>4, <3>5, <3>6, <3>7, <3>8, <3>9 DEF CallStep
  <2>3. CASE ClearWatchCaches
    <3>1. Loads' /\ Held' /\ Hashed'
      BY <2>3 DEF ClearWatchCaches, Unread, Loads, Held, Hashed
    <3>2. Told' /\ Synced' /\ FreshText'
      BY <2>3 DEF ClearWatchCaches, call, Told, Synced, FreshText, Inside
    <3>3. QED
      BY <3>1, <3>2
  <2>4. ASSUME UNCHANGED <<level, loaded, roots, text, stale, caches, seenHash, cur, call>>
        PROVE  FreshInv'
    <3>1. Loads' /\ Held' /\ Hashed'
      BY <2>4 DEF watch, program, caches, Loads, Held, Hashed, Known
    <3>2. Told' /\ Synced' /\ FreshText'
      BY <2>4 DEF watch, program, caches, call, Told, Informed, Synced, FreshText, Fresh,
                  Project, Known
    <3>3. QED
      BY <3>1, <3>2
  <2>5. ASSUME NEW f \in Files, NEW t \in Texts \cup {Absent}, Save(f, t)
        PROVE  FreshInv'
    BY <2>4, <2>5 DEF Save, watch, program
  <2>6. ASSUME NEW p \in Projects, NEW c \in Configs(p), WriteConfig(p, c)
        PROVE  FreshInv'
    BY <2>4, <2>6 DEF WriteConfig
  <2>7. CASE UNCHANGED vars
    BY <2>4, <2>7 DEF vars, watch, program
  <2>8. QED
    BY <2>1, <2>2, <2>3, <2>5, <2>6, <2>7 DEF Next
<1>3. QED
  BY <1>1, <1>2, TypeCorrect, PTL DEF Spec

(* Where no two projects reach one file, the program a call finds has the   *)
(* file as the text of the call, whatever was typed, saved or deleted       *)
(* before, and whatever the call was interrupted by.                        *)
THEOREM FoundIsFresh ==
    ASSUME Apart PROVE Spec => []FreshText
<1>1. FreshInv => FreshText
  BY DEF FreshInv
<1>2. QED
  BY <1>1, FreshInvariant, PTL

-----------------------------------------------------------------------------
(* The inductive invariant of GivesUpRightly.                               *)

(* A quiet call that does not find its file in p is right. *)
Right(p) == \/ disk[cur.file] = Absent
            \/ cur.file \notin config[p].include
            \/ early[p]

(* A project without a program: TypeScript will read everything. *)
Unmade == \A p \in Projects : p \notin Known => level[p] = "full"

(* What a program has read of its tsconfig is what is on disk, unless that  *)
(* was written since its time was looked at, or before the first look.      *)
AsRead(p) ==
    /\ timestamp[p] <= mtime[p]
    /\ p \in Known /\ level[p] # "full" /\ timestamp[p] \in {Never, mtime[p]}
          => loaded[p] = config[p] \/ early[p]

ConfigRead == \A p \in Projects : AsRead(p)

(* The project the second loop is at. *)
AtProject ==
    pc \in Inside =>
        /\ Project \in Known
        /\ pc \in {"folder", "folderSync"} /\ calm => timestamp[Project] = mtime[Project]
        /\ pc = "folderSync" =>
               level[Project] # "current" \/ cur.file \notin Watched[Project]
        /\ pc \in {"deleted", "deletedSync"} => level[Project] # "full"
        /\ pc \in {"deleted", "deletedSync"} /\ calm => Right(Project)
        /\ pc = "listing" /\ ~NoInvalidation => text[Project][cur.file] # Absent

(* The results are of projects the second loop has gone past. *)
Second == Inside \cup {"visit"}

Earlier ==
    /\ pc = "fast" => results = <<>>
    /\ pc \in Second => \A j \in DOMAIN results :
           \E i \in DOMAIN cur.projects : i < at /\ results[j] = cur.projects[i]

(* One of them has the file, or it was right to go past them all. *)
HasText  == \E j \in DOMAIN results : text[results[j]][cur.file] # Absent
AllRight == \A i \in DOMAIN cur.projects : i < at => Right(cur.projects[i])

Passed == pc \in Second /\ calm /\ ~NoInvalidation => HasText \/ AllRight

GiveUpInv == Unmade /\ ConfigRead /\ AtProject /\ Earlier /\ Passed

-----------------------------------------------------------------------------
(* What a step of a call leaves alone of p. *)
Same(p) == /\ text'[p][cur.file] = text[p][cur.file]
           /\ early'[p] = early[p]

Quiet == UNCHANGED <<disk, config, mtime, calm, cur>>

(* Where p keeps its text and its past, it was right before as it is after. *)
LEMMA RightStays ==
  ASSUME Quiet, NEW p \in Projects, Same(p), Right(p)
  PROVE  Right(p)'
  BY DEF Quiet, Same, Right

(* Asking for p leaves the other programs alone. *)
LEMMA SyncOthers ==
  ASSUME Types, NEW p \in Projects, Sync(p), NEW q \in Projects, q # p
  PROVE  /\ Same(q)
         /\ level'[q] = level[q] /\ loaded'[q] = loaded[q] /\ early'[q] = early[q]
  BY DEF Types, WatchType, Sync, Same

LEMMA SyncOne ==
  ASSUME Types, NEW p \in Projects, Sync(p)
  PROVE  /\ text'[p] = NewText(p) /\ level'[p] = "current" /\ loaded'[p] = NewLoaded(p)
         /\ early'[p] = (early[p] /\ level[p] # "full")
  BY DEF Types, WatchType, Sync

(* A program that is asked for has read the tsconfig as it is, if it had    *)
(* before or has none yet.                                                  *)
LEMMA SyncReads ==
  ASSUME Types, Unmade, ConfigRead, Quiet, UNCHANGED timestamp,
         NEW p \in Projects, Sync(p), Known' = Known \cup {p}
  PROVE  Unmade' /\ ConfigRead'
<1>1. Unmade'
  <2> SUFFICES ASSUME NEW q \in Projects, q \notin Known' PROVE level'[q] = "full"
    BY DEF Unmade
  <2>1. QED
    BY SyncOthers DEF Unmade
<1>2. ASSUME NEW q \in Projects PROVE AsRead(q)'
  <2>1. CASE q # p
    BY <2>1, SyncOthers DEF ConfigRead, AsRead, Quiet
  <2>2. CASE q = p /\ level[p] = "full"
    BY <2>2, SyncOne DEF ConfigRead, AsRead, Quiet, NewLoaded
  <2>3. CASE q = p /\ level[p] # "full"
    BY <2>3, SyncOne DEF ConfigRead, AsRead, Quiet, NewLoaded, Unmade
  <2>4. QED
    BY <2>1, <2>2, <2>3
<1>3. QED
  BY <1>2, <1>1 DEF ConfigRead

(* A program told to read the folder again, that has read the tsconfig as   *)
(* it is, has the call's file if it is on disk and included.                *)
LEMMA MissingIsRight ==
  ASSUME Types, Unmade, ConfigRead, Quiet,
         NEW p \in Projects, p \in Known, Sync(p), ~InProgram(p),
         level[p] # "current" \/ cur.file \notin Watched[p],
         timestamp[p] = mtime[p]
  PROVE  Right(p)'
<1>1. CASE cur.file \notin Watched[p]
  <2>1. config[p].include \subseteq Watched[p]
    BY WatchAssumption DEF Types, WorldType, Configs
  <2>2. QED
    BY <1>1, <2>1 DEF Right, Quiet
<1>2. CASE level[p] # "current"
  <2>1. cur.file \in Files /\ Read(cur.file) # Absent
    BY WatchAssumption DEF Types, CurType, Read
  <2>2. cur.file \notin Wanted(p)
    BY <1>2, <2>1 DEF InProgram, NewText, OutOfDate, Kept
  <2>3. cur.file \notin NewLoaded(p).include \/ disk[cur.file] = Absent
    BY <1>2, <2>2 DEF Wanted, NewRoots
  <2>4. CASE level[p] = "full"
    BY <2>3, <2>4 DEF NewLoaded, Right, Quiet
  <2>5. CASE level[p] # "full"
    <3>1. loaded[p] = config[p] \/ early[p]
      BY <2>5 DEF ConfigRead, AsRead
    <3>2. early'[p] = early[p]
      BY <2>5, SyncOne DEF Types, WatchType
    <3>3. QED
      BY <2>3, <2>5, <3>1, <3>2 DEF NewLoaded, Right, Quiet
  <2>6. QED
    BY <2>4, <2>5
<1>3. QED
  BY <1>1, <1>2

-----------------------------------------------------------------------------
(* A call that ends.                                                        *)
LEMMA EndsRight ==
  ASSUME pc' = "idle" PROVE AtProject' /\ Earlier' /\ Passed'
  BY DEF AtProject, Earlier, Passed, Second, Inside

LEMMA FinishEnds ==
  ASSUME NEW programs, NEW texts, FinishWith(programs, texts) PROVE pc' = "idle"
  BY DEF FinishWith, Finish

(* The projects before the one the second loop is at are others. *)
LEMMA EarlierIsOther ==
  ASSUME Types, NEW label, Visits(label),
         NEW i \in DOMAIN cur.projects, i < at
  PROVE  cur.projects[i] \in Projects /\ cur.projects[i] # Project
<1>1. cur.projects \in Requests /\ cur.projects \in Seq(Projects)
  BY WatchAssumption DEF Types, CurType
<1>2. at \in DOMAIN cur.projects /\ at # i
  BY <1>1 DEF Visits, Types, CallType
<1>3. cur.projects[i] # cur.projects[at]
  BY <1>1, <1>2, WatchAssumption
<1>4. QED
  BY <1>1, <1>3 DEF Project

(* The second loop stays where it is. *)
LEMMA StaysRight ==
  ASSUME Types, Earlier, Passed, Quiet, NEW label \in Second, Visits(label),
         NEW next \in Inside, Goto(next),
         \A q \in Projects : q # Project => Same(q)
  PROVE  Earlier' /\ Passed'
<1>0. UNCHANGED <<at, results, cur, calm>> /\ pc \in Second
  BY DEF Goto, Quiet, Visits
<1>1. \A j \in DOMAIN results :
          \E i \in DOMAIN cur.projects : i < at /\ results[j] = cur.projects[i]
  BY <1>0 DEF Earlier
<1>2. ASSUME NEW j \in DOMAIN results PROVE Same(results[j])
  <2>1. PICK i \in DOMAIN cur.projects : i < at /\ results[j] = cur.projects[i]
    BY <1>1
  <2>2. QED
    BY <2>1, EarlierIsOther
<1>3. HasText => HasText'
  BY <1>0, <1>2 DEF HasText, Same
<1>4. AllRight => AllRight'
  <2> SUFFICES ASSUME AllRight, NEW i \in DOMAIN cur.projects, i < at
               PROVE  Right(cur.projects[i])'
    BY <1>0 DEF AllRight
  <2>1. cur.projects[i] \in Projects /\ Same(cur.projects[i]) /\ Right(cur.projects[i])
    BY EarlierIsOther DEF AllRight
  <2>2. QED
    BY <2>1, <1>0 DEF Right, Same, Quiet
<1>5. Passed'
  BY <1>0, <1>3, <1>4 DEF Passed
<1>6. Earlier'
  BY <1>0, <1>1 DEF Earlier, Goto, Second, Inside
<1>7. QED
  BY <1>5, <1>6

(* The second loop goes on to the next project. *)
LEMMA GoesOnRight ==
  ASSUME Types, Earlier, Passed, Quiet, NEW label \in Second, Visits(label),
         NextProject, NEW p \in Projects, p = Project,
         results' = results \/ results' = Append(results, p),
         \A q \in Projects : q # p => Same(q),
         calm /\ ~NoInvalidation =>
             \/ Right(p)'
             \/ results' = Append(results, p) /\ text'[p][cur.file] # Absent
  PROVE  AtProject' /\ Earlier' /\ Passed'
<1>0. /\ UNCHANGED <<cur, calm>> /\ pc \in Second /\ pc' = "visit" /\ at' = at + 1
      /\ at \in Nat /\ at \in DOMAIN cur.projects /\ results \in Seq(Projects)
      /\ cur.projects \in Seq(Projects)
  BY WatchAssumption DEF NextProject, Quiet, Visits, Types, CallType, CurType
<1>r. \A j \in DOMAIN results : j \in DOMAIN results' /\ results'[j] = results[j]
  BY <1>0
<1>n. \A j \in DOMAIN results' : j \in DOMAIN results \/ results'[j] = p
  BY <1>0
<1>1. \A j \in DOMAIN results :
          \E i \in DOMAIN cur.projects : i < at /\ results[j] = cur.projects[i]
  BY <1>0 DEF Earlier
<1>2. ASSUME NEW j \in DOMAIN results PROVE Same(results[j])
  <2>1. PICK i \in DOMAIN cur.projects : i < at /\ results[j] = cur.projects[i]
    BY <1>1
  <2>2. QED
    BY <2>1, EarlierIsOther
<1>3. HasText => HasText'
  BY <1>0, <1>2, <1>r DEF HasText, Same
<1>4. AllRight /\ Right(p)' => AllRight'
  <2> SUFFICES ASSUME AllRight, Right(p)', NEW i \in DOMAIN cur.projects, i < at + 1
               PROVE  Right(cur.projects[i])'
    BY <1>0 DEF AllRight
  <2>1. CASE i = at
    BY <2>1, <1>0 DEF Project, Right
  <2>2. CASE i < at
    <3>1. cur.projects[i] \in Projects /\ Same(cur.projects[i]) /\ Right(cur.projects[i])
      BY <2>2, EarlierIsOther DEF AllRight
    <3>2. QED
      BY <3>1, <1>0 DEF Right, Same, Quiet
  <2>3. QED
    BY <1>0, <2>1, <2>2
<1>5. results' = Append(results, p) /\ text'[p][cur.file] # Absent => HasText'
  <2> SUFFICES ASSUME results' = Append(results, p), text'[p][cur.file] # Absent
               PROVE  \E j \in DOMAIN results' : text'[results'[j]][cur.file] # Absent
    BY <1>0 DEF HasText
  <2>1. Len(results) + 1 \in DOMAIN results' /\ results'[Len(results) + 1] = p
    BY <1>0
  <2>2. QED
    BY <2>1
<1>6. Passed'
  BY <1>0, <1>3, <1>4, <1>5 DEF Passed
<1>7. Earlier'
  <2> SUFFICES ASSUME NEW j \in DOMAIN results'
               PROVE  \E i \in DOMAIN cur.projects : i < at + 1 /\ results'[j] = cur.projects[i]
    BY <1>0 DEF Earlier
  <2>1. CASE j \in DOMAIN results
    BY <2>1, <1>0, <1>1, <1>r
  <2>2. CASE results'[j] = p
    BY <2>2, <1>0 DEF Project
  <2>3. QED
    BY <1>n, <2>1, <2>2
<1>8. AtProject'
  BY <1>0 DEF AtProject, Inside
<1>9. QED
  BY <1>6, <1>7, <1>8

-----------------------------------------------------------------------------
(* In a call that nothing disturbs, the second loop goes past a project only*)
(* with the file in hand or where it was right to.                          *)
LEMMA GiveUpInvariant == Spec => []GiveUpInv
<1>1. Init => GiveUpInv
  <2> SUFFICES ASSUME Init PROVE GiveUpInv
    OBVIOUS
  <2>1. Unmade /\ ConfigRead
    BY DEF Init, Unmade, ConfigRead, AsRead, Never
  <2>2. AtProject /\ Earlier /\ Passed
    BY DEF Init, AtProject, Earlier, Passed, Second, Inside
  <2>3. QED
    BY <2>1, <2>2 DEF GiveUpInv
<1>2. TypeOK /\ GiveUpInv /\ [Next]_vars => GiveUpInv'
  <2> SUFFICES ASSUME Types, GiveUpInv, [Next]_vars PROVE GiveUpInv'
    BY TypeParts
  <2> USE DEF GiveUpInv
  <2>t. \A p \in Projects : /\ mtime[p] \in Int /\ timestamp[p] \in Int /\ mtime[p] >= 0
                            /\ level[p] \in {"current", "names", "full"}
    BY WatchAssumption DEF Types, WorldType, CachesType, WatchType, Never
  <2>1. ASSUME NEW f \in Files, NEW code \in Texts, NEW projects \in Requests,
               Lint(f, code, projects)
        PROVE  GiveUpInv'
    <3>1. Unmade' /\ ConfigRead'
      BY <2>1 DEF Lint, program, caches, Unmade, ConfigRead, AsRead, Known
    <3>2. AtProject' /\ Earlier' /\ Passed'
      BY <2>1 DEF Lint, AtProject, Earlier, Passed, Second, Inside
    <3>3. QED
      BY <3>1, <3>2
  <2>2. CASE CallStep
    <3>q. Quiet
      BY <2>2 DEF CallStep, FastSkip, FastFill, FastHit, FastMiss, Create, CreateThrows,
           Visit, CheckConfig, Folder, FolderSync, NoneDeleted, Deleted, DeletedSync,
           Listing, NoMoreProjects, world, Quiet
    (* The steps that ask for no program: what they leave as it is. *)
    <3>w. ASSUME UNCHANGED <<level, loaded, early, known, timestamp>>
          PROVE  Unmade' /\ ConfigRead'
      BY <3>q, <3>w DEF Quiet, Unmade, ConfigRead, AsRead, Known
    <3>n. ASSUME NEW qs, qs \subseteq Known, MarkNames(qs),
                 UNCHANGED <<loaded, early, known, timestamp>>
          PROVE  Unmade' /\ ConfigRead'
      <4>1. \A p \in Projects : level'[p] = "full" <=> level[p] = "full"
        BY <3>n DEF MarkNames
      <4>2. QED
        BY <3>q, <3>n, <4>1 DEF Quiet, Unmade, ConfigRead, AsRead, Known
    <3>s. ASSUME UNCHANGED <<text, early>>
          PROVE  \A q \in Projects : Same(q)
      BY <3>q, <3>s DEF Same, Quiet
    <3>k. ASSUME NEW p \in Known, UNCHANGED known
          PROVE  Known' = Known \cup {p}
      BY <3>k DEF Known
    <3>1. CASE FastSkip \/ FastMiss
      <4>1. Unmade' /\ ConfigRead'
        BY <3>1, <3>w DEF FastSkip, FastMiss, watch, program, caches
      <4>2. /\ pc = "fast" /\ results' = results /\ UNCHANGED cur
            /\ \/ pc' = "fast"
               \/ pc' = "visit" /\ at' = 1
        BY <3>1 DEF FastSkip, FastMiss, InFast, NextIndex
      <4>3. results' = <<>>
        BY <4>2 DEF Earlier
      <4>4. \A i \in DOMAIN cur.projects : ~(i < 1)
        BY WatchAssumption DEF Types, CurType
      <4>5. AtProject' /\ Earlier' /\ Passed'
        BY <4>2, <4>3, <4>4 DEF AtProject, Earlier, Passed, AllRight, Second, Inside
      <4>6. QED
        BY <4>1, <4>5
    <3>2. CASE FastFill \/ FastHit
      <4>1. known[at] \in Projects /\ known[at] \in Known /\ Sync(known[at])
            /\ UNCHANGED <<known, timestamp>>
        BY <3>2 DEF FastFill, FastHit, InFast, caches, Types, CachesType, KnownType, Known
      <4>2. Unmade' /\ ConfigRead'
        BY <3>q, <3>k, <4>1, SyncReads
      <4>3. pc' = "idle" \/ (pc' = "fast" /\ results' = results /\ pc = "fast")
        BY <3>2, FinishEnds DEF FastFill, FastHit, InFast, Finish, NextIndex
      <4>4. AtProject' /\ Earlier' /\ Passed'
        BY <4>3, EndsRight DEF AtProject, Earlier, Passed, Second, Inside
      <4>5. QED
        BY <4>2, <4>4
    <3>3. CASE Create
      <4>1. PICK p \in Projects : p = Project
        BY <3>3, ProjectType DEF Create
      <4>2. /\ Visits("visit") /\ p \notin Known /\ Sync(p) /\ known' = Append(known, p)
            /\ UNCHANGED timestamp /\ level[p] = "full"
        BY <3>3, <4>1 DEF Create, Unmade
      <4>3. Known' = Known \cup {p}
        BY <4>2 DEF Known, Types, CachesType, KnownType
      <4>4. Unmade' /\ ConfigRead'
        BY <3>q, <4>2, <4>3, SyncReads
      <4>5. CASE FinishWith(<<Project>>, NewTexts(Project))
        BY <4>4, <4>5, FinishEnds, EndsRight
      <4>6. CASE NextProject /\ results' = Append(results, Project)
                 /\ cur.file \notin NewRoots(p)
        <5>1. Right(p)'
          BY <3>q, <4>2, <4>6 DEF NewRoots, NewLoaded, Right, Quiet
        <5>2. \A q \in Projects : q # p => Same(q)
          BY <4>2, SyncOthers
        <5>3. AtProject' /\ Earlier' /\ Passed'
          BY <3>q, <4>1, <4>2, <4>6, <5>1, <5>2, GoesOnRight DEF Second
        <5>4. QED
          BY <4>4, <5>3
      <4>7. QED
        BY <3>3, <4>1, <4>5, <4>6 DEF Create
    <3>4. CASE CreateThrows
      <4>1. Unmade' /\ ConfigRead'
        BY <3>4, <3>w DEF CreateThrows, watch, program, caches
      <4>2. QED
        BY <3>4, <4>1, EndsRight DEF CreateThrows, Finish
    <3>5. CASE Visit \/ FolderSync \/ DeletedSync
      <4>1. PICK p \in Projects : p = Project
        BY <3>5, ProjectType DEF Visit, FolderSync, DeletedSync
      <4>2. p \in Known /\ Sync(p) /\ UNCHANGED <<known, timestamp>>
        BY <3>5, <4>1 DEF Visit, FolderSync, DeletedSync, caches, AtProject, Visits, Inside
      <4>3. Unmade' /\ ConfigRead'
        BY <3>q, <3>k, <4>2, SyncReads
      <4>4. \A q \in Projects : q # p => Same(q)
        BY <4>2, SyncOthers
      <4>5. CASE Finish(Threw)
        BY <4>3, <4>5, EndsRight DEF Finish
      <4>6. ASSUME NEW label \in Second, Visits(label), NEW next \in Inside, Goto(next),
                   next \in {"config", "listing", "deleted"},
                   next = "listing" /\ ~NoInvalidation => text'[p][cur.file] # Absent,
                   next = "deleted" => level'[p] # "full" /\ (calm => Right(p)')
            PROVE  GiveUpInv'
        <5>1. Earlier' /\ Passed'
          BY <3>q, <4>1, <4>4, <4>6, StaysRight
        <5>2. pc' = next /\ Project' = p /\ UNCHANGED <<calm, cur>> /\ p \in Known'
          BY <3>q, <3>k, <4>1, <4>2, <4>6 DEF Goto, Project, Quiet
        <5>3. AtProject'
          BY <4>6, <5>2 DEF AtProject
        <5>4. QED
          BY <4>3, <5>1, <5>3
      <4>7. CASE Visit /\ ~Finish(Threw)
        <5>1. \/ Goto("config")
              \/ Goto("listing") /\ NoInvalidation
          BY <4>7 DEF Visit
        <5>2. QED
          BY <4>6, <4>7, <5>1 DEF Visit, Second, Inside
      <4>8. CASE FolderSync /\ ~Finish(Threw)
        <5>1. Visits("folderSync") /\ pc = "folderSync"
              /\ \/ Goto("listing") /\ InProgram(p)
                 \/ Goto("deleted") /\ ~InProgram(p)
          BY <4>1, <4>8 DEF FolderSync, Visits
        <5>2. InProgram(p) => text'[p][cur.file] # Absent
          BY <4>2, SyncOne DEF InProgram
        <5>3. calm /\ ~InProgram(p) => Right(p)'
          <6>1. /\ level[p] # "current" \/ cur.file \notin Watched[p]
                /\ calm => timestamp[p] = mtime[p]
            BY <4>1, <5>1 DEF AtProject, Inside
          <6>2. QED
            BY <3>q, <4>2, <6>1, MissingIsRight
        <5>4. level'[p] # "full"
          BY <4>2, SyncOne
        <5>5. QED
          BY <4>6, <5>1, <5>2, <5>3, <5>4 DEF Second, Inside
      <4>9. CASE DeletedSync /\ ~Finish(Threw)
        <5>1. Visits("deletedSync") /\ pc = "deletedSync"
              /\ \/ Goto("listing") /\ InProgram(p)
                 \/ NextProject /\ UNCHANGED results
          BY <4>1, <4>9 DEF DeletedSync, Visits
        <5>2. InProgram(p) => text'[p][cur.file] # Absent
          BY <4>2, SyncOne DEF InProgram
        <5>3. calm => Right(p)'
          <6>1. level[p] # "full" /\ (calm => Right(p))
            BY <4>1, <5>1 DEF AtProject, Inside
          <6>2. early'[p] = early[p]
            BY <4>2, <6>1, SyncOne DEF Types, WatchType
          <6>3. QED
            BY <3>q, <6>1, <6>2 DEF Right, Quiet
        <5>4. CASE Goto("listing") /\ InProgram(p)
          BY <4>6, <5>1, <5>2, <5>4 DEF Second, Inside
        <5>5. CASE NextProject /\ UNCHANGED results
          <6>1. AtProject' /\ Earlier' /\ Passed'
            BY <3>q, <4>1, <4>4, <5>1, <5>3, <5>5, GoesOnRight DEF Second, Inside
          <6>2. QED
            BY <4>3, <6>1
        <5>6. QED
          BY <5>1, <5>4, <5>5
      <4>10. QED
        BY <3>5, <4>5, <4>7, <4>8, <4>9
    <3>6. CASE CheckConfig \/ Folder \/ NoneDeleted \/ (\E d \in Files : Deleted(d))
      <4>1. PICK p \in Projects : p = Project
        BY <3>6, ProjectType DEF CheckConfig, Folder, NoneDeleted, Deleted
      <4>2. /\ p \in Known /\ p \in Known'
            /\ UNCHANGED <<loaded, text, early, known>>
            /\ \A q \in Projects : Same(q)
        BY <3>6, <3>s, <4>1 DEF CheckConfig, Folder, NoneDeleted, Deleted, watch, program,
                                caches, AtProject, Visits, Inside, Known
      <4>3. ASSUME NEW label \in Second, Visits(label), NEW next \in Inside, Goto(next)
            PROVE  Earlier' /\ Passed' /\ pc' = next /\ Project' = p /\ UNCHANGED <<calm, cur>>
        <5>1. Earlier' /\ Passed'
          BY <3>q, <4>2, <4>3, StaysRight
        <5>2. QED
          BY <3>q, <4>1, <4>3, <5>1 DEF Goto, Project, Quiet
      <4>4. ASSUME CheckConfig PROVE GiveUpInv'
        <5>1. /\ timestamp'[p] = mtime[p]
              /\ \A q \in Projects : q # p => timestamp'[q] = timestamp[q]
          BY <4>1, <4>4 DEF CheckConfig, Types, CachesType
        <5>2. /\ \/ level'[p] = "full"
                 \/ timestamp[p] \in {Never, mtime[p]} /\ level'[p] = level[p]
              /\ \A q \in Projects : q # p => level'[q] = level[q]
          BY <4>1, <4>4 DEF CheckConfig, HasTSConfigChanged, Types, WatchType
        <5>3. Unmade'
          BY <4>2, <5>2 DEF Unmade, Known
        <5>4. ASSUME NEW q \in Projects PROVE AsRead(q)'
          <6>1. CASE q # p
            BY <3>q, <4>2, <5>1, <5>2, <6>1 DEF ConfigRead, AsRead, Quiet, Known
          <6>2. CASE q = p
            BY <2>t, <3>q, <4>2, <5>1, <5>2, <6>2 DEF ConfigRead, AsRead, Quiet, Known
          <6>3. QED
            BY <6>1, <6>2
        <5>5. PICK next \in {"listing", "folder"} :
                  /\ Goto(next)
                  /\ next = "listing" => text[p][cur.file] # Absent
          BY <4>1, <4>4 DEF CheckConfig
        <5>6. Earlier' /\ Passed' /\ pc' = next /\ Project' = p /\ UNCHANGED <<calm, cur>>
          BY <4>3, <4>4, <5>5 DEF CheckConfig, Second, Inside
        <5>7. AtProject'
          BY <3>q, <4>2, <5>1, <5>5, <5>6 DEF AtProject, Quiet
        <5>8. QED
          BY <5>3, <5>4, <5>6, <5>7 DEF ConfigRead
      <4>5. ASSUME Folder PROVE GiveUpInv'
        <5>1. PICK qs : qs = {q \in Known : cur.file \in Watched[q]}
          OBVIOUS
        <5>2. Visits("folder") /\ pc = "folder" /\ UNCHANGED timestamp
              /\ (calm => timestamp[p] = mtime[p])
          BY <4>1, <4>5 DEF Folder, Visits, AtProject, Inside
        <5>3. CASE qs = {}
          <6>1. NextProject /\ UNCHANGED <<level, results>>
            BY <4>5, <5>1, <5>3 DEF Folder
          <6>2. Unmade' /\ ConfigRead'
            BY <3>w, <4>2, <5>2, <6>1
          <6>3. Right(p)'
            BY <3>q, <4>2, <5>1, <5>3, WatchAssumption
               DEF Right, Quiet, Types, WorldType, Configs
          <6>4. AtProject' /\ Earlier' /\ Passed'
            BY <3>q, <4>1, <4>2, <5>2, <6>1, <6>3, GoesOnRight DEF Second, Inside
          <6>5. QED
            BY <6>2, <6>4
        <5>4. CASE qs # {}
          <6>1. MarkNames(qs) /\ Goto("folderSync")
            BY <4>5, <5>1, <5>4 DEF Folder
          <6>2. Unmade' /\ ConfigRead'
            BY <3>n, <4>2, <5>1, <5>2, <6>1
          <6>3. level'[p] # "current" \/ cur.file \notin Watched[p]
            BY <2>t, <4>2, <5>1, <6>1 DEF MarkNames
          <6>4. /\ Earlier' /\ Passed' /\ pc' = "folderSync" /\ Project' = p
                /\ UNCHANGED <<calm, cur>>
            BY <4>3, <5>2, <6>1 DEF Second, Inside
          <6>5. AtProject'
            BY <3>q, <4>2, <5>2, <6>3, <6>4 DEF AtProject, Quiet
          <6>6. QED
            BY <6>2, <6>4, <6>5
        <5>5. QED
          BY <5>3, <5>4
      <4>6. ASSUME NoneDeleted PROVE GiveUpInv'
        <5>1. /\ Visits("deleted") /\ pc = "deleted" /\ NextProject /\ UNCHANGED results
              /\ UNCHANGED <<level, timestamp>>
          BY <4>6 DEF NoneDeleted, Visits, watch, caches
        <5>2. Unmade' /\ ConfigRead'
          BY <3>w, <4>2, <5>1
        <5>3. calm => Right(p)'
          BY <3>q, <4>1, <4>2, <5>1, RightStays DEF AtProject, Inside
        <5>4. AtProject' /\ Earlier' /\ Passed'
          BY <3>q, <4>1, <4>2, <5>1, <5>3, GoesOnRight DEF Second, Inside
        <5>5. QED
          BY <5>2, <5>4
      <4>7. ASSUME NEW d \in Files, Deleted(d) PROVE GiveUpInv'
        <5>1. /\ Visits("deleted") /\ pc = "deleted" /\ Goto("deletedSync")
              /\ MarkNames(Holders(d)) /\ UNCHANGED timestamp
          BY <4>7 DEF Deleted, Visits
        <5>2. Unmade' /\ ConfigRead'
          BY <3>n, <4>2, <5>1 DEF Holders
        <5>3. level[p] # "full" /\ (calm => Right(p)')
          BY <3>q, <4>1, <4>2, <5>1, RightStays DEF AtProject, Inside
        <5>4. level'[p] # "full"
          BY <5>1, <5>3 DEF MarkNames
        <5>5. /\ Earlier' /\ Passed' /\ pc' = "deletedSync" /\ Project' = p
              /\ UNCHANGED <<calm, cur>>
          BY <4>3, <5>1 DEF Second, Inside
        <5>6. AtProject'
          BY <4>2, <5>3, <5>4, <5>5 DEF AtProject
        <5>7. QED
          BY <5>2, <5>5, <5>6
      <4>8. QED
        BY <3>6, <4>4, <4>5, <4>6, <4>7
    <3>7. CASE Listing
      <4>1. PICK p \in Projects : p = Project
        BY <3>7, ProjectType DEF Listing
      <4>2. /\ Visits("listing") /\ UNCHANGED <<level, loaded, text, early, known, timestamp>>
            /\ (~NoInvalidation => text[p][cur.file] # Absent)
        BY <3>7, <4>1 DEF Listing, Visits, watch, program, AtProject, Inside
      <4>3. Unmade' /\ ConfigRead'
        BY <3>w, <4>2
      <4>4. CASE FinishWith(<<Project>>, text)
        BY <4>3, <4>4, FinishEnds, EndsRight
      <4>5. CASE NextProject /\ results' = Append(results, Project)
        <5>1. \A q \in Projects : Same(q)
          BY <3>s, <4>2
        <5>2. AtProject' /\ Earlier' /\ Passed'
          BY <3>q, <4>1, <4>2, <4>5, <5>1, GoesOnRight DEF Second, Inside
        <5>3. QED
          BY <4>3, <5>2
      <4>6. QED
        BY <3>7, <4>4, <4>5 DEF Listing
    <3>8. CASE NoMoreProjects
      <4>1. Unmade' /\ ConfigRead'
        BY <3>8, <3>w DEF NoMoreProjects, watch, program, caches
      <4>2. QED
        BY <3>8, <4>1, FinishEnds, EndsRight DEF NoMoreProjects
    <3>9. QED
      BY <2>2, <3>1, <3>2, <3>3, <3>4, <3>5, <3>6, <3>7, <3>8 DEF CallStep
  <2>3. CASE ClearWatchCaches
    <3>1. /\ pc' = "idle" /\ Known' = {}
          /\ \A p \in Projects : level'[p] = "full" /\ timestamp'[p] = Never
          /\ UNCHANGED mtime
      BY <2>3 DEF ClearWatchCaches, call, world, Known
    <3>2. Unmade' /\ ConfigRead'
      BY <2>t, <3>1 DEF Unmade, ConfigRead, AsRead, Never
    <3>3. QED
      BY <3>1, <3>2, EndsRight
  (* What others do: only a quiet call is promised anything. *)
  <2>4. ASSUME UNCHANGED <<level, loaded, roots, text, stale, caches, seenHash, cur, call>>,
               ConfigRead', calm' = FALSE
        PROVE  GiveUpInv'
    <3>1. Unmade' /\ Earlier' /\ Passed'
      BY <2>4 DEF caches, call, Unmade, Known, Earlier, Passed
    <3>2. AtProject'
      BY <2>4 DEF caches, call, AtProject, Project, Known
    <3>3. QED
      BY <2>4, <3>1, <3>2
  <2>5. ASSUME NEW f \in Files, NEW t \in Texts \cup {Absent}, Save(f, t)
        PROVE  GiveUpInv'
    <3>1. ConfigRead'
      BY <2>5 DEF Save, watch, program, caches, ConfigRead, AsRead, Known
    <3>2. QED
      BY <2>4, <2>5, <3>1 DEF Save, watch, program
  <2>6. ASSUME NEW p \in Projects, NEW c \in Configs(p), WriteConfig(p, c)
        PROVE  GiveUpInv'
    <3>1. UNCHANGED <<level, loaded, known, timestamp>>
      BY <2>6 DEF WriteConfig, caches
    <3>2. ASSUME NEW q \in Projects PROVE AsRead(q)'
      <4>1. CASE q # p
        <5>1. mtime'[q] = mtime[q] /\ config'[q] = config[q] /\ early'[q] = early[q]
          BY <2>6, <4>1 DEF WriteConfig, Types, WorldType, WatchType
        <5>2. QED
          BY <3>1, <5>1 DEF ConfigRead, AsRead, Known
      <4>2. CASE q = p
        <5>1. /\ mtime'[p] = mtime[p] + 1
              /\ p \in Known /\ timestamp[p] = Never => early'[p]
          BY <2>6 DEF WriteConfig, Types, WorldType, WatchType
        <5>2. timestamp'[p] <= mtime[p] /\ timestamp'[p] = timestamp[p]
          BY <3>1 DEF ConfigRead, AsRead
        <5>3. timestamp'[p] <= mtime'[p] /\ timestamp'[p] # mtime'[p]
          BY <2>t, <5>1, <5>2
        <5>4. p \in Known' => p \in Known
          BY <3>1 DEF Known
        <5>5. QED
          BY <4>2, <5>1, <5>2, <5>3, <5>4 DEF AsRead
      <4>3. QED
        BY <4>1, <4>2
    <3>3. ConfigRead'
      BY <3>2 DEF ConfigRead
    <3>4. QED
      BY <2>4, <2>6, <3>3 DEF WriteConfig
  <2>7. CASE UNCHANGED vars
    <3>1. UNCHANGED <<level, loaded, text, early, mtime, config, disk, calm, known, timestamp,
                      pc, at, results, cur>>
      BY <2>7 DEF vars, world, watch, program, caches, call
    <3>2. Unmade' /\ ConfigRead'
      BY <3>1 DEF Unmade, ConfigRead, AsRead, Known
    <3>3. AtProject' /\ Earlier' /\ Passed'
      BY <3>1 DEF AtProject, Project, Right, Known, Earlier, Passed, HasText, AllRight
    <3>4. QED
      BY <3>2, <3>3
  <2>8. QED
    BY <2>1, <2>2, <2>3, <2>5, <2>6, <2>7 DEF Next
<1>3. QED
  BY <1>1, <1>2, TypeCorrect, PTL DEF Spec

(* Whatever was cached, deleted, made again or written before, and however  *)
(* many projects, files and imports there are, a call that has looked at    *)
(* all its projects undisturbed gives the file up only where it is not on   *)
(* disk, or each tsconfig does not include it or was written before the     *)
(* first look at its time.                                                  *)
THEOREM GivesUp == Spec => GivesUpRightly
<1>1. TypeOK /\ GiveUpInv /\ [Next]_vars =>
          [NoMoreProjects /\ outcome' = Refused /\ calm /\ ~NoInvalidation =>
             \/ disk[cur.file] = Absent
             \/ \A i \in DOMAIN cur.projects :
                    \/ cur.file \notin config[cur.projects[i]].include
                    \/ early[cur.projects[i]]]_vars
  <2> SUFFICES ASSUME Types, GiveUpInv, NoMoreProjects, outcome' = Refused, calm,
                      ~NoInvalidation, NEW i \in DOMAIN cur.projects
               PROVE  Right(cur.projects[i])
    BY TypeParts DEF Right
  <2>1. /\ pc = "visit" /\ at \in Nat \ {0} /\ at \notin DOMAIN cur.projects
        /\ cur.file \in Files /\ cur.projects \in Seq(Projects)
        /\ results \in Seq(Projects) /\ text \in [Projects -> MaybeTexts]
    BY WatchAssumption DEF NoMoreProjects, Types, CallType, CurType, WatchType
  <2>2. ~HasText
    <3> SUFFICES ASSUME HasText PROVE FALSE
      OBVIOUS
    <3>1. PICK j \in DOMAIN results : outcome' = text[results[j]][cur.file]
                                      /\ text[results[j]][cur.file] # Absent
      BY DEF NoMoreProjects, FinishWith, Finish, HasText
    <3>2. results[j] \in Projects
      BY <2>1
    <3>3. outcome' \in Texts
      BY <2>1, <3>1, <3>2 DEF MaybeTexts
    <3>4. QED
      BY <3>3, WatchAssumption
  <2>3. i < at
    BY <2>1
  <2>4. AllRight
    BY <2>1, <2>2 DEF GiveUpInv, Passed, Second
  <2>5. QED
    BY <2>3, <2>4 DEF AllRight
<1>2. QED
  BY <1>1, TypeCorrect, GiveUpInvariant, PTL DEF Spec, GivesUpRightly
=============================================================================
