------------------------ MODULE TsconfigCachesProofs ------------------------
(***************************************************************************)
(* Theorems about TsconfigCaches, for any tree of directories, any callers *)
(* and lifetimes: type correctness, and the four properties of what a call *)
(* comes back with.                                                        *)
(***************************************************************************)
EXTENDS TsconfigCaches, LeastNumbers

USE InfinityAssumption

----------------------------------------------------------------------------
(* What is known of single entries and maps.                               *)

LEMMA EntryIsEntry ==
    ASSUME NEW n \in Nat, NEW V, NEW value \in V, NEW lifetime
    PROVE  Entry(value, lifetime, n) \in [lastSeen : 0..n, value : V]
BY DEF Entry

LEMMA EntryFields ==
    ASSUME NEW n, NEW value, NEW lifetime
    PROVE  /\ Entry(value, lifetime, n).value = value
           /\ Entry(value, lifetime, n).lastSeen = IF lifetime = Infinity THEN 0 ELSE n
BY DEF Entry

(* Entries with a value and a moment not after n, or none.                 *)
Slots(V, n) == [lastSeen : 0..n, value : V] \cup {Nothing}

LEMMA SlotsGrow ==
    ASSUME NEW n \in Nat, NEW V, NEW map \in [Dirs -> Slots(V, n)]
    PROVE  map \in [Dirs -> Slots(V, n + 1)]
<1>1. [lastSeen : 0..n, value : V] \subseteq [lastSeen : 0..(n + 1), value : V]
    OBVIOUS
<1> QED BY <1>1 DEF Slots

LEMMA SetsAreSlots ==
    ASSUME NEW n \in Nat, NEW V, NEW map \in [Dirs -> Slots(V, n)],
           NEW keys, NEW value \in V, NEW lifetime
    PROVE  AfterSets(map, keys, value, lifetime, n) \in [Dirs -> Slots(V, n)]
<1>1. Entry(value, lifetime, n) \in Slots(V, n)
    BY EntryIsEntry DEF Slots
<1> QED BY <1>1 DEF AfterSets

LEMMA GetsAreSlots ==
    ASSUME NEW n \in Nat, NEW V, NEW map \in [Dirs -> Slots(V, n)], NEW keys, NEW lifetime
    PROVE  AfterGets(map, keys, lifetime, n) \in [Dirs -> Slots(V, n)]
BY DEF AfterGets, Slots

LEMMA ClearedIsEmpty ==
    ASSUME NEW n \in Nat, NEW V, NEW map \in [Dirs -> Slots(V, n)]
    PROVE  Cleared(map) = [d \in Dirs |-> Nothing]
BY DEF Cleared

LEMMA EmptyIsSlots ==
    ASSUME NEW n \in Nat, NEW V
    PROVE  [d \in Dirs |-> Nothing] \in [Dirs -> Slots(V, n)]
BY DEF Slots

(* A lookup gives the value of a living entry or nothing.                  *)
LEMMA GetFound ==
    ASSUME NEW n, NEW map, NEW key, NEW lifetime, Get(map, key, lifetime, n) # Nothing
    PROVE  /\ map[key] # Nothing
           /\ Get(map, key, lifetime, n) = map[key].value
           /\ lifetime = Infinity \/ n - map[key].lastSeen < lifetime
BY DEF Get, Alive

----------------------------------------------------------------------------
(* The directories of a climb.                                             *)

LEMMA ClimbIsAbove ==
    ASSUME NEW dir \in Dirs, NEW root \in Dirs
    PROVE  Climb(dir, root) \subseteq AtOrAbove[dir] /\ Climb(dir, root) \subseteq Dirs
           /\ dir \in Climb(dir, root)
BY DirsAssumption DEF Climb

LEMMA LengthsAbove ==
    ASSUME NEW dir \in Dirs, NEW a \in AtOrAbove[dir]
    PROVE  a \in Dirs /\ Length[a] \in Nat /\ Length[a] <= Length[dir]
<1>1. dir \in AtOrAbove[dir] /\ AtOrAbove[dir] \subseteq Dirs
    BY DirsAssumption
<1>2. AtOrAbove[dir] = {b \in AtOrAbove[dir] : Length[b] <= Length[dir]}
    BY <1>1, DirsAssumption
<1>3. a \in Dirs /\ Length[a] \in Nat
    BY <1>1, DirsAssumption
<1>4. Length[a] <= Length[dir]
    BY <1>2
<1> QED BY <1>3, <1>4

(* Among directories of one chain there is a longest, and only one.        *)
LEMMA LongestIsLongest ==
    ASSUME NEW dir \in Dirs, NEW S \in SUBSET AtOrAbove[dir], S # {}
    PROVE  Longest(S) \in S /\ \A e \in S : Length[e] <= Length[Longest(S)]
<1> DEFINE lengths == {Length[e] : e \in S}
<1>1. \A e \in S : Length[e] \in Nat /\ Length[e] <= Length[dir]
    BY LengthsAbove
<1>2. lengths \in SUBSET Nat /\ lengths # {} /\ \A k \in lengths : k <= Length[dir]
    BY <1>1
<1>3. Length[dir] \in Nat
    BY DirsAssumption
<1>4. \E m \in lengths : \A k \in lengths : k <= m
    <2> HIDE DEF lengths
    <2> QED BY <1>2, <1>3, GreatestNumber
<1>5. \E d \in S : \A e \in S : Length[e] <= Length[d]
    BY <1>4
<1> QED BY <1>5 DEF Longest

LEMMA LongestIsOne ==
    ASSUME NEW dir \in Dirs, NEW S \in SUBSET AtOrAbove[dir], NEW d \in S,
           \A e \in S : Length[e] <= Length[d]
    PROVE  Longest(S) = d
<1>1. Longest(S) \in S /\ Length[d] <= Length[Longest(S)]
    BY LongestIsLongest
<1>2. Length[Longest(S)] <= Length[d]
    BY <1>1
<1>3. Length[Longest(S)] \in Nat /\ Length[d] \in Nat
    BY <1>1, LengthsAbove
<1>4. Length[Longest(S)] = Length[d]
    BY <1>1, <1>2, <1>3
<1>5. d \in AtOrAbove[dir] /\ Longest(S) \in AtOrAbove[dir]
    BY <1>1
<1> QED BY <1>4, <1>5, DirsAssumption

(* From a directory it passes, a climb goes on as one from there would.    *)
LEMMA ClimbFromWithin ==
    ASSUME NEW dir \in Dirs, NEW root \in Dirs, NEW d \in Climb(dir, root)
    PROVE  Climb(d, root) = {a \in Climb(dir, root) : Length[a] <= Length[d]}
<1>1. d \in AtOrAbove[dir] /\ d \in Dirs
    BY ClimbIsAbove
<1>2. AtOrAbove[d] = {b \in AtOrAbove[dir] : Length[b] <= Length[d]}
    BY <1>1, DirsAssumption
<1>3. dir \in AtOrAbove[dir]
    BY DirsAssumption
<1>4. d = dir \/ (Length[d] > 1 /\ Length[d] >= Length[root])
    BY DEF Climb
<1>5. ASSUME NEW a \in AtOrAbove[dir], Length[a] <= Length[d], a = dir
      PROVE  a = d
    <2>1. Length[d] <= Length[a] /\ Length[a] \in Nat /\ Length[d] \in Nat
        BY <1>1, <1>5, LengthsAbove
    <2>2. Length[a] = Length[d]
        BY <2>1, <1>5
    <2> QED BY <2>2, <1>1, DirsAssumption
<1>6. ASSUME NEW a \in AtOrAbove[dir], Length[a] <= Length[d]
      PROVE  a \in Climb(d, root) <=> a \in Climb(dir, root)
    <2>1. a \in AtOrAbove[d]
        BY <1>2, <1>6
    <2>2. a \in Climb(d, root) <=> (a = d \/ (Length[a] > 1 /\ Length[a] >= Length[root]))
        BY <2>1 DEF Climb
    <2>3. a \in Climb(dir, root) <=> (a = dir \/ (Length[a] > 1 /\ Length[a] >= Length[root]))
        BY DEF Climb
    <2> QED BY <2>2, <2>3, <1>4, <1>5, <1>6
<1>7. Climb(d, root) \subseteq AtOrAbove[d] /\ Climb(dir, root) \subseteq AtOrAbove[dir]
    BY <1>1, ClimbIsAbove
<1> QED BY <1>2, <1>6, <1>7

----------------------------------------------------------------------------
(* Type correctness.                                                       *)

(* TypeOK in groups of variables that change together.                     *)
ClockOK      == now \in 1..MaxTime /\ lastChange \in 0..now /\ lastClimb \in 0..now
WorldOK      == disk \subseteq Dirs /\ changed \in 0..MaxChanges
                /\ project \in Options /\ cli \in BOOLEAN
HistoryOK    == settled \in BOOLEAN /\ climbRoots \subseteq Dirs
CandidatesOK == candidates \subseteq Candidates
LifetimesOK  == matchLifetime \in AllLifetimes /\ globLifetime \in AllLifetimes
MatchOK      == match \in [Dirs -> Slots(Dirs, now)]
GlobOK       == glob \in [Dirs -> Slots(SUBSET Dirs, now)]
UnmadeOK     == /\ matchLifetime = Nothing => match = [d \in Dirs |-> Nothing]
                /\ globLifetime = Nothing  => glob = [r \in Dirs |-> Nothing]

Parts == /\ ClockOK /\ WorldOK /\ HistoryOK /\ CandidatesOK /\ LifetimesOK
         /\ MatchOK /\ GlobOK /\ UnmadeOK

LEMMA TypeParts == (TypeOK <=> Parts) /\ (TypeOK' <=> Parts')
BY DEF TypeOK, Parts, ClockOK, WorldOK, HistoryOK, CandidatesOK, LifetimesOK, MatchOK, GlobOK, UnmadeOK,
       Slots, MatchEntries, GlobEntries

LEMMA KeptIsLifetime ==
    ASSUME LifetimesOK, NEW lifetime \in Lifetimes, NEW option
    PROVE  /\ KeptOr(matchLifetime, Asked(option, lifetime)) \in AllLifetimes \ {Nothing}
           /\ KeptOr(globLifetime, Asked(option, lifetime)) \in AllLifetimes \ {Nothing}
<1>1. lifetime \in AllLifetimes \ {Nothing} /\ Infinity \in AllLifetimes \ {Nothing}
    BY CallersAssumption DEF AllLifetimes
<1>2. Asked(option, lifetime) \in AllLifetimes \ {Nothing}
    BY <1>1 DEF Asked
<1> QED BY <1>2 DEF KeptOr, LifetimesOK

LEMMA InferredIsDir ==
    ASSUME CandidatesOK
    PROVE  InferredRoot \in Dirs
BY CallersAssumption DEF CandidatesOK, InferredRoot

(* What the climb finds: a directory with a tsconfig or what a living entry*)
(* says, and the hit is one of the directories passed.                     *)
LEMMA HitIsPassed ==
    ASSUME NEW dir \in Dirs, NEW root \in Dirs, NEW hits \in SUBSET Climb(dir, root), hits # {}
    PROVE  /\ Longest(hits) \in hits
           /\ \A e \in hits : Length[e] <= Length[Longest(hits)]
           /\ Longest(hits) \in Dirs
<1>1. hits \in SUBSET AtOrAbove[dir]
    BY ClimbIsAbove
<1>2. Longest(hits) \in hits /\ \A e \in hits : Length[e] <= Length[Longest(hits)]
    BY <1>1, LongestIsLongest
<1> QED BY <1>2, ClimbIsAbove

(* The parts of a climb, named: its lifetime, what the cache says, the hits*)
(* and what is found at the first.                                         *)
Life(lifetime)            == KeptOr(matchLifetime, Asked("nearest", lifetime))
Said(d, lifetime)         == Get(match, d, Life(lifetime), now)
Hits(dir, root, lifetime) == {d \in Climb(dir, root) : Said(d, lifetime) # Nothing \/ d \in disk}
Hit(dir, root, lifetime)  == Longest(Hits(dir, root, lifetime))
Found(dir, root, lifetime) ==
    IF Said(Hit(dir, root, lifetime), lifetime) # Nothing
    THEN Said(Hit(dir, root, lifetime), lifetime) ELSE Hit(dir, root, lifetime)

LEMMA ClimbedParts ==
    ASSUME NEW dir, NEW root, NEW lifetime, Climbed(dir, root, lifetime)
    PROVE  /\ project = "nearest"
           /\ matchLifetime' = Life(lifetime)
           /\ \/ /\ Hits(dir, root, lifetime) # {}
                 /\ match' = AfterSets(match, Told(dir, root, Hit(dir, root, lifetime)),
                                       Found(dir, root, lifetime), Life(lifetime), now)
                 /\ globLifetime' = KeptOr(globLifetime, Asked("nearest", lifetime))
                 /\ Answered("nearest", dir, root, Found(dir, root, lifetime))
              \/ /\ Hits(dir, root, lifetime) = {}
                 /\ match' = MatchAfterMiss(Climb(dir, root), Life(lifetime))
                 /\ globLifetime' = globLifetime
                 /\ Answered("nearest", dir, root, NotFound)
           /\ lastClimb' = now
           /\ climbRoots' = climbRoots \cup {root}
           /\ UNCHANGED <<worldVars, candidates, glob, lastChange, settled>>
BY DEF Climbed, Life, Said, Hits, Hit, Found

LEMMA FoundIsDir ==
    ASSUME TypeOK, NEW dir \in Dirs, NEW root \in Dirs, NEW lifetime, Hits(dir, root, lifetime) # {}
    PROVE  /\ Hit(dir, root, lifetime) \in Hits(dir, root, lifetime)
           /\ Hit(dir, root, lifetime) \in Dirs
           /\ \A e \in Hits(dir, root, lifetime) : Length[e] <= Length[Hit(dir, root, lifetime)]
           /\ Found(dir, root, lifetime) \in Dirs
<1>1. Hits(dir, root, lifetime) \in SUBSET Climb(dir, root)
    BY DEF Hits
<1>2. /\ Hit(dir, root, lifetime) \in Hits(dir, root, lifetime)
      /\ Hit(dir, root, lifetime) \in Dirs
      /\ \A e \in Hits(dir, root, lifetime) : Length[e] <= Length[Hit(dir, root, lifetime)]
    BY <1>1, HitIsPassed DEF Hit
<1>3. ASSUME NEW d \in Dirs, Said(d, lifetime) # Nothing
      PROVE  Said(d, lifetime) \in Dirs
    <2>1. match[d] # Nothing /\ Said(d, lifetime) = match[d].value
        BY <1>3, GetFound DEF Said
    <2>2. match[d] \in MatchEntries
        BY <2>1 DEF TypeOK
    <2> QED BY <2>1, <2>2 DEF MatchEntries
<1>4. Found(dir, root, lifetime) \in Dirs
    BY <1>2, <1>3 DEF Found
<1> QED BY <1>2, <1>4

LEMMA ClimbedType ==
    ASSUME TypeOK, NEW dir \in Dirs, NEW root \in Dirs, NEW lifetime \in Lifetimes,
           Climbed(dir, root, lifetime)
    PROVE  TypeOK'
<1> USE ClimbedParts
<1>0. ClockOK /\ WorldOK /\ HistoryOK /\ CandidatesOK /\ LifetimesOK /\ MatchOK /\ GlobOK /\ UnmadeOK
    BY TypeParts DEF Parts
<1>1. now' = now /\ now \in Nat /\ worldVars' = worldVars
    BY <1>0 DEF worldVars, ClockOK
<1>2. ClockOK' /\ WorldOK' /\ HistoryOK' /\ CandidatesOK'
    BY <1>0, <1>1 DEF worldVars, ClockOK, WorldOK, HistoryOK, CandidatesOK
<1>3. matchLifetime' \in AllLifetimes \ {Nothing}
    BY <1>0, KeptIsLifetime DEF Life
<1>4. globLifetime' \in AllLifetimes /\ (globLifetime' = Nothing => globLifetime = Nothing)
    BY <1>0, KeptIsLifetime DEF LifetimesOK
<1>5. MatchOK'
    <2>1. CASE Hits(dir, root, lifetime) # {}
        <3>1. Found(dir, root, lifetime) \in Dirs
            BY <2>1, FoundIsDir
        <3> QED BY <2>1, <3>1, <1>0, <1>1, SetsAreSlots DEF MatchOK
    <2>2. CASE Hits(dir, root, lifetime) = {}
        BY <2>2, <1>0, <1>1, GetsAreSlots DEF MatchOK, MatchAfterMiss
    <2> QED BY <2>1, <2>2
<1>6. GlobOK' /\ UnmadeOK'
    BY <1>0, <1>1, <1>3, <1>4 DEF GlobOK, UnmadeOK
<1>7. LifetimesOK'
    BY <1>3, <1>4 DEF LifetimesOK
<1> QED BY <1>2, <1>5, <1>6, <1>7, TypeParts DEF Parts

LEMMA GlobbedType ==
    ASSUME TypeOK, NEW root \in Dirs, NEW lifetime \in Lifetimes, Globbed(root, lifetime)
    PROVE  TypeOK'
<1>0. ClockOK /\ WorldOK /\ HistoryOK /\ CandidatesOK /\ LifetimesOK /\ MatchOK /\ GlobOK /\ UnmadeOK
    BY TypeParts DEF Parts
<1>1. /\ now' = now /\ now \in Nat
      /\ UNCHANGED <<worldVars, candidates, match, historyVars>>
    BY <1>0 DEF Globbed, worldVars, ClockOK
<1>2. ClockOK' /\ WorldOK' /\ HistoryOK' /\ CandidatesOK' /\ MatchOK'
    BY <1>0, <1>1 DEF worldVars, historyVars, ClockOK, WorldOK, HistoryOK, CandidatesOK, MatchOK
<1>3. matchLifetime' \in AllLifetimes \ {Nothing} /\ globLifetime' \in AllLifetimes \ {Nothing}
    BY <1>0, KeptIsLifetime DEF Globbed
<1>4. Matches(disk, root) \in SUBSET Dirs
    BY <1>0 DEF Matches, WorldOK
<1>5. glob' = glob \/ \E life : glob' = AfterSets(glob, {root}, Matches(disk, root), life, now)
    BY DEF Globbed
<1>6. GlobOK'
    <2>1. CASE glob' = glob
        BY <2>1, <1>0, <1>1 DEF GlobOK
    <2>2. ASSUME NEW life, glob' = AfterSets(glob, {root}, Matches(disk, root), life, now)
          PROVE  GlobOK'
        <3>1. AfterSets(glob, {root}, Matches(disk, root), life, now) \in [Dirs -> Slots(SUBSET Dirs, now)]
            BY <1>0, <1>1, <1>4, SetsAreSlots DEF GlobOK
        <3> QED BY <3>1, <2>2, <1>1 DEF GlobOK
    <2> QED BY <2>1, <2>2, <1>5
<1>7. LifetimesOK' /\ UnmadeOK'
    BY <1>3 DEF LifetimesOK, UnmadeOK
<1> QED BY <1>2, <1>6, <1>7, TypeParts DEF Parts

LEMMA NoProjectType ==
    ASSUME TypeOK, NEW lifetime \in Lifetimes, NoProject(lifetime)
    PROVE  TypeOK'
<1>0. ClockOK /\ WorldOK /\ HistoryOK /\ CandidatesOK /\ LifetimesOK /\ MatchOK /\ GlobOK /\ UnmadeOK
    BY TypeParts DEF Parts
<1>1. UNCHANGED <<worldVars, candidates, match, globLifetime, glob, historyVars>>
    BY DEF NoProject
<1>2. matchLifetime' \in AllLifetimes \ {Nothing}
    BY <1>0, KeptIsLifetime DEF NoProject
<1>3. ClockOK' /\ WorldOK' /\ HistoryOK' /\ CandidatesOK' /\ MatchOK' /\ GlobOK'
    BY <1>0, <1>1 DEF worldVars, historyVars, ClockOK, WorldOK, HistoryOK, CandidatesOK, MatchOK, GlobOK
<1>4. LifetimesOK' /\ UnmadeOK'
    BY <1>0, <1>1, <1>2 DEF LifetimesOK, UnmadeOK
<1> QED BY <1>3, <1>4, TypeParts DEF Parts

(* A call is a climb, a glob, or one of the two that look at no tsconfig.  *)
LEMMA CallCases ==
    ASSUME TypeOK, CallWithRoot \/ CallInferring
    PROVE  \/ RootUnknown
           \/ \E lifetime \in Lifetimes : NoProject(lifetime)
           \/ \E dir \in Dirs, root \in Dirs, lifetime \in Lifetimes : Climbed(dir, root, lifetime)
           \/ \E root \in Dirs, lifetime \in Lifetimes : Globbed(root, lifetime)
<1>1. Roots \subseteq Dirs /\ InferredRoot \in Dirs
    BY CallersAssumption, InferredIsDir, TypeParts DEF Parts
<1>2. CASE CallWithRoot
    BY <1>1, <1>2 DEF CallWithRoot, Resolve
<1>3. CASE CallInferring
    BY <1>1, <1>3 DEF CallInferring, Resolve
<1> QED BY <1>2, <1>3

LEMMA OtherStepsType ==
    ASSUME TypeOK,
           \/ RootUnknown \/ LoadConfig \/ ClearCaches \/ ClearGlobResolutionCache
           \/ Tick \/ ChangeDisk \/ UNCHANGED vars
    PROVE  TypeOK'
<1>0. ClockOK /\ WorldOK /\ HistoryOK /\ CandidatesOK /\ LifetimesOK /\ MatchOK /\ GlobOK /\ UnmadeOK
    BY TypeParts DEF Parts
<1>n. now \in Nat
    BY <1>0 DEF ClockOK
<1> USE DEF worldVars, cacheVars, historyVars
<1>1. CASE RootUnknown \/ UNCHANGED vars
    <2>1. UNCHANGED <<worldVars, cacheVars, historyVars>>
        BY <1>1 DEF RootUnknown, vars
    <2> QED BY <2>1 DEF TypeOK, MatchEntries, GlobEntries
<1>2. CASE LoadConfig
    <2>1. CandidatesOK' /\ UNCHANGED <<worldVars, matchLifetime, match, globLifetime, glob, historyVars>>
        BY <1>2, <1>0 DEF LoadConfig, CandidatesOK
    <2>2. /\ ClockOK' /\ WorldOK' /\ HistoryOK' /\ LifetimesOK' /\ MatchOK' /\ GlobOK' /\ UnmadeOK'
        BY <2>1, <1>0 DEF ClockOK, WorldOK, HistoryOK, LifetimesOK, MatchOK, GlobOK, UnmadeOK
    <2> QED BY <2>1, <2>2, TypeParts DEF Parts
<1>3. CASE ClearCaches
    <2>1. /\ UNCHANGED <<worldVars, matchLifetime, globLifetime, lastChange, lastClimb>>
          /\ candidates' = {} /\ settled' = TRUE /\ climbRoots' = {}
        BY <1>3 DEF ClearCaches
    <2>2. match' = [d \in Dirs |-> Nothing] /\ glob' = [d \in Dirs |-> Nothing]
        BY <1>0, <1>3, <1>n, ClearedIsEmpty DEF ClearCaches, MatchOK, GlobOK
    <2>3. MatchOK' /\ GlobOK' /\ UnmadeOK'
        BY <2>1, <2>2, <1>n, EmptyIsSlots DEF MatchOK, GlobOK, UnmadeOK
    <2>4. ClockOK' /\ WorldOK' /\ HistoryOK' /\ LifetimesOK' /\ CandidatesOK'
        BY <2>1, <1>0 DEF ClockOK, WorldOK, HistoryOK, LifetimesOK, CandidatesOK
    <2> QED BY <2>3, <2>4, TypeParts DEF Parts
<1>4. CASE ClearGlobResolutionCache
    <2>1. UNCHANGED <<worldVars, candidates, matchLifetime, match, historyVars>> /\ globLifetime' = Nothing
        BY <1>4 DEF ClearGlobResolutionCache
    <2>2. glob' = [d \in Dirs |-> Nothing]
        BY <1>0, <1>4, <1>n, ClearedIsEmpty DEF ClearGlobResolutionCache, GlobOK
    <2>3. MatchOK' /\ GlobOK' /\ UnmadeOK'
        BY <2>1, <2>2, <1>0, <1>n, EmptyIsSlots DEF MatchOK, GlobOK, UnmadeOK
    <2>4. ClockOK' /\ WorldOK' /\ HistoryOK' /\ CandidatesOK'
        BY <2>1, <1>0 DEF ClockOK, WorldOK, HistoryOK, CandidatesOK
    <2>5. LifetimesOK'
        BY <2>1, <1>0 DEF LifetimesOK, AllLifetimes
    <2> QED BY <2>3, <2>4, <2>5, TypeParts DEF Parts
<1>5. CASE Tick
    <2>1. now < MaxTime /\ now' = now + 1 /\ UNCHANGED <<disk, changed, project, cli, cacheVars, historyVars>>
        BY <1>5 DEF Tick
    <2>2. ClockOK'
        BY <2>1, <1>0, CallersAssumption DEF ClockOK
    <2>3. WorldOK' /\ HistoryOK' /\ LifetimesOK' /\ CandidatesOK' /\ UnmadeOK'
        BY <2>1, <1>0 DEF WorldOK, HistoryOK, LifetimesOK, CandidatesOK, UnmadeOK
    <2>4. MatchOK' /\ GlobOK'
        BY <2>1, <1>0, <1>n, SlotsGrow DEF MatchOK, GlobOK
    <2> QED BY <2>2, <2>3, <2>4, TypeParts DEF Parts
<1>6. CASE ChangeDisk
    <2>1. /\ UNCHANGED <<now, project, cli, cacheVars, lastClimb, climbRoots>>
          /\ settled' = FALSE /\ lastChange' = now /\ changed < MaxChanges /\ changed' = changed + 1
          /\ \E d \in Dirs : disk' = IF d \in disk THEN disk \ {d} ELSE disk \cup {d}
        BY <1>6 DEF ChangeDisk
    <2>2. ClockOK' /\ HistoryOK' /\ LifetimesOK' /\ CandidatesOK' /\ MatchOK' /\ GlobOK' /\ UnmadeOK'
        <3>1. ClockOK'
            BY <2>1, <1>0 DEF ClockOK
        <3>2. HistoryOK' /\ LifetimesOK' /\ CandidatesOK'
            BY <2>1, <1>0 DEF HistoryOK, LifetimesOK, CandidatesOK
        <3>3. MatchOK' /\ GlobOK' /\ UnmadeOK'
            BY <2>1, <1>0 DEF MatchOK, GlobOK, UnmadeOK
        <3> QED BY <3>1, <3>2, <3>3
    <2>3. changed' \in 0..MaxChanges /\ disk' \in SUBSET Dirs
        BY <2>1, <1>0, CallersAssumption DEF WorldOK
    <2>4. WorldOK'
        BY <2>1, <2>3, <1>0 DEF WorldOK
    <2> QED BY <2>2, <2>4, TypeParts DEF Parts
<1> QED BY <1>1, <1>2, <1>3, <1>4, <1>5, <1>6

LEMMA TypeStep ==
    ASSUME TypeOK, [Next]_vars
    PROVE  TypeOK'
<1>1. CASE CallWithRoot \/ CallInferring
    BY <1>1, CallCases, NoProjectType, ClimbedType, GlobbedType, OtherStepsType
<1>2. CASE ~(CallWithRoot \/ CallInferring)
    BY <1>2, OtherStepsType DEF Next
<1> QED BY <1>1, <1>2

LEMMA TypeInit == Init => TypeOK
<1> SUFFICES ASSUME Init PROVE TypeOK
    OBVIOUS
<1>1. ClockOK /\ WorldOK /\ HistoryOK /\ CandidatesOK /\ LifetimesOK /\ UnmadeOK
    BY CallersAssumption DEF Init, ClockOK, WorldOK, HistoryOK, CandidatesOK, LifetimesOK, UnmadeOK,
       AllLifetimes
<1>2. MatchOK /\ GlobOK
    BY EmptyIsSlots DEF Init, MatchOK, GlobOK
<1> QED BY <1>1, <1>2, TypeParts DEF Parts

(* The caches hold tsconfigs, none from the future, and only once they are *)
(* made (createParseSettings.ts, resolveProjectList.ts).                   *)
THEOREM TypeCorrect == Spec => []TypeOK
<1>1. TypeOK /\ [Next]_vars => TypeOK'
    BY TypeStep
<1> QED BY <1>1, TypeInit, PTL DEF Spec

----------------------------------------------------------------------------
(* What a call comes back with.  Each property is decided by the step that *)
(* makes the answer, from what is known of the entries before it.          *)

(* The steps that answer a question about tsconfigs, and all others.       *)
LEMMA AnsweringSteps ==
    ASSUME TypeOK, [Next]_vars
    PROVE  \/ UNCHANGED vars
           \/ \E dir \in Dirs, root \in Dirs, lifetime \in Lifetimes : Climbed(dir, root, lifetime)
           \/ \E root \in Dirs, lifetime \in Lifetimes : Globbed(root, lifetime)
           \/ ~ Answers("nearest")' /\ ~ Answers("pattern")'
<1>1. CASE RootUnknown
    <2>1. answer' = [option |-> project, dir |-> Nothing, root |-> Nothing, result |-> ManyRoots,
                     idle |-> now - lastClimb]
        BY <1>1 DEF RootUnknown, Answered
    <2>2. answer'.root = Nothing
        BY <2>1
    <2> QED BY <2>2 DEF Answers
<1>2. CASE answer' = Nothing
    BY <1>2 DEF Answers
<1>3. CASE CallWithRoot \/ CallInferring
    <2>1. (\E lifetime \in Lifetimes : NoProject(lifetime)) => answer' = Nothing
        BY DEF NoProject
    <2> QED BY <1>1, <1>2, <1>3, <2>1, CallCases
<1>4. CASE LoadConfig \/ ClearCaches \/ ClearGlobResolutionCache \/ Tick \/ ChangeDisk
    BY <1>2, <1>4 DEF LoadConfig, ClearCaches, ClearGlobResolutionCache, Tick, ChangeDisk
<1> QED BY <1>3, <1>4 DEF Next

LEMMA ClimbedAnswer ==
    ASSUME NEW dir, NEW root, NEW lifetime, Climbed(dir, root, lifetime)
    PROVE  /\ answer'.dir = dir /\ answer'.root = root /\ answer'.option = "nearest"
           /\ answer'.idle = now - lastClimb
           /\ answer'.result = IF Hits(dir, root, lifetime) = {} THEN NotFound
                               ELSE Found(dir, root, lifetime)
           /\ ~ Answers("pattern")'
BY ClimbedParts DEF Answered, Answers

LEMMA GlobbedAnswer ==
    ASSUME NEW root, NEW lifetime, Globbed(root, lifetime)
    PROVE  /\ answer'.root = root /\ answer'.option = "pattern"
           /\ ~ Answers("nearest")'
           /\ \/ /\ globLifetime # Nothing /\ glob' = glob /\ globLifetime' = globLifetime
                 /\ Get(glob, root, globLifetime, now) # Nothing
                 /\ answer'.result = Get(glob, root, globLifetime, now)
              \/ /\ answer'.result = Matches(disk, root)
                 /\ \E life : glob' = AfterSets(glob, {root}, Matches(disk, root), life, now)
BY DEF Globbed, Answered, Answers, KeptOr

(* "Couldn't find any tsconfig.json" is true of the disk                   *)
(* (getProjectConfigFiles.ts:46-63).                                       *)
THEOREM NotFoundTrue == Spec => []NotFoundIsTrue
<1>1. Init => NotFoundIsTrue
    BY DEF Init, NotFoundIsTrue, Answers
<1>2. ASSUME TypeOK, NotFoundIsTrue, [Next]_vars
      PROVE  NotFoundIsTrue'
    <2>1. CASE UNCHANGED vars
        BY <1>2, <2>1 DEF NotFoundIsTrue, Answers, vars, worldVars
    <2>2. ASSUME NEW dir \in Dirs, NEW root \in Dirs, NEW lifetime \in Lifetimes,
                 Climbed(dir, root, lifetime)
          PROVE  NotFoundIsTrue'
        <3>1. CASE Hits(dir, root, lifetime) = {}
            <4>1. Climb(dir, root) \cap disk = {}
                BY <3>1 DEF Hits
            <4>2. disk' = disk
                BY <2>2 DEF Climbed, worldVars
            <4> QED BY <4>1, <4>2, <2>2, ClimbedAnswer DEF NotFoundIsTrue
        <3>2. CASE Hits(dir, root, lifetime) # {}
            <4>1. answer'.result \in Dirs
                BY <1>2, <2>2, <3>2, ClimbedAnswer, FoundIsDir
            <4> QED BY <4>1, DirsAssumption DEF NotFoundIsTrue
        <3> QED BY <3>1, <3>2
    <2>3. CASE ~ Answers("nearest")'
        BY <2>3 DEF NotFoundIsTrue
    <2> QED BY <1>2, <2>1, <2>2, <2>3, AnsweringSteps, GlobbedAnswer
<1> QED BY <1>1, <1>2, TypeCorrect, PTL DEF Spec

(* A list that was made after the disk last changed is what the disk holds.*)
GlobIsOfDisk ==
    \A r \in Dirs : glob[r] # Nothing /\ glob[r].lastSeen > lastChange =>
        glob[r].value = Matches(disk, r)

LEMMA ListsStep ==
    ASSUME TypeOK, GlobIsOfDisk, [Next]_vars
    PROVE  GlobIsOfDisk'
<1>1. CASE UNCHANGED <<glob, lastChange, disk>>
    BY <1>1 DEF GlobIsOfDisk, Matches
<1>2. CASE glob' = Cleared(glob)
    <2>1. \A r \in Dirs : glob'[r] = Nothing
        BY <1>2 DEF Cleared, TypeOK
    <2> QED BY <2>1 DEF GlobIsOfDisk
<1>3. CASE ChangeDisk
    <2>1. lastChange' = now /\ glob' = glob
        BY <1>3 DEF ChangeDisk, cacheVars
    <2>2. ASSUME NEW r \in Dirs, glob[r] # Nothing
          PROVE  ~ (glob[r].lastSeen > now)
        <3>1. glob[r] \in [lastSeen : 0..now, value : SUBSET Dirs]
            BY <2>2 DEF TypeOK, GlobEntries
        <3>2. glob[r].lastSeen \in 0..now /\ now \in Nat
            BY <3>1 DEF TypeOK
        <3> QED BY <3>2
    <2> QED BY <2>1, <2>2 DEF GlobIsOfDisk
<1>4. ASSUME NEW root \in Dirs, NEW lifetime \in Lifetimes, Globbed(root, lifetime)
      PROVE  GlobIsOfDisk'
    <2>1. lastChange' = lastChange /\ disk' = disk
        BY <1>4 DEF Globbed, worldVars, historyVars
    <2>2. ASSUME NEW life, glob' = AfterSets(glob, {root}, Matches(disk, root), life, now),
                 NEW r \in Dirs
          PROVE  IF r = root THEN glob'[r].value = Matches(disk, r) ELSE glob'[r] = glob[r]
        <3>1. DOMAIN glob = Dirs
            BY DEF TypeOK
        <3>2. glob'[r] = IF r = root THEN Entry(Matches(disk, root), life, now) ELSE glob[r]
            BY <2>2, <3>1 DEF AfterSets
        <3> QED BY <3>2, EntryFields
    <2> QED BY <1>1, <1>4, <2>1, <2>2, GlobbedAnswer DEF GlobIsOfDisk, Matches
<1>5. CASE CallWithRoot \/ CallInferring
    <2>1. RootUnknown => UNCHANGED <<glob, lastChange, disk>>
        BY DEF RootUnknown, worldVars, cacheVars, historyVars
    <2>2. \A lifetime \in Lifetimes : NoProject(lifetime) => UNCHANGED <<glob, lastChange, disk>>
        BY DEF NoProject, worldVars, historyVars
    <2>3. \A dir \in Dirs, root \in Dirs, lifetime \in Lifetimes :
              Climbed(dir, root, lifetime) => UNCHANGED <<glob, lastChange, disk>>
        BY DEF Climbed, worldVars
    <2> QED BY <1>1, <1>4, <1>5, <2>1, <2>2, <2>3, CallCases
<1>6. LoadConfig \/ Tick \/ UNCHANGED vars => UNCHANGED <<glob, lastChange, disk>>
    BY DEF LoadConfig, Tick, vars, worldVars, cacheVars, historyVars
<1>7. ClearCaches \/ ClearGlobResolutionCache => glob' = Cleared(glob)
    BY DEF ClearCaches, ClearGlobResolutionCache
<1> QED BY <1>1, <1>2, <1>3, <1>5, <1>6, <1>7 DEF Next

(* Once the disk has been left alone for the cache's lifetime, every list  *)
(* is what the disk holds (resolveProjectList.ts:77-81,120).               *)
THEOREM ListsSettle == Spec => []GlobSettles
<1>1. Init => GlobIsOfDisk /\ GlobSettles
    BY DEF Init, GlobIsOfDisk, GlobSettles, Answers
<1>2. ASSUME TypeOK, GlobIsOfDisk, GlobSettles, [Next]_vars
      PROVE  GlobSettles'
    <2>1. CASE UNCHANGED vars
        BY <1>2, <2>1 DEF GlobSettles, Answers, Matches, vars, worldVars, cacheVars, historyVars
    <2>2. ASSUME NEW root \in Dirs, NEW lifetime \in Lifetimes, Globbed(root, lifetime)
          PROVE  GlobSettles'
        <3>1. now' = now /\ lastChange' = lastChange /\ disk' = disk
            BY <2>2 DEF Globbed, worldVars, historyVars
        <3>2. CASE answer'.result = Matches(disk, root)
            BY <2>2, <3>1, <3>2, GlobbedAnswer DEF GlobSettles, Matches
        <3>3. ASSUME globLifetime # Nothing, globLifetime' = globLifetime,
                     Get(glob, root, globLifetime, now) # Nothing,
                     answer'.result = Get(glob, root, globLifetime, now),
                     globLifetime # Infinity, now - lastChange >= globLifetime
              PROVE  answer'.result = Matches(disk, root)
            <4>1. /\ glob[root] # Nothing /\ answer'.result = glob[root].value
                  /\ now - glob[root].lastSeen < globLifetime
                BY <3>3, GetFound
            <4>2. glob[root] \in [lastSeen : 0..now, value : SUBSET Dirs]
                BY <4>1, <1>2 DEF TypeOK, GlobEntries
            <4>3. glob[root].lastSeen \in 0..now /\ now \in Nat /\ lastChange \in Nat
                BY <4>2, <1>2 DEF TypeOK
            <4>4. globLifetime \in Nat
                BY <3>3, <1>2, CallersAssumption DEF TypeOK, AllLifetimes
            <4>5. glob[root].lastSeen > lastChange
                BY <4>1, <4>3, <4>4, <3>3
            <4> QED BY <4>1, <4>5, <1>2 DEF GlobIsOfDisk
        <3> QED BY <2>2, <3>1, <3>2, <3>3, GlobbedAnswer DEF GlobSettles, Matches
    <2>3. CASE ~ Answers("pattern")'
        BY <2>3 DEF GlobSettles
    <2> QED BY <1>2, <2>1, <2>2, <2>3, AnsweringSteps, ClimbedAnswer
<1>3. TypeOK /\ GlobIsOfDisk /\ [Next]_vars => GlobIsOfDisk'
    BY ListsStep
<1> QED BY <1>1, <1>2, <1>3, TypeCorrect, PTL DEF Spec

----------------------------------------------------------------------------
(* Answers from climbs.                                                    *)

(* No entry is younger than the last climb.                                *)
SeenByClimb == \A d \in Dirs : match[d] # Nothing => match[d].lastSeen <= lastClimb

(* While the disk is as it was when the caches were last empty and one root*)
(* has bounded all climbs, an entry says what a climb would find.          *)
CachedIsNearest ==
    settled => \A root \in Dirs : climbRoots \subseteq {root} =>
        \A d \in Dirs : match[d] # Nothing => match[d].value = Nearest(disk, d, root)

(* The steps that write entries, and all others.                           *)
LEMMA MatchSteps ==
    ASSUME TypeOK, [Next]_vars
    PROVE  \/ \E dir \in Dirs, root \in Dirs, lifetime \in Lifetimes : Climbed(dir, root, lifetime)
           \/ \A d \in Dirs : match'[d] = Nothing
           \/ UNCHANGED <<match, lastClimb, climbRoots>>
              /\ (settled' => settled /\ disk' = disk)
<1> USE DEF worldVars, cacheVars, historyVars
<1>1. CASE CallWithRoot \/ CallInferring
    <2>1. RootUnknown => UNCHANGED <<match, lastClimb, climbRoots, settled, disk>>
        BY DEF RootUnknown
    <2>2. \A lifetime \in Lifetimes : NoProject(lifetime) =>
              UNCHANGED <<match, lastClimb, climbRoots, settled, disk>>
        BY DEF NoProject
    <2>3. \A root \in Dirs, lifetime \in Lifetimes : Globbed(root, lifetime) =>
              UNCHANGED <<match, lastClimb, climbRoots, settled, disk>>
        BY DEF Globbed
    <2> QED BY <1>1, <2>1, <2>2, <2>3, CallCases
<1>2. LoadConfig \/ Tick \/ ClearGlobResolutionCache \/ UNCHANGED vars =>
          UNCHANGED <<match, lastClimb, climbRoots, settled, disk>>
    BY DEF LoadConfig, Tick, ClearGlobResolutionCache, vars
<1>3. ChangeDisk => UNCHANGED <<match, lastClimb, climbRoots>> /\ ~ settled'
    BY DEF ChangeDisk
<1>4. ClearCaches => \A d \in Dirs : match'[d] = Nothing
    BY DEF ClearCaches, Cleared, TypeOK
<1> QED BY <1>1, <1>2, <1>3, <1>4 DEF Next

(* What a climb leaves in an entry: what was found, said now, or what was  *)
(* there, or nothing.                                                      *)
LEMMA ClimbedEntries ==
    ASSUME TypeOK, NEW dir \in Dirs, NEW root \in Dirs, NEW lifetime \in Lifetimes,
           Climbed(dir, root, lifetime), NEW d \in Dirs, match'[d] # Nothing
    PROVE  \/ match'[d] = match[d]
           \/ /\ Hits(dir, root, lifetime) # {}
              /\ d \in Told(dir, root, Hit(dir, root, lifetime))
              /\ match'[d] = Entry(Found(dir, root, lifetime), Life(lifetime), now)
<1>1. DOMAIN match = Dirs
    BY DEF TypeOK
<1> QED BY <1>1, ClimbedParts DEF AfterSets, AfterGets, MatchAfterMiss

LEMMA SeenStep ==
    ASSUME TypeOK, SeenByClimb, [Next]_vars
    PROVE  SeenByClimb'
<1>1. ASSUME NEW dir \in Dirs, NEW root \in Dirs, NEW lifetime \in Lifetimes,
             Climbed(dir, root, lifetime)
      PROVE  SeenByClimb'
    <2>1. lastClimb' = now /\ now \in Nat
        BY <1>1 DEF Climbed, TypeOK
    <2>2. ASSUME NEW d \in Dirs, match'[d] # Nothing
          PROVE  match'[d].lastSeen <= now
        <3>1. CASE match'[d] = match[d]
            <4>1. match[d] \in [lastSeen : 0..now, value : Dirs]
                BY <3>1, <2>2 DEF TypeOK, MatchEntries
            <4> QED BY <4>1, <3>1, <2>1
        <3>2. CASE match'[d] = Entry(Found(dir, root, lifetime), Life(lifetime), now)
            BY <3>2, <2>1, EntryFields
        <3> QED BY <1>1, <2>2, <3>1, <3>2, ClimbedEntries
    <2> QED BY <2>1, <2>2 DEF SeenByClimb
<1> QED BY <1>1, MatchSteps DEF SeenByClimb

(* What a climb with a hit finds is the nearest tsconfig, of each directory*)
(* it tells, if the entry of a hit in the cache says so.                   *)
LEMMA FoundIsNearest ==
    ASSUME TypeOK, NEW dir \in Dirs, NEW root \in Dirs, NEW lifetime,
           Hits(dir, root, lifetime) # {},
           \A e \in Dirs : Said(e, lifetime) # Nothing => Said(e, lifetime) = Nearest(disk, e, root),
           NEW d \in Told(dir, root, Hit(dir, root, lifetime))
    PROVE  Found(dir, root, lifetime) = Nearest(disk, d, root)
<1> DEFINE hit == Hit(dir, root, lifetime)
<1>1. /\ hit \in Hits(dir, root, lifetime) /\ hit \in Dirs /\ hit \in Climb(dir, root)
      /\ \A e \in Hits(dir, root, lifetime) : Length[e] <= Length[hit]
    BY FoundIsDir DEF Hits
<1>2. d \in Climb(dir, root) /\ d \in Dirs /\ Length[hit] <= Length[d]
    BY ClimbIsAbove DEF Told
<1>3. Climb(d, root) = {a \in Climb(dir, root) : Length[a] <= Length[d]}
    BY <1>2, ClimbFromWithin
<1>4. Climb(hit, root) = {a \in Climb(dir, root) : Length[a] <= Length[hit]}
    BY <1>1, ClimbFromWithin
<1>5. \A a \in Climb(dir, root) : Length[a] \in Nat
    BY ClimbIsAbove, DirsAssumption
<1>6. \A a \in Climb(dir, root) \cap disk : Length[a] <= Length[hit]
    BY <1>1 DEF Hits
<1>7. Climb(d, root) \cap disk = Climb(hit, root) \cap disk
    <2>1. ASSUME NEW a \in Climb(dir, root) \cap disk
          PROVE  Length[a] <= Length[d]
        BY <1>1, <1>2, <1>5, <1>6
    <2> QED BY <2>1, <1>3, <1>4, <1>6
<1>8. Nearest(disk, d, root) = Nearest(disk, hit, root)
    BY <1>7 DEF Nearest
<1>9. CASE Said(hit, lifetime) # Nothing
    BY <1>9, <1>1, <1>8 DEF Found
<1>10. CASE Said(hit, lifetime) = Nothing
    <2>1. hit \in disk /\ hit \in Climb(hit, root)
        BY <1>10, <1>1, ClimbIsAbove DEF Hits
    <2>2. Climb(hit, root) \cap disk \in SUBSET AtOrAbove[hit]
        BY <1>1, ClimbIsAbove
    <2>3. \A e \in Climb(hit, root) \cap disk : Length[e] <= Length[hit]
        BY <1>4
    <2>4. Longest(Climb(hit, root) \cap disk) = hit
        BY <1>1, <2>1, <2>2, <2>3, LongestIsOne
    <2>5. Nearest(disk, hit, root) = hit
        BY <2>1, <2>4 DEF Nearest
    <2> QED BY <2>5, <1>8, <1>10 DEF Found
<1> QED BY <1>9, <1>10

(* The file's own directory is told, so the answer is its nearest.         *)
LEMMA AnswerIsNearest ==
    ASSUME TypeOK, NEW dir \in Dirs, NEW root \in Dirs, NEW lifetime \in Lifetimes,
           Climbed(dir, root, lifetime),
           \A e \in Dirs : Said(e, lifetime) # Nothing => Said(e, lifetime) = Nearest(disk, e, root)
    PROVE  answer'.result = Nearest(disk, dir, root)
<1>1. CASE Hits(dir, root, lifetime) = {}
    <2>1. Climb(dir, root) \cap disk = {}
        BY <1>1 DEF Hits
    <2> QED BY <1>1, <2>1, ClimbedAnswer DEF Nearest
<1>2. CASE Hits(dir, root, lifetime) # {}
    <2>1. Hit(dir, root, lifetime) \in Climb(dir, root)
        BY <1>2, FoundIsDir DEF Hits
    <2>2. Length[Hit(dir, root, lifetime)] <= Length[dir]
        BY <2>1, ClimbIsAbove, LengthsAbove
    <2>3. dir \in Told(dir, root, Hit(dir, root, lifetime))
        BY <2>2, ClimbIsAbove DEF Told
    <2>4. Found(dir, root, lifetime) = Nearest(disk, dir, root)
        BY <1>2, <2>3, FoundIsNearest
    <2> QED BY <2>4, <1>2, ClimbedAnswer
<1> QED BY <1>1, <1>2

(* Once nobody has climbed for a lifetime, the next answer comes from the  *)
(* disk (ExpiringCache.ts:40, getProjectConfigFiles.ts:51-54).             *)
THEOREM FreshAfterIdling == Spec => []IdleMeansFresh
<1>1. Init => SeenByClimb /\ IdleMeansFresh
    BY DEF Init, SeenByClimb, IdleMeansFresh, Answers
<1>2. ASSUME TypeOK, SeenByClimb, IdleMeansFresh, [Next]_vars
      PROVE  IdleMeansFresh'
    <2>1. CASE UNCHANGED vars
        BY <1>2, <2>1 DEF IdleMeansFresh, Answers, Nearest, vars, worldVars, cacheVars
    <2>2. ASSUME NEW dir \in Dirs, NEW root \in Dirs, NEW lifetime \in Lifetimes,
                 Climbed(dir, root, lifetime)
          PROVE  IdleMeansFresh'
        <3>1. matchLifetime' = Life(lifetime) /\ disk' = disk
            BY <2>2, ClimbedParts DEF worldVars
        <3>2. SUFFICES ASSUME Life(lifetime) # Infinity, now - lastClimb >= Life(lifetime)
                       PROVE  answer'.result = Nearest(disk, dir, root)
            BY <2>2, <3>1, ClimbedAnswer DEF IdleMeansFresh, Nearest
        <3>3. Life(lifetime) \in Nat /\ now \in Nat /\ lastClimb \in Nat
            <4>1. LifetimesOK
                BY <1>2, TypeParts DEF Parts
            <4>2. Life(lifetime) \in AllLifetimes \ {Nothing}
                BY <4>1, KeptIsLifetime DEF Life
            <4>3. Life(lifetime) \in Nat
                BY <4>2, <3>2, CallersAssumption DEF AllLifetimes
            <4> QED BY <4>3, <1>2 DEF TypeOK
        <3>4. ASSUME NEW e \in Dirs, Said(e, lifetime) # Nothing
              PROVE  FALSE
            <4>1. match[e] # Nothing /\ now - match[e].lastSeen < Life(lifetime)
                BY <3>2, <3>4, GetFound DEF Said
            <4>2. match[e] \in [lastSeen : 0..now, value : Dirs]
                BY <4>1, <1>2 DEF TypeOK, MatchEntries
            <4>3. match[e].lastSeen <= lastClimb /\ match[e].lastSeen \in Nat
                BY <4>1, <4>2, <1>2, <3>3 DEF SeenByClimb
            <4> QED BY <4>1, <4>3, <3>2, <3>3
        <3> QED BY <1>2, <2>2, <3>4, AnswerIsNearest
    <2>3. CASE ~ Answers("nearest")'
        BY <2>3 DEF IdleMeansFresh
    <2> QED BY <1>2, <2>1, <2>2, <2>3, AnsweringSteps, GlobbedAnswer
<1>3. TypeOK /\ SeenByClimb /\ [Next]_vars => SeenByClimb'
    BY SeenStep
<1> QED BY <1>1, <1>2, <1>3, TypeCorrect, PTL DEF Spec

LEMMA CachedStep ==
    ASSUME TypeOK, CachedIsNearest, [Next]_vars
    PROVE  CachedIsNearest'
<1>1. ASSUME NEW dir \in Dirs, NEW root \in Dirs, NEW lifetime \in Lifetimes,
             Climbed(dir, root, lifetime)
      PROVE  CachedIsNearest'
    <2>1. climbRoots' = climbRoots \cup {root} /\ settled' = settled /\ disk' = disk
        BY <1>1 DEF Climbed, worldVars
    <2>2. SUFFICES ASSUME settled, climbRoots \subseteq {root}, NEW d \in Dirs, match'[d] # Nothing
                   PROVE  match'[d].value = Nearest(disk, d, root)
        BY <2>1 DEF CachedIsNearest, Nearest
    <2>3. \A e \in Dirs : match[e] # Nothing => match[e].value = Nearest(disk, e, root)
        BY <2>2 DEF CachedIsNearest
    <2>4. \A e \in Dirs : Said(e, lifetime) # Nothing => Said(e, lifetime) = Nearest(disk, e, root)
        BY <2>3, GetFound DEF Said
    <2>5. CASE match'[d] = match[d]
        BY <2>2, <2>3, <2>5
    <2>6. CASE /\ Hits(dir, root, lifetime) # {}
               /\ d \in Told(dir, root, Hit(dir, root, lifetime))
               /\ match'[d] = Entry(Found(dir, root, lifetime), Life(lifetime), now)
        BY <2>4, <2>6, FoundIsNearest, EntryFields
    <2> QED BY <1>1, <2>2, <2>5, <2>6, ClimbedEntries
<1>2. CASE \A d \in Dirs : match'[d] = Nothing
    BY <1>2 DEF CachedIsNearest
<1>3. CASE UNCHANGED <<match, lastClimb, climbRoots>> /\ (settled' => settled /\ disk' = disk)
    BY <1>3 DEF CachedIsNearest, Nearest
<1> QED BY <1>1, <1>2, <1>3, MatchSteps

(* Other files' climbs change no answer of a disk that stands still        *)
(* (getProjectConfigFiles.ts:51-54).                                       *)
THEOREM AnswersAreStable == Spec => []StableAnswers
<1>1. Init => CachedIsNearest /\ StableAnswers
    BY DEF Init, CachedIsNearest, StableAnswers, Answers
<1>2. ASSUME TypeOK, CachedIsNearest, StableAnswers, [Next]_vars
      PROVE  StableAnswers'
    <2>1. CASE UNCHANGED vars
        BY <1>2, <2>1 DEF StableAnswers, Answers, Nearest, vars, worldVars, historyVars
    <2>2. ASSUME NEW dir \in Dirs, NEW root \in Dirs, NEW lifetime \in Lifetimes,
                 Climbed(dir, root, lifetime)
          PROVE  StableAnswers'
        <3>1. settled' = settled /\ disk' = disk /\ climbRoots' = climbRoots \cup {root}
            BY <2>2 DEF Climbed, worldVars
        <3>2. SUFFICES ASSUME settled, climbRoots \subseteq {root}
                       PROVE  answer'.result = Nearest(disk, dir, root)
            BY <2>2, <3>1, ClimbedAnswer DEF StableAnswers, Nearest
        <3>3. \A e \in Dirs : match[e] # Nothing => match[e].value = Nearest(disk, e, root)
            BY <1>2, <3>2 DEF CachedIsNearest
        <3>4. \A e \in Dirs : Said(e, lifetime) # Nothing => Said(e, lifetime) = Nearest(disk, e, root)
            BY <3>3, GetFound DEF Said
        <3> QED BY <1>2, <2>2, <3>4, AnswerIsNearest
    <2>3. CASE ~ Answers("nearest")'
        BY <2>3 DEF StableAnswers
    <2> QED BY <1>2, <2>1, <2>2, <2>3, AnsweringSteps, GlobbedAnswer
<1>3. TypeOK /\ CachedIsNearest /\ [Next]_vars => CachedIsNearest'
    BY CachedStep
<1> QED BY <1>1, <1>2, <1>3, TypeCorrect, PTL DEF Spec
=============================================================================
