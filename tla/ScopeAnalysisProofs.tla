------------------------- MODULE ScopeAnalysisProofs -------------------------
(***************************************************************************)
(* Theorems about ScopeAnalysis, for programs of any size, any names and   *)
(* libraries: type correctness and where references are resolved.          *)
(***************************************************************************)
EXTENDS ScopeAnalysis, LeastNumbers, SequenceTheorems

Identifiers == Names \cup {Arguments}

ReferenceRecords ==
    [name : Identifiers, from : Nat, type : BOOLEAN, value : BOOLEAN,
     maybeImplicitGlobal : BOOLEAN, early : SUBSET Nat, resolved : Nat]

----------------------------------------------------------------------------
(* The tree of scopes, said without following it: what a scope is in, and  *)
(* that the scopes it is in are in those before them.                      *)
Placed(s) ==
    /\ scopes[s].above \subseteq 1..(s - 1)
    /\ \A t \in scopes[s].above : scopes[t].above = {u \in scopes[s].above : u < t}
    /\ scopes[s].upper \in 0..(s - 1)
    /\ scopes[s].above = Chain(scopes[s].upper)
    /\ s # 1 => 1 \in scopes[s].above
    /\ scopes[s].node \in 1..s

TreeOK ==
    /\ scopes \in Seq(ScopeRecords) /\ Len(scopes) > 0
    /\ scopes[1].kind = "global"
    /\ \A s \in DOMAIN scopes : Placed(s)

LEMMA ScopesAreNumbers ==
    ASSUME TreeOK
    PROVE  /\ DOMAIN scopes = 1..Len(scopes) /\ Len(scopes) \in Nat /\ 1 \in DOMAIN scopes
           /\ \A s \in DOMAIN scopes : scopes[s] \in ScopeRecords /\ s \in Nat /\ s # 0
<1>1. DOMAIN scopes = 1..Len(scopes) /\ Len(scopes) \in Nat
    BY LenProperties DEF TreeOK
<1>2. \A s \in 1..Len(scopes) : scopes[s] \in ScopeRecords
    BY ElementOfSeq DEF TreeOK
<1> QED BY <1>1, <1>2 DEF TreeOK

LEMMA ChainOfScope ==
    ASSUME TreeOK, NEW s \in DOMAIN scopes
    PROVE  /\ Chain(s) = scopes[s].above \cup {s} /\ s \in Chain(s)
           /\ Chain(s) \subseteq 1..s /\ Chain(s) \subseteq DOMAIN scopes
           /\ 1 \in Chain(s)
           /\ Chain(scopes[s].upper) = Chain(s) \ {s}
           /\ scopes[s].upper \in 0..(s - 1)
           /\ scopes[s].upper = 0 <=> s = 1
<1>1. s \in 1..Len(scopes) /\ Len(scopes) \in Nat /\ DOMAIN scopes = 1..Len(scopes)
    BY ScopesAreNumbers
<1>2. Placed(s)
    BY DEF TreeOK
<1>3. Chain(s) = scopes[s].above \cup {s}
    BY <1>1 DEF Chain
<1>4. scopes[s].above \subseteq 1..(s - 1) /\ scopes[s].above = Chain(scopes[s].upper)
      /\ scopes[s].upper \in 0..(s - 1)
    BY <1>2 DEF Placed
<1>5. s # 1 => 1 \in scopes[s].above
    BY <1>2 DEF Placed
<1>6. s = 1 => scopes[s].upper = 0
    BY <1>1, <1>4
<1>7. scopes[s].upper = 0 => scopes[s].above = {}
    BY <1>4 DEF Chain
<1> QED BY <1>1, <1>3, <1>4, <1>5, <1>6, <1>7

LEMMA ChainIsLinear ==
    ASSUME TreeOK, NEW s \in 0..Len(scopes), NEW t \in Chain(s)
    PROVE  t \in DOMAIN scopes /\ Chain(t) = {u \in Chain(s) : u <= t}
<1>1. s \in DOMAIN scopes
    BY ScopesAreNumbers DEF Chain
<1>2. Chain(s) = scopes[s].above \cup {s} /\ Chain(s) \subseteq 1..s /\ t \in DOMAIN scopes
    BY <1>1, ChainOfScope
<1>3. Chain(t) = scopes[t].above \cup {t} /\ s \in Nat /\ t \in Nat
    BY <1>1, <1>2, ChainOfScope, ScopesAreNumbers
<1>4. CASE t = s
    <2>1. \A u \in Chain(s) : u <= s
        BY <1>2, <1>3
    <2> QED BY <1>2, <1>4, <2>1
<1>5. CASE t # s
    <2>1. t \in scopes[s].above /\ scopes[t].above = {u \in scopes[s].above : u < t}
        BY <1>1, <1>2, <1>5 DEF TreeOK, Placed
    <2>2. \A u \in scopes[s].above : u \in Nat /\ u < s
        <3>1. scopes[s].above \subseteq 1..(s - 1)
            BY <1>1 DEF TreeOK, Placed
        <3> QED BY <1>3, <3>1
    <2>3. \A u : u \in Chain(t) <=> u \in Chain(s) /\ u <= t
        BY <1>2, <1>3, <1>5, <2>1, <2>2
    <2> QED BY <1>2, <2>3
<1> QED BY <1>4, <1>5

(* Chains as sets: of two scopes of a chain one is in the other's.         *)
LEMMA ChainNests ==
    ASSUME TreeOK, NEW s \in 0..Len(scopes), NEW t \in Chain(s), NEW u \in Chain(s)
    PROVE  /\ Chain(t) \subseteq Chain(s)
           /\ u \in Chain(t) <=> u <= t
BY ChainIsLinear

LEMMA ChainsAreScopes ==
    ASSUME TreeOK, NEW s \in 0..Len(scopes)
    PROVE  Chain(s) \subseteq DOMAIN scopes
BY ChainOfScope, ScopesAreNumbers DEF Chain

LEMMA InnermostIsIn ==
    ASSUME TreeOK, NEW S \in SUBSET DOMAIN scopes, S # {}
    PROVE  Innermost(S) \in S /\ \A t \in S : t <= Innermost(S)
<1>1. S \in SUBSET Nat /\ Len(scopes) \in Nat /\ \A t \in S : t <= Len(scopes)
    BY ScopesAreNumbers
<1>2. \E m \in S : \A t \in S : t <= m
    BY <1>1, GreatestNumber
<1> QED BY <1>2 DEF Innermost

LEMMA InnermostIsOne ==
    ASSUME TreeOK, NEW S \in SUBSET DOMAIN scopes, NEW m \in S, \A t \in S : t <= m
    PROVE  Innermost(S) = m
<1>1. Innermost(S) \in S /\ m <= Innermost(S)
    BY InnermostIsIn
<1>2. m \in Nat /\ Innermost(S) \in Nat
    BY <1>1, ScopesAreNumbers
<1> QED BY <1>1, <1>2

----------------------------------------------------------------------------
(* What the other variables are.                                           *)
ListsOK ==
    /\ current \in 0..Len(scopes) /\ closing \in 0..Len(scopes)
    /\ left \in Seq(SUBSET Nat) /\ Len(left) = Len(scopes)
    /\ through \in Seq(SUBSET Nat) /\ Len(through) = Len(scopes)

ReferencesOK ==
    /\ references \in Seq(ReferenceRecords)
    /\ \A r \in DOMAIN references : references[r].from \in DOMAIN scopes
    /\ \A s \in DOMAIN scopes : left[s] \cup through[s] \subseteq DOMAIN references
    /\ implicit \subseteq Identifiers /\ referencedJsx \in BOOLEAN

DefinitionsOK ==
    /\ definitions \subseteq Definitions
    /\ \A d \in definitions : d.scope \in DOMAIN scopes /\ scopes[d.scope].kind # "with"

Base == TreeOK /\ ListsOK /\ ReferencesOK /\ DefinitionsOK

LEMMA BaseIsTyped == Base => TypeOK
<1> SUFFICES ASSUME Base PROVE TypeOK
    OBVIOUS
<1>1. \A s \in DOMAIN scopes : scopes[s].upper \in 0..(s - 1) /\ scopes[s].above = Chain(scopes[s].upper)
    BY DEF Base, TreeOK, Placed
<1>2. DOMAIN left = DOMAIN scopes /\ DOMAIN through = DOMAIN scopes
    BY LenProperties DEF Base, TreeOK, ListsOK
<1>3. scopes \in Seq(ScopeRecords) /\ Len(scopes) > 0
      /\ current \in 0..Len(scopes) /\ closing \in 0..Len(scopes)
    BY DEF Base, TreeOK, ListsOK
<1>4. definitions \subseteq Definitions /\ \A d \in definitions : d.scope \in DOMAIN scopes
    BY DEF Base, DefinitionsOK
<1>5. (\A s \in DOMAIN scopes : left[s] \cup through[s] \subseteq DOMAIN references)
      /\ implicit \subseteq Names \cup {Arguments} /\ referencedJsx \in BOOLEAN
    BY DEF Base, ReferencesOK, Identifiers
<1> QED BY <1>1, <1>2, <1>3, <1>4, <1>5, Zenon DEF TypeOK

LEMMA ListDomains ==
    ASSUME Base
    PROVE  /\ DOMAIN left = DOMAIN scopes /\ DOMAIN through = DOMAIN scopes
           /\ Chain(current) \subseteq DOMAIN scopes
           /\ current # 0 => current \in DOMAIN scopes /\ current \in Chain(current)
                             /\ 1 \in Chain(current)
           /\ DOMAIN references = 1..Len(references) /\ Len(references) \in Nat
           /\ \A r \in DOMAIN references : references[r] \in ReferenceRecords
<1>1. DOMAIN left = 1..Len(left) /\ DOMAIN through = 1..Len(through)
    BY LenProperties DEF Base, ListsOK
<1>2. DOMAIN references = 1..Len(references) /\ Len(references) \in Nat
    BY LenProperties DEF Base, ReferencesOK
<1>3. \A r \in DOMAIN references : references[r] \in ReferenceRecords
    BY <1>2, ElementOfSeq DEF Base, ReferencesOK
<1>4. DOMAIN scopes = 1..Len(scopes) /\ current \in 0..Len(scopes) /\ TreeOK
      /\ Len(scopes) \in Nat
    BY ScopesAreNumbers DEF Base, ListsOK
<1>5. Chain(current) \subseteq DOMAIN scopes
    BY <1>4, ChainsAreScopes
<1>6. current # 0 => current \in DOMAIN scopes
    BY <1>4
<1>7. current # 0 => current \in Chain(current) /\ 1 \in Chain(current)
    BY <1>4, <1>6, ChainOfScope
<1>8. DOMAIN left = DOMAIN scopes /\ DOMAIN through = DOMAIN scopes
    BY <1>1, <1>4 DEF Base, ListsOK
<1> QED BY <1>2, <1>3, <1>5, <1>6, <1>7, <1>8

(* Scopes one in the other, the first in the current one.                  *)
Chained(added) ==
    /\ added \in Seq(ScopeRecords) /\ Len(added) > 0
    /\ \A k \in 1..Len(added) :
          /\ added[k].above = Chain(current) \cup (NextId..(Len(scopes) + k - 1))
          /\ added[k].upper = IF k = 1 THEN current ELSE Len(scopes) + k - 1
          /\ added[k].node \in 1..(Len(scopes) + k)

(* A chain after a step.                                                   *)
ChainNext(s) == IF s = 0 THEN {} ELSE scopes'[s].above \cup {s}

(* Opening scopes leaves those there are where they are.                   *)
ScopesGrow ==
    /\ DOMAIN scopes \subseteq DOMAIN scopes'
    /\ \A s \in DOMAIN scopes :
          /\ scopes'[s].above = scopes[s].above /\ scopes'[s].kind = scopes[s].kind
          /\ s \in Chain(current) \/ scopes'[s] = scopes[s]
          /\ left'[s] = left[s] /\ through'[s] = through[s]
    /\ \A s \in DOMAIN scopes' \ DOMAIN scopes : left'[s] = {} /\ through'[s] = {}
    /\ current # 0 /\ current' # 0
    /\ ChainNext(current') = Chain(current) \cup (DOMAIN scopes' \ DOMAIN scopes)
    /\ UNCHANGED <<references, implicit>>

LEMMA PlacedNext ==
    ASSUME NEW s,
           scopes'[s].above \subseteq 1..(s - 1),
           \A t \in scopes'[s].above : scopes'[t].above = {u \in scopes'[s].above : u < t},
           scopes'[s].upper \in 0..(s - 1),
           ChainNext(scopes'[s].upper) = scopes'[s].above,
           s # 1 => 1 \in scopes'[s].above,
           scopes'[s].node \in 1..s
    PROVE  Placed(s)'
BY DEF Placed, Chain, ChainNext

LEMMA EmptyLists ==
    ASSUME NEW n \in Nat, NEW list \in Seq(SUBSET Nat)
    PROVE  /\ list \o [k \in 1..n |-> {}] \in Seq(SUBSET Nat)
           /\ Len(list \o [k \in 1..n |-> {}]) = Len(list) + n
           /\ \A s \in 1..Len(list) : (list \o [k \in 1..n |-> {}])[s] = list[s]
           /\ \A s \in 1..(Len(list) + n) : s > Len(list) => (list \o [k \in 1..n |-> {}])[s] = {}
<1> DEFINE more == [k \in 1..n |-> {}]
<1>1. more \in Seq(SUBSET Nat)
    <2>1. more \in [1..n -> SUBSET Nat]
        OBVIOUS
    <2> QED BY <2>1, SeqDef
<1>2. Len(more) = n /\ Len(list) \in Nat
    <2>1. DOMAIN more = 1..n
        OBVIOUS
    <2>2. DOMAIN more = 1..Len(more) /\ Len(more) \in Nat
        BY <1>1, LenProperties
    <2> QED BY <2>1, <2>2, LenProperties
<1>3. \A k \in 1..n : more[k] = {}
    OBVIOUS
<1> HIDE DEF more
<1>4. /\ list \o more \in Seq(SUBSET Nat) /\ Len(list \o more) = Len(list) + n
      /\ \A s \in 1..(Len(list) + n) : (list \o more)[s] =
              IF s <= Len(list) THEN list[s] ELSE more[s - Len(list)]
    BY <1>1, <1>2, ConcatProperties
<1>5. \A s \in 1..Len(list) : (list \o more)[s] = list[s]
    BY <1>2, <1>4
<1>6. \A s \in 1..(Len(list) + n) : s > Len(list) => (list \o more)[s] = {}
    BY <1>2, <1>3, <1>4
<1> QED BY <1>4, <1>5, <1>6 DEF more

LEMMA NestGrows ==
    ASSUME Base, Walking, NEW added, Chained(added), Nest(added)
    PROVE  /\ TreeOK' /\ ListsOK' /\ ScopesGrow /\ UNCHANGED referencedJsx
           /\ DOMAIN scopes' = 1..(Len(scopes) + Len(added))
           /\ \A k \in 1..Len(added) : scopes'[Len(scopes) + k] = added[k]
<1> DEFINE n == Len(scopes)
           m == Len(added)
<1>1. n \in Nat /\ m \in Nat /\ m > 0 /\ n > 0 /\ DOMAIN scopes = 1..n
      /\ current \in 1..n /\ scopes \in Seq(ScopeRecords) /\ added \in Seq(ScopeRecords)
    BY ScopesAreNumbers, ListDomains, LenProperties DEF Base, TreeOK, Chained, Walking
<1>2. /\ scopes' = scopes \o added /\ current' = n + m
      /\ left' = left \o [k \in 1..m |-> {}] /\ through' = through \o [k \in 1..m |-> {}]
      /\ UNCHANGED <<closing, references, implicit, referencedJsx>>
    BY DEF Nest
<1>3. /\ scopes' \in Seq(ScopeRecords) /\ Len(scopes') = n + m
      /\ \A s \in 1..(n + m) : scopes'[s] = IF s <= n THEN scopes[s] ELSE added[s - n]
    BY <1>1, <1>2, ConcatProperties
<1>4. DOMAIN scopes' = 1..(n + m)
    BY <1>3, LenProperties
<1>5. \A s \in 1..n : scopes'[s] = scopes[s]
    BY <1>1, <1>3
<1>6. \A k \in 1..m : scopes'[n + k] = added[k]
    BY <1>1, <1>3
<1>7. ListsOK'
    <2>1. left' \in Seq(SUBSET Nat) /\ Len(left') = n + m
          /\ through' \in Seq(SUBSET Nat) /\ Len(through') = n + m
        BY <1>1, <1>2, EmptyLists DEF Base, ListsOK
    <2>2. closing' \in 0..(n + m)
        BY <1>1, <1>2 DEF Base, ListsOK
    <2> QED BY <1>1, <1>2, <1>3, <2>1, <2>2 DEF ListsOK
<1>8. ASSUME NEW s \in 0..n
      PROVE  ChainNext(s) = Chain(s)
    <2>1. s = 0 \/ s \in 1..n
        BY <1>1
    <2>2. s \in 1..n => scopes'[s] = scopes[s]
        BY <1>5
    <2> HIDE DEF n
    <2> QED BY <2>1, <2>2 DEF Chain, ChainNext
<1>9. Chain(current) \subseteq 1..n /\ 1 \in Chain(current)
    BY <1>1, ListDomains DEF Base
<1> HIDE DEF n, m
<1>10. \A s \in 1..n : Placed(s)'
    <2> TAKE s \in 1..n
    <2>1. Placed(s) /\ s \in 1..n
        BY <1>1 DEF Base, TreeOK
    <2>2. scopes[s].above \subseteq 1..n /\ scopes[s].upper \in 0..n
        BY <1>1, <2>1 DEF Placed
    <2>3. ChainNext(scopes[s].upper) = Chain(scopes[s].upper)
        BY <1>8, <2>2
    <2>4. scopes'[s] = scopes[s] /\ \A t \in scopes[s].above : scopes'[t] = scopes[t]
        BY <1>5, <2>2
    <2>5. ChainNext(scopes'[s].upper) = scopes'[s].above
        BY <2>1, <2>3, <2>4 DEF Placed
    <2> QED BY <2>1, <2>4, <2>5, PlacedNext DEF Placed
<1>11. ASSUME NEW k \in 1..m, NEW s, s = n + k
       PROVE  Placed(s)'
    <2>1. /\ scopes'[s] = added[k]
          /\ added[k].above = Chain(current) \cup ((n + 1)..(n + k - 1))
          /\ added[k].upper = IF k = 1 THEN current ELSE n + k - 1
          /\ added[k].node \in 1..(n + k)
        BY <1>6, <1>11 DEF Chained, NextId, m, n
    <2>2. \A t \in Chain(current) : scopes'[t].above = {u \in added[k].above : u < t}
        <3> TAKE t \in Chain(current)
        <3>1. t \in 1..n /\ scopes'[t] = scopes[t]
            BY <1>5, <1>9
        <3>2. Chain(t) = {u \in Chain(current) : u <= t} /\ t \in DOMAIN scopes
            BY <1>1, ChainIsLinear DEF Base, n
        <3>3. Chain(t) = scopes[t].above \cup {t} /\ scopes[t].above \subseteq 1..(t - 1)
            BY <3>2, ChainOfScope DEF Base, TreeOK, Placed
        <3>4. \A u : u \in scopes[t].above <=> u \in Chain(current) /\ u < t
            BY <1>1, <1>9, <3>1, <3>2, <3>3
        <3>5. \A u \in (n + 1)..(n + k - 1) : ~ (u < t)
            BY <1>1, <3>1
        <3> QED BY <2>1, <3>1, <3>4, <3>5
    <2>3. \A t \in (n + 1)..(n + k - 1) : scopes'[t].above = {u \in added[k].above : u < t}
        <3> TAKE t \in (n + 1)..(n + k - 1)
        <3>1. t - n \in 1..m /\ t = n + (t - n) /\ t \in Int
            BY <1>1
        <3>2. scopes'[t] = added[t - n]
            BY <1>6, <3>1
        <3>3. added[t - n].above = Chain(current) \cup ((n + 1)..(t - 1))
            BY <1>1, <3>1 DEF Chained, NextId, m, n
        <3>4. \A u : u \in Chain(current) => u < t /\ u \in added[k].above
            BY <1>1, <1>9, <2>1
        <3>5. \A u : u \in (n + 1)..(t - 1) <=> u \in (n + 1)..(n + k - 1) /\ u < t
            BY <1>1, <3>1
        <3> QED BY <2>1, <3>2, <3>3, <3>4, <3>5
    <2>4. added[k].above \subseteq 1..(n + k - 1) /\ added[k].upper \in 0..(n + k - 1)
        BY <1>1, <1>9, <2>1
    <2>5. added[k].above = ChainNext(added[k].upper)
        <3>1. CASE k = 1
            BY <1>1, <1>8, <2>1, <3>1
        <3>2. CASE k # 1
            <4>1. k - 1 \in 1..m /\ n + k - 1 = n + (k - 1) /\ n + k - 1 # 0
                BY <1>1, <3>2
            <4>2. scopes'[n + k - 1] = added[k - 1]
                BY <1>6, <4>1
            <4>3. added[k - 1].above = Chain(current) \cup ((n + 1)..(n + k - 2))
                BY <1>1, <4>1 DEF Chained, NextId, m, n
            <4>4. ChainNext(added[k].upper) = added[k - 1].above \cup {n + k - 1}
                BY <2>1, <3>2, <4>1, <4>2 DEF ChainNext
            <4>5. (n + 1)..(n + k - 1) = ((n + 1)..(n + k - 2)) \cup {n + k - 1}
                BY <1>1, <3>2
            <4> QED BY <2>1, <4>3, <4>4, <4>5
        <3> QED BY <3>1, <3>2
    <2>6. 1 \in added[k].above
        BY <1>9, <2>1
    <2>7. \A t \in scopes'[s].above : scopes'[t].above = {u \in scopes'[s].above : u < t}
        BY <2>1, <2>2, <2>3
    <2>8. scopes'[s].above \subseteq 1..(s - 1) /\ scopes'[s].upper \in 0..(s - 1)
        <3>1. s - 1 = n + k - 1
            BY <1>1, <1>11
        <3> QED BY <2>1, <2>4, <3>1
    <2>9. ChainNext(scopes'[s].upper) = scopes'[s].above
        BY <2>1, <2>5
    <2> QED BY <1>11, <2>1, <2>6, <2>7, <2>8, <2>9, PlacedNext
<1>12. TreeOK'
    <2>1. \A s \in 1..(n + m) : s \in 1..n \/ (s - n \in 1..m /\ s = n + (s - n))
        BY <1>1
    <2>2. ASSUME NEW s \in DOMAIN scopes'
          PROVE  Placed(s)'
        <3>1. CASE s \in 1..n
            BY <1>10, <3>1
        <3>2. CASE s - n \in 1..m /\ s = n + (s - n)
            BY <1>11, <3>2
        <3> QED BY <1>4, <2>1, <3>1, <3>2
    <2>3. scopes'[1].kind = "global" /\ Len(scopes') > 0
        BY <1>1, <1>3, <1>5 DEF Base, TreeOK
    <2> QED BY <1>3, <2>2, <2>3 DEF TreeOK
<1>13. ChainNext(current') = Chain(current) \cup (DOMAIN scopes' \ DOMAIN scopes)
    <2>1. scopes'[n + m] = added[m] /\ n + m # 0
        BY <1>1, <1>6
    <2>2. added[m].above = Chain(current) \cup ((n + 1)..(n + m - 1))
        BY <1>1 DEF Chained, NextId, m, n
    <2>3. ChainNext(current') = added[m].above \cup {n + m}
        BY <1>2, <2>1 DEF ChainNext, n, m
    <2>4. DOMAIN scopes' \ DOMAIN scopes = ((n + 1)..(n + m - 1)) \cup {n + m}
        BY <1>1, <1>4
    <2> QED BY <2>2, <2>3, <2>4
<1>14. /\ \A s \in DOMAIN scopes : left'[s] = left[s] /\ through'[s] = through[s]
       /\ \A s \in DOMAIN scopes' \ DOMAIN scopes : left'[s] = {} /\ through'[s] = {}
    <2>1. left \in Seq(SUBSET Nat) /\ Len(left) = n /\ through \in Seq(SUBSET Nat) /\ Len(through) = n
        BY DEF Base, ListsOK, n
    <2>2. \A s \in DOMAIN scopes' \ DOMAIN scopes : s \in 1..(n + m) /\ s > n
        BY <1>1, <1>4
    <2> QED BY <1>1, <1>2, <2>1, <2>2, EmptyLists DEF m
<1>15. ScopesGrow
    <2>1. DOMAIN scopes \subseteq DOMAIN scopes' /\ current # 0 /\ current' # 0
        BY <1>1, <1>2, <1>4 DEF n, m
    <2> QED BY <1>1, <1>2, <1>5, <1>13, <1>14, <2>1 DEF ScopesGrow
<1> QED BY <1>2, <1>4, <1>6, <1>7, <1>12, <1>15 DEF n, m

----------------------------------------------------------------------------
(* The steps that open scopes, come to a body or define names: what exists *)
(* stays as it is, and what is new is in the scope the walk is in then.    *)
Grows ==
    /\ TreeOK' /\ ListsOK' /\ ScopesGrow /\ UNCHANGED referencedJsx
    /\ definitions \subseteq definitions' /\ definitions' \subseteq Definitions
    /\ \A d \in definitions' \ definitions :
          d.scope \in ChainNext(current') /\ scopes'[d.scope].kind # "with"

LEMMA CurrentFacts ==
    ASSUME Base, current # 0
    PROVE  /\ current \in 1..Len(scopes) /\ Len(scopes) \in Nat /\ current \in DOMAIN scopes
           /\ Chain(current) \subseteq 1..Len(scopes) /\ NextId = Len(scopes) + 1
           /\ scopes[current] \in ScopeRecords
           /\ scopes[current].node \in 1..Len(scopes)
           /\ scopes[current].strict \in BOOLEAN
<1>1. DOMAIN scopes = 1..Len(scopes) /\ Len(scopes) \in Nat
      /\ Chain(current) \subseteq DOMAIN scopes /\ current \in DOMAIN scopes
      /\ scopes[current] \in ScopeRecords
    BY ScopesAreNumbers, ListDomains DEF Base
<1>2. scopes[current].node \in 1..current
    BY <1>1 DEF Base, TreeOK, Placed
<1> QED BY <1>1, <1>2 DEF ScopeRecords, NextId

LEMMA ScopeIsRecord ==
    ASSUME NEW kind \in AllKinds, NEW upper \in Nat, NEW above \in SUBSET Nat,
           NEW node \in Nat, NEW strict \in BOOLEAN
    PROVE  /\ Scope(kind, upper, above, node, strict) \in ScopeRecords
           /\ Scope(kind, upper, above, node, strict).kind = kind
           /\ Scope(kind, upper, above, node, strict).upper = upper
           /\ Scope(kind, upper, above, node, strict).above = above
           /\ Scope(kind, upper, above, node, strict).node = node
BY DEF Scope, ScopeRecords

LEMMA NestedIsChained ==
    ASSUME Base, current # 0, NEW kind \in AllKinds, NEW node \in 1..NextId, NEW strict \in BOOLEAN
    PROVE  /\ Chained(<<Nested(kind, node, strict)>>)
           /\ Len(<<Nested(kind, node, strict)>>) = 1
           /\ <<Nested(kind, node, strict)>>[1].kind = kind
<1> DEFINE rec == Nested(kind, node, strict)
<1>1. /\ rec \in ScopeRecords /\ rec.kind = kind /\ rec.upper = current
      /\ rec.above = Chain(current) /\ rec.node = node
    BY CurrentFacts, ScopeIsRecord DEF Nested
<1>2. NextId = Len(scopes) + 1 /\ Len(scopes) \in Nat
    BY CurrentFacts
<1> HIDE DEF rec
<1>3. <<rec>> \in Seq(ScopeRecords) /\ Len(<<rec>>) = 1 /\ <<rec>>[1] = rec
    BY <1>1
<1>4. NextId..(Len(scopes) + 1 - 1) = {}
    BY <1>2
<1>5. ASSUME NEW k \in 1..Len(<<rec>>)
      PROVE  /\ <<rec>>[k].above = Chain(current) \cup (NextId..(Len(scopes) + k - 1))
             /\ <<rec>>[k].upper = IF k = 1 THEN current ELSE Len(scopes) + k - 1
             /\ <<rec>>[k].node \in 1..(Len(scopes) + k)
    <2>1. k = 1
        BY <1>3
    <2> QED BY <1>1, <1>2, <1>3, <1>4, <2>1
<1>6. Chained(<<rec>>)
    BY <1>3, <1>5 DEF Chained
<1> QED BY <1>1, <1>3, <1>6 DEF rec

(* After a new scope, definitions in it or in those around it.             *)
LEMMA NestDefines ==
    ASSUME Base, Walking, NEW added, Chained(added), Nest(added),
           \A k \in 1..Len(added) : added[k].kind # "with",
           NEW new \in SUBSET Definitions, definitions' = definitions \cup new,
           \A d \in new : \/ \E k \in 1..Len(added) : d.scope = Len(scopes) + k
                          \/ d.scope = current /\ scopes[current].kind # "with"
    PROVE  Grows
<1>1. /\ TreeOK' /\ ListsOK' /\ ScopesGrow /\ UNCHANGED referencedJsx
      /\ DOMAIN scopes' = 1..(Len(scopes) + Len(added))
      /\ \A k \in 1..Len(added) : scopes'[Len(scopes) + k] = added[k]
    BY NestGrows
<1>2. DOMAIN scopes = 1..Len(scopes) /\ Len(scopes) \in Nat /\ Len(added) \in Nat
    BY ScopesAreNumbers, LenProperties DEF Base, Chained
<1>3. current \in Chain(current) /\ current \in DOMAIN scopes
    BY ListDomains DEF Walking
<1>4. ASSUME NEW d \in definitions' \ definitions
      PROVE  d.scope \in ChainNext(current') /\ scopes'[d.scope].kind # "with"
    <2>1. d \in new
        BY <1>4
    <2>2. ASSUME NEW k \in 1..Len(added), d.scope = Len(scopes) + k
          PROVE  d.scope \in ChainNext(current') /\ scopes'[d.scope].kind # "with"
        <3>1. Len(scopes) + k \in DOMAIN scopes' \ DOMAIN scopes
            BY <1>1, <1>2
        <3> QED BY <1>1, <2>2, <3>1 DEF ScopesGrow
    <2>3. CASE d.scope = current /\ scopes[current].kind # "with"
        BY <1>1, <1>3, <2>3 DEF ScopesGrow
    <2> QED BY <2>1, <2>2, <2>3
<1>5. definitions \subseteq definitions' /\ definitions' \subseteq Definitions
    BY DEF Base, DefinitionsOK
<1> QED BY <1>1, <1>4, <1>5 DEF Grows

LEMMA OwnArgumentsDefined ==
    ASSUME NEW s \in Nat
    PROVE  OwnArguments(s) \in Definitions /\ OwnArguments(s).scope = s
BY DEF OwnArguments, Definitions

LEMMA DefinitionDefined ==
    ASSUME TreeOK, NEW s \in DOMAIN scopes, NEW n \in Names, NEW def \in {"type", "value", "both"}
    PROVE  Definition(s, n, def) \in Definitions /\ Definition(s, n, def).scope = s
<1>1. s \in Nat /\ scopes[s].inBody \in BOOLEAN
    BY ScopesAreNumbers DEF ScopeRecords
<1> QED BY <1>1 DEF Definition, Definitions

LEMMA NodesAreNumbers ==
    ASSUME Base, current # 0, NEW kind
    PROVE  NodesFor(kind) \subseteq 1..NextId
<1>1. /\ NextId = Len(scopes) + 1 /\ Len(scopes) \in Nat
      /\ scopes[current].node \in 1..Len(scopes)
    BY CurrentFacts
<1>2. {NextId} \subseteq 1..NextId /\ {scopes[current].node} \subseteq 1..NextId
    BY <1>1
<1> QED BY <1>2 DEF NodesFor

LEMMA StrictIsBoolean == \A kind, directive : StrictIn(kind, directive) \in BOOLEAN
BY DEF StrictIn

LEMMA NestScopeGrows ==
    ASSUME Base, NEW kind \in NestedKinds, NestScope(kind)
    PROVE  Grows
<1>1. current # 0 /\ Nest(<<Nested(kind, NextId, StrictIn(kind, FALSE))>>)
      /\ definitions' = definitions
    BY DEF NestScope, Walking
<1>2. kind \in AllKinds /\ NextId \in 1..NextId
    BY <1>1, CurrentFacts DEF AllKinds
<1>3. Chained(<<Nested(kind, NextId, StrictIn(kind, FALSE))>>)
    BY <1>1, <1>2, NestedIsChained, StrictIsBoolean
<1>4. TreeOK' /\ ListsOK' /\ ScopesGrow /\ UNCHANGED referencedJsx
    BY <1>1, <1>3, NestGrows DEF NestScope
<1> QED BY <1>1, <1>4 DEF Grows, Base, DefinitionsOK

LEMMA NestFunctionGrows ==
    ASSUME Base, NEW kind, NestFunctionScope(kind)
    PROVE  Grows
<1>1. Walking /\ current # 0 /\ kind \in FunctionKinds
    BY DEF NestFunctionScope, Walking
<1>2. PICK directive \in Directives, node \in NodesFor(kind) :
          Nest(<<Nested(kind, node, StrictIn(kind, directive))>>)
    BY DEF NestFunctionScope
<1> DEFINE added == <<Nested(kind, node, StrictIn(kind, directive))>>
           new   == IF kind = "function" THEN {OwnArguments(NextId)} ELSE {}
<1>3. kind \in AllKinds /\ kind # "with"
    BY <1>1 DEF AllKinds, NestedKinds, FunctionKinds
<1>4. Chained(added) /\ Len(added) = 1 /\ added[1].kind = kind
    BY <1>1, <1>3, NodesAreNumbers, NestedIsChained, StrictIsBoolean
<1>5. NextId = Len(scopes) + 1 /\ NextId \in Nat
    BY <1>1, CurrentFacts
<1>6. new \in SUBSET Definitions /\ \A d \in new : d.scope = Len(scopes) + 1
    BY <1>5, OwnArgumentsDefined
<1>7. definitions' = definitions \cup new
    BY DEF NestFunctionScope
<1>8. Nest(added)
    BY <1>2
<1> HIDE DEF added, new
<1>9. \A k \in 1..Len(added) : added[k].kind # "with"
    BY <1>3, <1>4
<1>10. \A d \in new : \E k \in 1..Len(added) : d.scope = Len(scopes) + k
    BY <1>4, <1>6
<1> QED BY <1>1, <1>4, <1>6, <1>7, <1>8, <1>9, <1>10, NestDefines

LEMMA NestClassGrows ==
    ASSUME Base, NEW n \in Names, NestClassScope(n)
    PROVE  Grows
<1> DEFINE own      == {[scope |-> NextId, name |-> n, def |-> "both", inBody |-> TRUE]}
           declared == own \cup {Definition(current, n, "both")}
<1>1. Walking /\ current # 0
    BY DEF NestClassScope, Walking
<1>2. PICK node \in NodesFor("class") : Nest(<<Nested("class", node, TRUE)>>)
    BY DEF NestClassScope
<1>3. PICK names \in {{}, own} \cup (IF AtStatements THEN {declared} ELSE {}) :
          definitions' = definitions \cup names
    BY DEF NestClassScope
<1>4. NextId = Len(scopes) + 1 /\ NextId \in Nat /\ current \in DOMAIN scopes
    BY <1>1, CurrentFacts
<1>5. own \subseteq Definitions /\ \A d \in own : d.scope = Len(scopes) + 1
    BY <1>4 DEF Definitions
<1>6. Definition(current, n, "both") \in Definitions /\ Definition(current, n, "both").scope = current
    BY <1>4, DefinitionDefined DEF Base
<1>7. AtStatements => scopes[current].kind # "with"
    BY DEF AtStatements, FunctionKinds
<1>8. /\ names \in SUBSET Definitions
      /\ \A d \in names : \/ d.scope = Len(scopes) + 1
                          \/ d.scope = current /\ scopes[current].kind # "with"
    <2> HIDE DEF own
    <2> QED BY <1>3, <1>5, <1>6, <1>7
<1> DEFINE added == <<Nested("class", node, TRUE)>>
<1>9. Chained(added) /\ Len(added) = 1 /\ added[1].kind = "class"
    BY <1>1, NodesAreNumbers, NestedIsChained DEF AllKinds, NestedKinds
<1>10. Nest(added)
    BY <1>2
<1> HIDE DEF added, own, declared
<1>11. \A k \in 1..Len(added) : added[k].kind # "with"
    BY <1>9
<1>12. \A d \in names : \/ \E k \in 1..Len(added) : d.scope = Len(scopes) + k
                        \/ d.scope = current /\ scopes[current].kind # "with"
    BY <1>8, <1>9
<1> QED BY <1>1, <1>3, <1>8, <1>9, <1>10, <1>11, <1>12, NestDefines

LEMMA NestNamedGrows ==
    ASSUME Base, NEW n \in Names, NestNamedFunctionScope(n)
    PROVE  Grows
<1>1. Walking /\ current # 0
    BY DEF NestNamedFunctionScope, Walking
<1>2. PICK directive \in Directives, node \in NodesFor("function") :
          Nest(<<Nested("functionName", node, scopes[current].strict),
                 Scope("function", NextId, Chain(current) \cup {NextId}, node,
                       StrictIn("function", directive))>>)
    BY DEF NestNamedFunctionScope
<1> DEFINE naming == Nested("functionName", node, scopes[current].strict)
           inner  == Scope("function", NextId, Chain(current) \cup {NextId}, node,
                           StrictIn("function", directive))
           added  == <<naming, inner>>
           new    == {[scope |-> NextId, name |-> n, def |-> "value", inBody |-> TRUE],
                      OwnArguments(NextId + 1)}
<1>3. /\ NextId = Len(scopes) + 1 /\ Len(scopes) \in Nat /\ current \in 1..Len(scopes)
      /\ Chain(current) \subseteq Nat /\ scopes[current].strict \in BOOLEAN /\ node \in 1..NextId
    BY <1>1, CurrentFacts, NodesAreNumbers
<1>4. "functionName" \in AllKinds /\ "function" \in AllKinds
    BY DEF AllKinds, NestedKinds, FunctionKinds
<1>5. /\ naming \in ScopeRecords /\ naming.kind = "functionName" /\ naming.upper = current
      /\ naming.above = Chain(current) /\ naming.node = node
    BY <1>3, <1>4, ScopeIsRecord DEF Nested
<1>6. /\ inner \in ScopeRecords /\ inner.kind = "function" /\ inner.upper = NextId
      /\ inner.above = Chain(current) \cup {NextId} /\ inner.node = node
    BY <1>3, <1>4, ScopeIsRecord, StrictIsBoolean
<1>7. new \in SUBSET Definitions
      /\ \A d \in new : d.scope = Len(scopes) + 1 \/ d.scope = Len(scopes) + 2
    BY <1>3, OwnArgumentsDefined DEF Definitions
<1>8. Nest(added) /\ definitions' = definitions \cup new
    BY <1>2 DEF NestNamedFunctionScope
<1> HIDE DEF naming, inner, new
<1>9. added \in Seq(ScopeRecords) /\ Len(added) = 2 /\ added[1] = naming /\ added[2] = inner
    BY <1>5, <1>6
<1> HIDE DEF added
<1>10. ASSUME NEW k \in 1..Len(added)
       PROVE  /\ added[k].above = Chain(current) \cup (NextId..(Len(scopes) + k - 1))
              /\ added[k].upper = IF k = 1 THEN current ELSE Len(scopes) + k - 1
              /\ added[k].node \in 1..(Len(scopes) + k)
              /\ added[k].kind # "with"
    <2>1. CASE k = 1
        <3>1. NextId..(Len(scopes) + 1 - 1) = {} /\ node \in 1..(Len(scopes) + 1)
            BY <1>3
        <3> QED BY <1>5, <1>9, <2>1, <3>1
    <2>2. CASE k = 2
        <3>1. NextId..(Len(scopes) + 2 - 1) = {NextId} /\ node \in 1..(Len(scopes) + 2)
              /\ Len(scopes) + 2 - 1 = NextId
            BY <1>3
        <3> QED BY <1>6, <1>9, <2>2, <3>1
    <2> QED BY <1>9, <2>1, <2>2
<1>11. Chained(added)
    BY <1>9, <1>10 DEF Chained
<1>12. \A d \in new : \E k \in 1..Len(added) : d.scope = Len(scopes) + k
    <2>1. 1 \in 1..Len(added) /\ 2 \in 1..Len(added)
        BY <1>9
    <2> QED BY <1>7, <2>1
<1>13. \A k \in 1..Len(added) : added[k].kind # "with"
    BY <1>10
<1> QED BY <1>1, <1>7, <1>8, <1>11, <1>12, <1>13, NestDefines

LEMMA SameScopes ==
    ASSUME Base, current # 0, UNCHANGED <<scopes, current, closing, references, left, through, implicit>>
    PROVE  TreeOK' /\ ListsOK' /\ ScopesGrow
<1>1. TreeOK' /\ ListsOK'
    BY DEF Base, TreeOK, ListsOK, Placed, Chain
<1>2. ChainNext(current') = Chain(current)
    BY DEF ChainNext, Chain
<1> QED BY <1>1, <1>2 DEF ScopesGrow

LEMMA DefineGrows ==
    ASSUME Base, current # 0, NEW s \in Chain(current), scopes[s].kind # "with",
           NEW n \in Names, NEW def \in {"type", "value", "both"}, Define(s, n, def)
    PROVE  Grows
<1>1. /\ definitions' = definitions \cup {Definition(s, n, def)}
      /\ UNCHANGED <<scopes, current, closing, references, left, through, implicit, referencedJsx>>
    BY DEF Define
<1>2. TreeOK' /\ ListsOK' /\ ScopesGrow
    BY <1>1, SameScopes
<1>3. Definition(s, n, def) \in Definitions /\ Definition(s, n, def).scope = s
    BY ListDomains, DefinitionDefined DEF Base
<1>4. s \in ChainNext(current') /\ scopes'[s].kind # "with"
    BY <1>1 DEF ChainNext, Chain
<1> QED BY <1>1, <1>2, <1>3, <1>4 DEF Grows, Base, DefinitionsOK

LEMMA DefineIdentifierGrows ==
    ASSUME Base, NEW n \in Names, DefineIdentifier(n)
    PROVE  Grows
<1>1. PICK def \in Definable : Define(current, n, def)
    BY DEF DefineIdentifier
<1>2. current # 0 /\ current \in Chain(current)
    BY ListDomains DEF DefineIdentifier, Walking
<1>3. def \in {"type", "value", "both"}
    BY <1>1 DEF Definable
<1>4. scopes[current].kind # "with"
    BY <1>1 DEF Definable, AtStatements, FunctionKinds
<1> QED BY <1>1, <1>2, <1>3, <1>4, DefineGrows

LEMMA DefineVarGrows ==
    ASSUME Base, NEW n \in Names, DefineVar(n)
    PROVE  Grows
<1> DEFINE S == {u \in Chain(current) : scopes[u].kind \in VariableKinds}
<1>1. current # 0 /\ 1 \in Chain(current) /\ Chain(current) \subseteq DOMAIN scopes
    BY ListDomains DEF DefineVar, Walking
<1>2. scopes[1].kind = "global"
    BY DEF Base, TreeOK
<1>3. S \in SUBSET DOMAIN scopes /\ S # {}
    BY <1>1, <1>2 DEF VariableKinds
<1>4. Innermost(S) \in S
    BY <1>3, InnermostIsIn DEF Base
<1>5. VariableScope(current) \in Chain(current) /\ scopes[VariableScope(current)].kind \in VariableKinds
    BY <1>4 DEF VariableScope
<1>6. scopes[VariableScope(current)].kind # "with"
    BY <1>5 DEF VariableKinds
<1>7. Define(VariableScope(current), n, "value")
    BY DEF DefineVar
<1> QED BY <1>1, <1>5, <1>6, <1>7, DefineGrows

LEMMA DefineInferredGrows ==
    ASSUME Base, NEW n \in Names, DefineInferred(n)
    PROVE  Grows
<1> DEFINE out == {s \in Chain(current) : scopes[s].kind \notin {"functionType", "mappedType"}}
<1>1. current # 0 /\ current \in Chain(current) /\ AmongTypes /\ Define(InferScope, n, "type")
    BY ListDomains DEF DefineInferred, Walking
<1>2. PICK s \in Chain(current) : scopes[s].kind = "conditionalType"
    BY DEF DefineInferred
<1>3. out \in SUBSET DOMAIN scopes /\ out # {}
    BY <1>2, ListDomains
<1>4. Innermost(out) \in Chain(current)
    BY <1>3, InnermostIsIn DEF Base
<1>5. \/ InferScope = current
      \/ InferScope = Innermost(out) /\ scopes[Innermost(out)].kind = "conditionalType"
    BY DEF InferScope
<1>6. scopes[current].kind # "with"
    BY <1>1 DEF AmongTypes, TypeKinds
<1>7. InferScope \in Chain(current) /\ scopes[InferScope].kind # "with"
    <2> HIDE DEF out
    <2> QED BY <1>1, <1>4, <1>5, <1>6
<1> QED BY <1>1, <1>7, DefineGrows

LEMMA VisitBodyGrows ==
    ASSUME Base, VisitBody
    PROVE  Grows
<1>1. /\ scopes' = [scopes EXCEPT ![current].inBody = TRUE] /\ current # 0
      /\ UNCHANGED <<current, closing, definitions, references, left, through, implicit, referencedJsx>>
    BY DEF VisitBody, Walking
<1>2. /\ scopes \in Seq(ScopeRecords) /\ current \in DOMAIN scopes /\ scopes[current] \in ScopeRecords
      /\ current \in 1..Len(scopes) /\ current \in Chain(current)
    BY <1>1, CurrentFacts, ListDomains DEF Base, TreeOK
<1>3. [scopes[current] EXCEPT !.inBody = TRUE] \in ScopeRecords
    BY <1>2 DEF ScopeRecords
<1>4. scopes' = [scopes EXCEPT ![current] = [scopes[current] EXCEPT !.inBody = TRUE]]
    BY <1>1
<1>5. scopes' \in Seq(ScopeRecords) /\ Len(scopes') = Len(scopes) /\ DOMAIN scopes' = DOMAIN scopes
    BY <1>2, <1>3, <1>4, ExceptSeq
<1>6. ASSUME NEW s \in DOMAIN scopes
      PROVE  /\ scopes'[s].above = scopes[s].above /\ scopes'[s].kind = scopes[s].kind
             /\ scopes'[s].upper = scopes[s].upper /\ scopes'[s].node = scopes[s].node
             /\ s = current \/ scopes'[s] = scopes[s]
    BY <1>1, <1>2 DEF ScopeRecords
<1>7. ASSUME NEW s \in 0..Len(scopes)
      PROVE  ChainNext(s) = Chain(s)
    <2>1. s = 0 \/ s \in DOMAIN scopes
        BY ScopesAreNumbers DEF Base
    <2> QED BY <1>6, <2>1 DEF ChainNext, Chain
<1>8. ASSUME NEW s \in DOMAIN scopes
      PROVE  Placed(s)'
    <2>1. Placed(s) /\ s \in 1..Len(scopes) /\ Len(scopes) \in Nat
        BY ScopesAreNumbers DEF Base, TreeOK
    <2>2. scopes[s].above \subseteq DOMAIN scopes /\ scopes[s].upper \in 0..Len(scopes)
        BY <2>1, ScopesAreNumbers DEF Placed, Base
    <2>3. ChainNext(scopes'[s].upper) = scopes'[s].above
        BY <1>6, <1>7, <2>1, <2>2 DEF Placed
    <2>4. \A t \in scopes'[s].above : scopes'[t].above = {u \in scopes'[s].above : u < t}
        BY <1>6, <2>1, <2>2 DEF Placed
    <2> QED BY <1>6, <2>1, <2>3, <2>4, PlacedNext DEF Placed
<1>9. TreeOK'
    BY <1>5, <1>6, <1>8, ScopesAreNumbers DEF Base, TreeOK
<1>10. ListsOK'
    BY <1>1, <1>5 DEF Base, ListsOK
<1>11. ChainNext(current') = Chain(current)
    BY <1>1, <1>2, <1>7
<1>12. ScopesGrow
    BY <1>1, <1>2, <1>5, <1>6, <1>11 DEF ScopesGrow
<1> QED BY <1>1, <1>9, <1>10, <1>12 DEF Grows, Base, DefinitionsOK

----------------------------------------------------------------------------
(* The steps that collect a reference.                                     *)
Collects(s, ref) ==
    /\ current # 0 /\ s \in Chain(current)
    /\ ref \in ReferenceRecords /\ ref.from = s /\ ref.resolved = 0
    /\ references' = Append(references, ref)
    /\ left' = [left EXCEPT ![s] = left[s] \cup {Len(references) + 1}]
    /\ UNCHANGED <<scopes, current, closing, definitions, through, implicit>>
    /\ referencedJsx' \in BOOLEAN

LEMMA ReferenceIsRecord ==
    ASSUME NEW s \in Nat, NEW n \in Identifiers, NEW type \in BOOLEAN, NEW value \in BOOLEAN,
           NEW sloppy \in BOOLEAN, NEW early \in SUBSET Nat
    PROVE  LET ref == Reference(s, n, type, value, sloppy, early)
           IN  ref \in ReferenceRecords /\ ref.from = s /\ ref.resolved = 0
BY DEF Reference, ReferenceRecords

LEMMA ReferCollects ==
    ASSUME Base, current # 0, NEW n \in Identifiers, NEW type \in BOOLEAN, NEW value \in BOOLEAN,
           NEW sloppy \in BOOLEAN, Refer(n, type, value, sloppy)
    PROVE  \E ref : Collects(current, ref) /\ UNCHANGED referencedJsx
<1> DEFINE early == EarlyIn(Chain(current))
           ref   == Reference(current, n, type, value, sloppy, early)
<1>1. current \in Chain(current) /\ current \in Nat /\ Chain(current) \subseteq Nat
    BY ListDomains, CurrentFacts
<1>2. early \in SUBSET Nat
    BY <1>1 DEF EarlyIn
<1>3. AddReference(current, ref) /\ UNCHANGED referencedJsx
    BY DEF Refer
<1> HIDE DEF early
<1>4. ref \in ReferenceRecords /\ ref.from = current /\ ref.resolved = 0
    BY <1>1, <1>2, ReferenceIsRecord
<1>5. referencedJsx' \in BOOLEAN
    BY <1>3 DEF Base, ReferencesOK
<1> HIDE DEF ref
<1>6. Collects(current, ref)
    BY <1>1, <1>3, <1>4, <1>5 DEF Collects, AddReference
<1> QED BY <1>3, <1>6

LEMMA JSXCollects ==
    ASSUME Base, JSXElement
    PROVE  LET ref == Reference(PragmaScope, Pragma, FALSE, TRUE, FALSE, PragmaEarly(PragmaScope))
           IN  /\ Collects(PragmaScope, ref)
               /\ Variable(PragmaScope, Pragma)
<1> DEFINE found == {s \in Chain(current) : Variable(s, Pragma)}
           ref   == Reference(PragmaScope, Pragma, FALSE, TRUE, FALSE, PragmaEarly(PragmaScope))
<1>1. current # 0 /\ AddReference(PragmaScope, ref) /\ PragmaScope # 0 /\ referencedJsx' = TRUE
    BY DEF JSXElement, Walking
<1>2. found # {} /\ PragmaScope = Innermost(found)
    BY <1>1 DEF PragmaScope
<1>3. found \in SUBSET DOMAIN scopes
    BY ListDomains
<1>4. PragmaScope \in Chain(current) /\ Variable(PragmaScope, Pragma)
    BY <1>2, <1>3, InnermostIsIn DEF Base
<1>5. PragmaScope \in DOMAIN scopes /\ PragmaScope \in Nat
    BY <1>4, ListDomains, ScopesAreNumbers DEF Base
<1>6. PragmaEarly(PragmaScope) \in SUBSET Nat
    <2>1. scopes[PragmaScope].above \subseteq Nat
        BY <1>5 DEF Base, TreeOK, Placed
    <2> QED BY <1>5, <2>1 DEF PragmaEarly, EarlyIn
<1>7. Pragma \in Identifiers
    BY ScopeAssumption DEF Identifiers
<1> HIDE DEF found
<1>8. ref \in ReferenceRecords /\ ref.from = PragmaScope /\ ref.resolved = 0
    BY <1>5, <1>6, <1>7, ReferenceIsRecord
<1> HIDE DEF ref
<1>9. Collects(PragmaScope, ref)
    BY <1>1, <1>4, <1>8 DEF Collects, AddReference
<1> QED BY <1>4, <1>9 DEF ref

----------------------------------------------------------------------------
(* The kinds of steps.                                                     *)
LEMMA StepKinds ==
    ASSUME Base, [Next]_vars
    PROVE  \/ Grows
           \/ \E s, ref : Collects(s, ref) /\ (UNCHANGED referencedJsx \/ JSXElement)
           \/ Close
           \/ \E n \in Names : AddGlobals(n)
           \/ UNCHANGED vars
<1>1. ASSUME NEW kind \in NestedKinds, NestScope(kind) \/ NestFunctionScope(kind)
      PROVE  Grows
    BY <1>1, NestScopeGrows, NestFunctionGrows
<1>2. ASSUME NEW n \in Names,
             \/ NestNamedFunctionScope(n) \/ NestClassScope(n)
             \/ DefineIdentifier(n) \/ DefineVar(n) \/ DefineInferred(n)
      PROVE  Grows
    BY <1>2, NestNamedGrows, NestClassGrows, DefineIdentifierGrows, DefineVarGrows,
       DefineInferredGrows
<1>3. ASSUME NEW n \in Identifiers,
             \/ ReferenceValue(n) \/ ReferenceType(n) \/ ReferenceDualValueType(n)
             \/ AssignmentExpression(n)
      PROVE  \E s, ref : Collects(s, ref) /\ UNCHANGED referencedJsx
    <2>1. current # 0
        BY <1>3 DEF ReferenceValue, ReferenceType, ReferenceDualValueType, AssignmentExpression,
                    Walking
    <2>2. (~ scopes[current].strict) \in BOOLEAN
        BY <2>1, CurrentFacts
    <2>3. \E type \in BOOLEAN, value \in BOOLEAN, sloppy \in BOOLEAN : Refer(n, type, value, sloppy)
        BY <1>3, <2>2 DEF ReferenceValue, ReferenceType, ReferenceDualValueType,
                          AssignmentExpression
    <2> QED BY <2>1, <2>3, ReferCollects
<1>4. JSXElement => \E s, ref : Collects(s, ref) /\ JSXElement
    BY JSXCollects
<1> QED BY <1>1, <1>2, <1>3, <1>4, VisitBodyGrows DEF Next, Identifiers

(* Resolving references changes what they are resolved to and nothing else.*)
LEMMA ResolvedFacts ==
    ASSUME Base, NEW R, NEW s \in DOMAIN scopes, references' = Resolved(R, s)
    PROVE  /\ references' \in Seq(ReferenceRecords) /\ DOMAIN references' = DOMAIN references
           /\ \A r \in DOMAIN references :
                 /\ references'[r].from = references[r].from
                 /\ references'[r].name = references[r].name
                 /\ references'[r].type = references[r].type
                 /\ references'[r].value = references[r].value
                 /\ references'[r].early = references[r].early
                 /\ references'[r].maybeImplicitGlobal = references[r].maybeImplicitGlobal
                 /\ references'[r].resolved = IF r \in R THEN s ELSE references[r].resolved
<1>1. s \in Nat /\ DOMAIN references = 1..Len(references) /\ Len(references) \in Nat
      /\ \A r \in DOMAIN references : references[r] \in ReferenceRecords
    BY ScopesAreNumbers, ListDomains DEF Base
<1>2. DOMAIN references' = DOMAIN references
    BY DEF Resolved
<1>3. ASSUME NEW r \in DOMAIN references
      PROVE  /\ references'[r] \in ReferenceRecords
             /\ references'[r].from = references[r].from
             /\ references'[r].name = references[r].name
             /\ references'[r].type = references[r].type
             /\ references'[r].value = references[r].value
             /\ references'[r].early = references[r].early
             /\ references'[r].maybeImplicitGlobal = references[r].maybeImplicitGlobal
             /\ references'[r].resolved = IF r \in R THEN s ELSE references[r].resolved
    <2>1. references'[r] = IF r \in R THEN [references[r] EXCEPT !.resolved = s] ELSE references[r]
        BY DEF Resolved
    <2>2. references[r] \in ReferenceRecords
        BY <1>1
    <2> QED BY <1>1, <2>1, <2>2 DEF ReferenceRecords
<1>4. references' \in [1..Len(references) -> ReferenceRecords]
    <2>1. references' = [r \in 1..Len(references) |-> references'[r]]
        BY <1>1 DEF Resolved
    <2> QED BY <1>1, <1>3, <2>1
<1>5. references' \in Seq(ReferenceRecords)
    BY <1>1, <1>4, SeqDef
<1> QED BY <1>2, <1>3, <1>5

(* The scope that is closed, and what closing it does.                     *)
LEMMA CloseFacts ==
    ASSUME Base, Close
    PROVE  /\ current \in DOMAIN scopes /\ current # 0
           /\ references' = Resolved(left[current] \ Rest(current), current)
           /\ through' \in Seq(SUBSET Nat) /\ Len(through') = Len(scopes)
           /\ left' \in Seq(SUBSET Nat) /\ Len(left') = Len(scopes)
           /\ \A s \in DOMAIN scopes :
                 /\ through'[s] = IF s = current THEN Rest(current) ELSE through[s]
                 /\ left'[s] = IF s = current THEN {}
                               ELSE IF s = scopes[current].upper THEN left[s] \cup Rest(current)
                               ELSE left[s]
           /\ Rest(current) \subseteq left[current]
           /\ current' = scopes[current].upper
           /\ Chain(scopes[current].upper) = Chain(current) \ {current}
           /\ UNCHANGED <<scopes, definitions, referencedJsx>>
<1>1. current \in DOMAIN scopes /\ current # 0 /\ Closes(current)
      /\ UNCHANGED <<scopes, definitions, referencedJsx>>
    BY ListDomains DEF Close
<1>2. /\ DOMAIN scopes = 1..Len(scopes) /\ Len(scopes) \in Nat
      /\ DOMAIN left = DOMAIN scopes /\ DOMAIN through = DOMAIN scopes
    BY ScopesAreNumbers, ListDomains DEF Base
<1>3. \A s \in DOMAIN scopes : left[s] \in SUBSET Nat /\ through[s] \in SUBSET Nat
    BY <1>2, ElementOfSeq DEF Base, ListsOK
<1>4. Rest(current) \subseteq left[current] /\ Rest(current) \in SUBSET Nat
    BY <1>1, <1>3 DEF Rest
<1>5. through' \in Seq(SUBSET Nat) /\ Len(through') = Len(scopes)
      /\ \A s \in DOMAIN scopes : through'[s] = IF s = current THEN Rest(current) ELSE through[s]
    <2>1. through' = [through EXCEPT ![current] = Rest(current)]
        BY <1>1 DEF Closes
    <2> QED BY <1>1, <1>2, <1>4, <2>1, ExceptSeq DEF Base, ListsOK
<1>6. left' = [s \in 1..Len(scopes) |->
                  IF s = current THEN {}
                  ELSE IF s = scopes[current].upper THEN left[s] \cup Rest(current) ELSE left[s]]
    BY <1>1, <1>2 DEF Closes
<1>7. left' \in [1..Len(scopes) -> SUBSET Nat]
    BY <1>2, <1>3, <1>4, <1>6
<1>8. left' \in Seq(SUBSET Nat)
    BY <1>2, <1>7, SeqDef
<1>9. Len(left') = Len(scopes)
    BY <1>2, <1>6
<1>10. Chain(scopes[current].upper) = Chain(current) \ {current}
    BY <1>1, ChainOfScope DEF Base
<1> QED BY <1>1, <1>2, <1>4, <1>5, <1>6, <1>8, <1>9, <1>10 DEF Closes

LEMMA GlobalsFacts ==
    ASSUME Base, NEW n \in Names, AddGlobals(n)
    PROVE  /\ current = 0 /\ 1 \in DOMAIN scopes
           /\ references' = Resolved(Unresolved(n), 1)
           /\ through' \in Seq(SUBSET Nat) /\ Len(through') = Len(scopes)
           /\ \A s \in DOMAIN scopes :
                 through'[s] = IF s = 1 THEN through[1] \ Unresolved(n) ELSE through[s]
           /\ definitions \subseteq definitions' /\ definitions' \subseteq Definitions
           /\ \A d \in definitions' : d \in definitions \/ (d.scope = 1 /\ d.name = n /\ d.def = "none")
           /\ implicit' = implicit \ {n}
           /\ UNCHANGED <<scopes, current, closing, left, referencedJsx>>
<1>1. /\ current = 0 /\ references' = Resolved(Unresolved(n), 1)
      /\ through' = [through EXCEPT ![1] = ThroughAfter(n)] /\ implicit' = implicit \ {n}
      /\ UNCHANGED <<scopes, current, closing, left, referencedJsx>>
    BY DEF AddGlobals
<1>2. /\ DOMAIN scopes = 1..Len(scopes) /\ Len(scopes) \in Nat /\ 1 \in DOMAIN scopes
      /\ DOMAIN through = DOMAIN scopes
    BY ScopesAreNumbers, ListDomains DEF Base
<1>3. ThroughAfter(n) \in SUBSET Nat /\ ThroughAfter(n) = through[1] \ Unresolved(n)
    BY <1>2, ElementOfSeq DEF Base, ListsOK, ThroughAfter
<1>4. through' \in Seq(SUBSET Nat) /\ Len(through') = Len(scopes)
      /\ \A s \in DOMAIN scopes : through'[s] = IF s = 1 THEN through[1] \ Unresolved(n) ELSE through[s]
    BY <1>1, <1>2, <1>3, ExceptSeq DEF Base, ListsOK
<1> DEFINE new == [scope |-> 1, name |-> n, def |-> "none", inBody |-> TRUE]
<1>5. new \in Definitions /\ new.scope = 1 /\ new.name = n /\ new.def = "none"
    BY DEF Definitions
<1>6. definitions' = definitions \/ definitions' = definitions \cup {new}
    BY DEF AddGlobals
<1> HIDE DEF new
<1> QED BY <1>1, <1>2, <1>4, <1>5, <1>6 DEF Base, DefinitionsOK

LEMMA BaseStep ==
    ASSUME Base, [Next]_vars
    PROVE  Base'
<1>1. ASSUME Grows
      PROVE  Base'
    <2>1. ReferencesOK'
        <3>1. UNCHANGED <<references, implicit, referencedJsx>>
            BY <1>1 DEF Grows, ScopesGrow
        <3>2. \A s \in DOMAIN scopes' : left'[s] \cup through'[s] \subseteq DOMAIN references
            BY <1>1 DEF Grows, ScopesGrow, Base, ReferencesOK
        <3>3. DOMAIN scopes \subseteq DOMAIN scopes'
            BY <1>1 DEF Grows, ScopesGrow
        <3> QED BY <3>1, <3>2, <3>3 DEF Base, ReferencesOK
    <2>2. DefinitionsOK'
        <3>1. ASSUME NEW d \in definitions'
              PROVE  d.scope \in DOMAIN scopes' /\ scopes'[d.scope].kind # "with"
            <4>1. CASE d \in definitions
                BY <1>1, <4>1 DEF Grows, ScopesGrow, Base, DefinitionsOK
            <4>2. CASE d \notin definitions
                BY <1>1, <4>2, ListDomains DEF Grows, ScopesGrow
            <4> QED BY <4>1, <4>2
        <3> QED BY <1>1, <3>1 DEF Grows, DefinitionsOK
    <2> QED BY <1>1, <2>1, <2>2 DEF Grows, Base
<1>2. ASSUME NEW s, NEW ref, Collects(s, ref)
      PROVE  Base'
    <2>1. /\ s \in DOMAIN scopes /\ Len(references) \in Nat /\ DOMAIN left = DOMAIN scopes
          /\ DOMAIN scopes = 1..Len(scopes) /\ DOMAIN references = 1..Len(references)
        BY <1>2, ListDomains, ScopesAreNumbers DEF Collects, Base
    <2>2. TreeOK' /\ DefinitionsOK'
        BY <1>2 DEF Collects, Base, TreeOK, Placed, Chain, DefinitionsOK
    <2>3. left[s] \cup {Len(references) + 1} \in SUBSET Nat
        BY <2>1, ElementOfSeq DEF Base, ListsOK
    <2>4. left' \in Seq(SUBSET Nat) /\ Len(left') = Len(left)
          /\ \A t \in DOMAIN scopes : left'[t] = IF t = s THEN left[s] \cup {Len(references) + 1}
                                                ELSE left[t]
        BY <1>2, <2>1, <2>3, ExceptSeq DEF Collects, Base, ListsOK
    <2>5. ListsOK'
        BY <1>2, <2>4 DEF Collects, Base, ListsOK
    <2>6. /\ references' \in Seq(ReferenceRecords) /\ Len(references') = Len(references) + 1
          /\ \A r \in 1..Len(references) : references'[r] = references[r]
          /\ references'[Len(references) + 1] = ref
        BY <1>2, AppendProperties DEF Collects, Base, ReferencesOK
    <2>7. DOMAIN references' = 1..(Len(references) + 1)
        BY <2>6, LenProperties
    <2>8. \A r \in DOMAIN references' : references'[r].from \in DOMAIN scopes
        BY <1>2, <2>1, <2>6, <2>7 DEF Collects, Base, ReferencesOK
    <2>9. \A t \in DOMAIN scopes : left'[t] \cup through[t] \subseteq DOMAIN references'
        BY <2>1, <2>4, <2>7 DEF Base, ReferencesOK
    <2>10. ReferencesOK'
        BY <1>2, <2>6, <2>8, <2>9 DEF Collects, Base, ReferencesOK
    <2> QED BY <2>2, <2>5, <2>10 DEF Base
<1>3. ASSUME Close
      PROVE  Base'
    <2>1. TreeOK' /\ DefinitionsOK'
        <3>1. UNCHANGED <<scopes, definitions>>
            BY <1>3, CloseFacts
        <3> QED BY <3>1 DEF Base, TreeOK, Placed, Chain, DefinitionsOK
    <2>2. /\ current \in DOMAIN scopes /\ DOMAIN scopes = 1..Len(scopes) /\ Len(scopes) \in Nat
          /\ scopes[current].node \in 1..current /\ scopes[current].upper \in 0..(current - 1)
        BY <1>3, CloseFacts, ScopesAreNumbers DEF Base, TreeOK, Placed
    <2>3. current' \in 0..Len(scopes) /\ closing' \in 0..Len(scopes)
        BY <1>3, <2>2, CloseFacts DEF Close
    <2>4. ListsOK'
        BY <1>3, <2>3, CloseFacts DEF ListsOK
    <2>5. references' \in Seq(ReferenceRecords) /\ DOMAIN references' = DOMAIN references
          /\ \A r \in DOMAIN references : references'[r].from = references[r].from
        BY <1>3, CloseFacts, ResolvedFacts
    <2>6. \A s \in DOMAIN scopes : left'[s] \cup through'[s] \subseteq DOMAIN references
        BY <1>3, CloseFacts DEF Base, ReferencesOK
    <2>7. implicit' \subseteq Identifiers
        <3>1. ImplicitGlobals \subseteq Identifiers
            <4>1. left[1] \subseteq DOMAIN references
                BY ScopesAreNumbers DEF Base, ReferencesOK
            <4>2. \A r \in DOMAIN references : references[r].name \in Identifiers
                BY ListDomains DEF ReferenceRecords
            <4> QED BY <4>1, <4>2 DEF ImplicitGlobals
        <3> QED BY <1>3, <3>1 DEF Close, Closes, Base, ReferencesOK
    <2>8. UNCHANGED <<scopes, referencedJsx>>
        BY <1>3, CloseFacts
    <2>9. ReferencesOK'
        BY <2>5, <2>6, <2>7, <2>8 DEF Base, ReferencesOK
    <2> QED BY <2>1, <2>4, <2>9 DEF Base
<1>4. ASSUME NEW n \in Names, AddGlobals(n)
      PROVE  Base'
    <2>1. UNCHANGED <<scopes, current, closing, left, referencedJsx>> /\ 1 \in DOMAIN scopes
        BY <1>4, GlobalsFacts
    <2>2. TreeOK'
        BY <2>1 DEF Base, TreeOK, Placed, Chain
    <2>3. ListsOK'
        BY <1>4, <2>1, GlobalsFacts DEF Base, ListsOK
    <2>4. references' \in Seq(ReferenceRecords) /\ DOMAIN references' = DOMAIN references
          /\ \A r \in DOMAIN references : references'[r].from = references[r].from
        <3>1. references' = Resolved(Unresolved(n), 1)
            BY <1>4, GlobalsFacts
        <3> QED BY <2>1, <3>1, ResolvedFacts
    <2>5. \A s \in DOMAIN scopes : left[s] \cup through'[s] \subseteq DOMAIN references
        BY <1>4, GlobalsFacts DEF Base, ReferencesOK
    <2>6. implicit' \subseteq Identifiers
        BY <1>4, GlobalsFacts DEF Base, ReferencesOK
    <2>7. ReferencesOK'
        BY <2>1, <2>4, <2>5, <2>6 DEF Base, ReferencesOK
    <2>8. DefinitionsOK'
        <3>1. scopes[1].kind # "with"
            BY DEF Base, TreeOK
        <3>2. ASSUME NEW d \in definitions'
              PROVE  d.scope \in DOMAIN scopes /\ scopes[d.scope].kind # "with"
            BY <1>4, <2>1, <3>1, GlobalsFacts DEF Base, DefinitionsOK
        <3> QED BY <1>4, <2>1, <3>2, GlobalsFacts DEF DefinitionsOK
    <2> QED BY <2>2, <2>3, <2>7, <2>8 DEF Base
<1>5. ASSUME UNCHANGED vars
      PROVE  Base'
    BY <1>5 DEF Base, TreeOK, Placed, Chain, ListsOK, ReferencesOK, DefinitionsOK, vars
<1> QED BY <1>1, <1>2, <1>3, <1>4, <1>5, StepKinds

LEMMA FirstScopes ==
    ASSUME Init
    PROVE  TreeOK /\ Len(scopes) \in {1, 2}
<1>1. PICK strict \in Directives :
        LET global == Scope("global", 0, {}, 1, strict) IN
        \/ scopes = <<global>>
        \/ scopes = <<[global EXCEPT !.strict = FALSE], Scope("program", 1, {1}, 1, strict)>>
        \/ scopes = <<global, Scope("module", 1, {1}, 1, TRUE)>>
    BY DEF Init
<1>2. /\ strict \in BOOLEAN
      /\ "global" \in AllKinds /\ "program" \in AllKinds /\ "module" \in AllKinds
    BY ScopeAssumption DEF AllKinds, VariableKinds
<1> DEFINE global == Scope("global", 0, {}, 1, strict)
           sloppy == [global EXCEPT !.strict = FALSE]
<1>3. /\ global \in ScopeRecords /\ global.kind = "global" /\ global.upper = 0
      /\ global.above = {} /\ global.node = 1
    BY <1>2, ScopeIsRecord
<1>4. /\ sloppy \in ScopeRecords /\ sloppy.kind = "global" /\ sloppy.upper = 0
      /\ sloppy.above = {} /\ sloppy.node = 1
    <2> HIDE DEF global
    <2> QED BY <1>3 DEF ScopeRecords
<1>5. \A kind \in {"program", "module"}, s \in BOOLEAN :
          LET rec == Scope(kind, 1, {1}, 1, s)
          IN  /\ rec \in ScopeRecords /\ rec.kind = kind /\ rec.upper = 1
              /\ rec.above = {1} /\ rec.node = 1
    BY <1>2, ScopeIsRecord
<1>6. PICK first \in ScopeRecords, second \in ScopeRecords :
          /\ first.kind = "global" /\ first.upper = 0 /\ first.above = {} /\ first.node = 1
          /\ second.upper = 1 /\ second.above = {1} /\ second.node = 1
          /\ scopes = <<first>> \/ scopes = <<first, second>>
    <2> DEFINE program == Scope("program", 1, {1}, 1, strict)
               module  == Scope("module", 1, {1}, 1, TRUE)
    <2>1. /\ program \in ScopeRecords /\ program.upper = 1 /\ program.above = {1} /\ program.node = 1
          /\ module \in ScopeRecords /\ module.upper = 1 /\ module.above = {1} /\ module.node = 1
        BY <1>2, <1>5
    <2>2. scopes = <<global>> \/ scopes = <<sloppy, program>> \/ scopes = <<global, module>>
        BY <1>1
    <2> HIDE DEF global, sloppy, program, module
    <2> QED BY <1>3, <1>4, <2>1, <2>2
<1>7. /\ scopes \in Seq(ScopeRecords) /\ Len(scopes) \in {1, 2} /\ scopes[1] = first
      /\ Len(scopes) = 2 => scopes[2] = second
      /\ DOMAIN scopes = 1..Len(scopes)
    <2>1. CASE scopes = <<first>>
        BY <2>1
    <2>2. CASE scopes = <<first, second>>
        BY <2>2
    <2> QED BY <1>6, <2>1, <2>2
<1>8. Placed(1)
    BY <1>6, <1>7 DEF Placed, Chain
<1>9. Len(scopes) = 2 => Placed(2)
    <2> SUFFICES ASSUME Len(scopes) = 2 PROVE Placed(2)
        OBVIOUS
    <2>1. /\ scopes[2].above = {1} /\ scopes[2].upper = 1 /\ scopes[2].node = 1
          /\ scopes[1].above = {}
        BY <1>6, <1>7
    <2>2. Chain(1) = {1}
        BY <2>1 DEF Chain
    <2>3. {1} \subseteq 1..(2 - 1) /\ {u \in {1} : u < 1} = {} /\ 1 \in 0..(2 - 1) /\ 1 \in 1..2
        OBVIOUS
    <2> QED BY <2>1, <2>2, <2>3 DEF Placed
<1>10. \A s \in DOMAIN scopes : s = 1 \/ (s = 2 /\ Len(scopes) = 2)
    BY <1>7
<1>11. \A s \in DOMAIN scopes : Placed(s)
    BY <1>8, <1>9, <1>10
<1> QED BY <1>6, <1>7, <1>11 DEF TreeOK

LEMMA BaseInit == Init => Base
<1> SUFFICES ASSUME Init PROVE Base
    OBVIOUS
<1>1. TreeOK /\ Len(scopes) \in {1, 2} /\ DOMAIN scopes = 1..Len(scopes)
    BY FirstScopes, ScopesAreNumbers
<1>2. /\ left = [s \in 1..Len(scopes) |-> {}] /\ through = [s \in 1..Len(scopes) |-> {}]
      /\ current = Len(scopes) /\ closing = 0 /\ references = <<>> /\ implicit = {}
      /\ referencedJsx = FALSE
    BY DEF Init
<1>3. left \in Seq(SUBSET Nat) /\ through \in Seq(SUBSET Nat)
      /\ Len(left) = Len(scopes) /\ Len(through) = Len(scopes)
    <2>1. [s \in 1..Len(scopes) |-> {}] \in [1..Len(scopes) -> SUBSET Nat]
        OBVIOUS
    <2>2. Len(scopes) \in Nat
        BY <1>1
    <2>3. [s \in 1..Len(scopes) |-> {}] \in Seq(SUBSET Nat)
        BY <2>1, <2>2, SeqDef
    <2>4. Len([s \in 1..Len(scopes) |-> {}]) = Len(scopes)
        BY <2>2
    <2> QED BY <1>2, <2>3, <2>4
<1>4. ListsOK
    BY <1>1, <1>2, <1>3 DEF ListsOK
<1>5. ReferencesOK
    <2>1. references \in Seq(ReferenceRecords) /\ DOMAIN references = {}
        BY <1>2
    <2> QED BY <1>1, <1>2, <2>1 DEF ReferencesOK
<1>6. DefinitionsOK
    <2>1. LibVariables \subseteq Definitions /\ \A d \in LibVariables : d.scope = 1
        <3>1. \A n \in Names :
                 LET d == [scope |-> 1, name |-> n, def |-> "none", inBody |-> TRUE]
                 IN  d \in Definitions /\ d.scope = 1
            BY DEF Definitions
        <3>2. LibTypes \cup LibValues \subseteq Names
            BY ScopeAssumption
        <3> QED BY <3>1, <3>2 DEF LibVariables
    <2>2. OwnArguments(2) \in Definitions /\ OwnArguments(2).scope = 2
        BY OwnArgumentsDefined
    <2>3. \/ definitions = LibVariables
          \/ /\ definitions = LibVariables \cup {OwnArguments(2)}
             /\ Len(scopes) = 2 /\ scopes[2].kind = "program"
        BY DEF Init, Scope
    <2>4. scopes[1].kind = "global"
        BY <1>1 DEF TreeOK
    <2>5. definitions \subseteq Definitions
        BY <2>1, <2>2, <2>3
    <2>6. \A d \in definitions : d.scope = 1
                                 \/ (d.scope = 2 /\ Len(scopes) = 2 /\ scopes[2].kind = "program")
        BY <2>1, <2>2, <2>3
    <2> QED BY <1>1, <2>4, <2>5, <2>6 DEF DefinitionsOK
<1> QED BY <1>1, <1>4, <1>5, <1>6 DEF Base

LEMMA BaseHolds == Spec => []Base
<1>1. Base /\ [Next]_vars => Base'
    BY BaseStep
<1> QED BY <1>1, BaseInit, PTL DEF Spec

(* What the scope manager, its scopes, variables and references are.       *)
THEOREM TypeCorrect == Spec => []TypeOK
BY BaseIsTyped, BaseHolds, PTL

----------------------------------------------------------------------------
(* Where references are, said of one reference and one scope at a time.    *)
Around(r)        == Chain(references[r].from)
OpenScopes       == Chain(current)
AcceptsRef(t, r) == Accepts(t, references[r])

IsNearest(r) ==
    references[r].resolved # 0 =>
        /\ references[r].resolved \in Around(r) /\ references[r].resolved \notin OpenScopes
        /\ \A t \in Around(r) :
              /\ t = references[r].resolved /\ current # 0 => AcceptsRef(t, r)
              /\ t > references[r].resolved => ~ AcceptsRef(t, r)

IsWaiting(r) ==
    references[r].resolved = 0 =>
        /\ \A s \in DOMAIN scopes :
              r \in left[s] <=> /\ s \in Around(r) /\ s \in OpenScopes
                                /\ \A t \in Around(r) : t \in OpenScopes => t <= s
        /\ \A s \in Around(r) : s \notin OpenScopes => ~ AcceptsRef(s, r)

IsThrough(r) ==
    \A s \in DOMAIN scopes : s \notin OpenScopes =>
        (r \in through[s] <=> s \in Around(r) /\ references[r].resolved < s)

IsLeft(r) == \A s \in DOMAIN scopes : r \in left[s] => references[r].resolved = 0

IsPlaced(r) == IsNearest(r) /\ IsWaiting(r) /\ IsThrough(r) /\ IsLeft(r)

Resolution == \A r \in DOMAIN references : IsPlaced(r)

LEMMA AroundFacts ==
    ASSUME Base, NEW r \in DOMAIN references
    PROVE  /\ Around(r) \subseteq DOMAIN scopes /\ 1 \in Around(r)
           /\ references[r].from \in Around(r)
           /\ DOMAIN scopes \subseteq Nat \ {0}
           /\ references[r].resolved \in Nat
           /\ \A t \in Around(r), u \in Around(r) : t \in OpenScopes /\ u <= t => u \in OpenScopes
           /\ \A t \in Around(r), u \in OpenScopes : t \in OpenScopes /\ u <= t => u \in Around(r)
<1> DEFINE from == references[r].from
<1>1. from \in DOMAIN scopes /\ references[r].resolved \in Nat
    BY ListDomains DEF Base, ReferencesOK, ReferenceRecords
<1>2. Around(r) \subseteq DOMAIN scopes /\ 1 \in Around(r) /\ from \in Around(r)
      /\ DOMAIN scopes = 1..Len(scopes) /\ Len(scopes) \in Nat
    BY <1>1, ChainOfScope, ScopesAreNumbers DEF Around, Base
<1>3. \A t \in Around(r) : Chain(t) = {u \in Around(r) : u <= t}
    <2>1. from \in 0..Len(scopes)
        BY <1>1, <1>2
    <2> QED BY <2>1, ChainIsLinear DEF Around, Base
<1>4. \A t \in OpenScopes : Chain(t) = {u \in OpenScopes : u <= t}
    BY ChainIsLinear DEF OpenScopes, Base, ListsOK
<1> QED BY <1>1, <1>2, <1>3, <1>4

LEMMA OpenFacts ==
    ASSUME Base
    PROVE  /\ OpenScopes \subseteq DOMAIN scopes
           /\ current # 0 => current \in OpenScopes /\ \A t \in OpenScopes : t <= current
           /\ current = 0 => OpenScopes = {}
<1>1. current # 0 => OpenScopes \subseteq 1..current
    BY ListDomains, ChainOfScope DEF OpenScopes, Base
<1> QED BY <1>1, ListDomains DEF OpenScopes, Chain

(* What a scope accepts depends on its definitions of the name only.       *)
LEMMA AcceptsKept ==
    ASSUME NEW t, NEW r,
           scopes'[t].kind = scopes[t].kind, scopes'[t].inBody = scopes[t].inBody,
           definitions \subseteq definitions',
           \A d \in definitions' \ definitions : d.scope = t => d.name # references[r].name,
           references'[r].name = references[r].name, references'[r].type = references[r].type,
           references'[r].value = references[r].value, references'[r].early = references[r].early
    PROVE  AcceptsRef(t, r)' <=> AcceptsRef(t, r)
<1> DEFINE n == references[r].name
           these == {d \in definitions : d.scope = t /\ d.name = n /\ d.def # "none"}
<1>1. \A d : d \in definitions' /\ d.scope = t /\ d.name = n <=>
             d \in definitions /\ d.scope = t /\ d.name = n
    OBVIOUS
<1>2. these = {d \in definitions' : d.scope = t /\ d.name = n /\ d.def # "none"}
    BY <1>1
<1>3. AcceptsRef(t, r) <=>
        /\ scopes[t].kind # "with"
        /\ \E d \in definitions : d.scope = t /\ d.name = n
        /\ t \in references[r].early /\ scopes[t].inBody => \E d \in these : ~ d.inBody
        /\ \/ /\ references[r].type
              /\ IF FromLib(t, n) THEN n \in LibTypes
                 ELSE these = {} \/ \E d \in these : d.def \in {"type", "both"}
           \/ /\ references[r].value
              /\ IF FromLib(t, n) THEN n \in LibValues
                 ELSE these = {} \/ \E d \in these : d.def \in {"value", "both"}
    BY DEF AcceptsRef, Accepts, Variable, Defs, IsValidResolution, IsTypeVariable, IsValueVariable
<1>4. AcceptsRef(t, r)' <=>
        /\ scopes[t].kind # "with"
        /\ \E d \in definitions' : d.scope = t /\ d.name = n
        /\ t \in references[r].early /\ scopes[t].inBody => \E d \in these : ~ d.inBody
        /\ \/ /\ references[r].type
              /\ IF FromLib(t, n) THEN n \in LibTypes
                 ELSE these = {} \/ \E d \in these : d.def \in {"type", "both"}
           \/ /\ references[r].value
              /\ IF FromLib(t, n) THEN n \in LibValues
                 ELSE these = {} \/ \E d \in these : d.def \in {"value", "both"}
    BY <1>2 DEF AcceptsRef, Accepts, Variable, Defs, IsValidResolution, IsTypeVariable,
                IsValueVariable, FromLib
<1> HIDE DEF these, n
<1> QED BY <1>1, <1>3, <1>4

(* Where references are, of a program without any.                         *)
LEMMA FirstResolution == Init => Resolution
BY DEF Init, Resolution

LEMMA GrowsResolution ==
    ASSUME Base, Resolution, Grows
    PROVE  Resolution'
<1> SUFFICES ASSUME NEW r \in DOMAIN references'
             PROVE  IsPlaced(r)'
    BY DEF Resolution
<1>1. /\ references' = references /\ r \in DOMAIN references /\ current # 0 /\ current' # 0
      /\ DOMAIN scopes \subseteq DOMAIN scopes'
      /\ \A s \in DOMAIN scopes : left'[s] = left[s] /\ through'[s] = through[s]
      /\ \A s \in DOMAIN scopes' \ DOMAIN scopes : left'[s] = {}
    BY DEF Grows, ScopesGrow
<1>2. Around(r)' = Around(r)
    <2>1. references[r].from \in DOMAIN scopes /\ references[r].from # 0
        BY <1>1, ScopesAreNumbers DEF Base, ReferencesOK
    <2> QED BY <1>1, <2>1 DEF Around, Chain, Grows, ScopesGrow
<1>3. OpenScopes' = OpenScopes \cup (DOMAIN scopes' \ DOMAIN scopes)
    BY DEF OpenScopes, Chain, ChainNext, Grows, ScopesGrow
<1>4. /\ Around(r) \subseteq DOMAIN scopes /\ DOMAIN scopes \subseteq Nat \ {0}
      /\ references[r].resolved \in Nat
      /\ \A t \in Around(r), u \in Around(r) : t \in OpenScopes /\ u <= t => u \in OpenScopes
    BY <1>1, AroundFacts
<1>5. \A t \in Around(r) : t \in OpenScopes' <=> t \in OpenScopes
    BY <1>3, <1>4
<1>6. ASSUME NEW t \in Around(r), t \notin OpenScopes
      PROVE  AcceptsRef(t, r)' <=> AcceptsRef(t, r)
    <2>1. t \in DOMAIN scopes /\ scopes'[t] = scopes[t]
        BY <1>4, <1>6 DEF Grows, ScopesGrow, OpenScopes
    <2>2. \A d \in definitions' \ definitions : d.scope # t
        BY <1>3, <1>6, <2>1 DEF Grows, ScopesGrow, OpenScopes
    <2> QED BY <1>1, <2>1, <2>2, AcceptsKept DEF Grows
<1>7. IsNearest(r) /\ IsWaiting(r) /\ IsThrough(r) /\ IsLeft(r)
    BY <1>1 DEF Resolution, IsPlaced
<1>8. IsNearest(r)'
    <2> SUFFICES ASSUME references[r].resolved # 0
                 PROVE  LET to == references[r].resolved
                        IN  /\ to \in Around(r) /\ to \notin OpenScopes'
                            /\ \A t \in Around(r) :
                                  /\ t = to => AcceptsRef(t, r)'
                                  /\ t > to => ~ AcceptsRef(t, r)'
        BY <1>1, <1>2 DEF IsNearest
    <2>1. /\ references[r].resolved \in Around(r) /\ references[r].resolved \notin OpenScopes
          /\ \A t \in Around(r) :
                /\ t = references[r].resolved => AcceptsRef(t, r)
                /\ t > references[r].resolved => ~ AcceptsRef(t, r)
        BY <1>1, <1>7 DEF IsNearest
    <2>2. \A t \in Around(r) : t >= references[r].resolved => t \notin OpenScopes
        BY <1>4, <2>1
    <2> QED BY <1>4, <1>5, <1>6, <2>1, <2>2
<1>9. IsWaiting(r)'
    <2> SUFFICES ASSUME references[r].resolved = 0
                 PROVE  /\ \A s \in DOMAIN scopes' :
                              r \in left'[s] <=> /\ s \in Around(r) /\ s \in OpenScopes'
                                                 /\ \A t \in Around(r) : t \in OpenScopes' => t <= s
                        /\ \A s \in Around(r) : s \notin OpenScopes' => ~ AcceptsRef(s, r)'
        BY <1>1, <1>2 DEF IsWaiting
    <2>1. /\ \A s \in DOMAIN scopes :
                r \in left[s] <=> /\ s \in Around(r) /\ s \in OpenScopes
                                  /\ \A t \in Around(r) : t \in OpenScopes => t <= s
          /\ \A s \in Around(r) : s \notin OpenScopes => ~ AcceptsRef(s, r)
        BY <1>7 DEF IsWaiting
    <2>2. ASSUME NEW s \in DOMAIN scopes'
          PROVE  r \in left'[s] <=> /\ s \in Around(r) /\ s \in OpenScopes'
                                    /\ \A t \in Around(r) : t \in OpenScopes' => t <= s
        <3>1. CASE s \in DOMAIN scopes
            BY <1>1, <1>5, <2>1, <3>1
        <3>2. CASE s \notin DOMAIN scopes
            BY <1>1, <1>4, <3>2
        <3> QED BY <3>1, <3>2
    <2> QED BY <1>5, <1>6, <2>1, <2>2
<1>10. IsThrough(r)'
    <2>1. ASSUME NEW s \in DOMAIN scopes', s \notin OpenScopes'
          PROVE  r \in through'[s] <=> s \in Around(r) /\ references[r].resolved < s
        <3>1. s \in DOMAIN scopes /\ s \notin OpenScopes
            BY <1>3, <2>1
        <3> QED BY <1>1, <1>7, <3>1 DEF IsThrough
    <2> QED BY <1>1, <1>2, <2>1 DEF IsThrough
<1>11. IsLeft(r)'
    BY <1>1, <1>7 DEF IsLeft
<1> QED BY <1>8, <1>9, <1>10, <1>11 DEF IsPlaced

LEMMA CollectsResolution ==
    ASSUME Base, Resolution, NEW s, NEW ref, Collects(s, ref)
    PROVE  Resolution'
<1> DEFINE new == Len(references) + 1
<1> SUFFICES ASSUME NEW r \in DOMAIN references'
             PROVE  IsPlaced(r)'
    BY DEF Resolution
<1>1. /\ s \in DOMAIN scopes /\ Len(references) \in Nat /\ DOMAIN left = DOMAIN scopes
      /\ DOMAIN references = 1..Len(references) /\ s \in Chain(current)
      /\ s \in Nat /\ s # 0
    BY ListDomains, ScopesAreNumbers DEF Collects, Base
<1>2. /\ Len(references') = new
      /\ \A q \in 1..Len(references) : references'[q] = references[q]
      /\ references'[new] = ref /\ references' \in Seq(ReferenceRecords)
    BY AppendProperties DEF Collects, Base, ReferencesOK
<1>3. DOMAIN references' = 1..new
    BY <1>2, LenProperties
<1>4. \A t \in DOMAIN scopes : left'[t] = IF t = s THEN left[s] \cup {new} ELSE left[t]
    BY <1>1 DEF Collects
<1>5. UNCHANGED <<scopes, current, definitions, through>> /\ current # 0
    BY DEF Collects
<1>6. OpenScopes' = OpenScopes
    BY <1>5 DEF OpenScopes, Chain
<1>7. CASE r \in DOMAIN references
    <2>1. references'[r] = references[r] /\ r # new
        BY <1>1, <1>2, <1>7
    <2>2. Around(r)' = Around(r)
        BY <1>5, <2>1 DEF Around, Chain
    <2>3. \A t : AcceptsRef(t, r)' <=> AcceptsRef(t, r)
        BY <1>5, <2>1, AcceptsKept
    <2>4. \A t \in DOMAIN scopes : r \in left'[t] <=> r \in left[t]
        BY <1>4, <2>1
    <2>5. IsNearest(r) /\ IsWaiting(r) /\ IsThrough(r) /\ IsLeft(r)
        BY <1>7 DEF Resolution, IsPlaced
    <2>6. IsNearest(r)'
        BY <1>5, <1>6, <2>1, <2>2, <2>3, <2>5 DEF IsNearest
    <2>7. IsWaiting(r)'
        BY <1>5, <1>6, <2>1, <2>2, <2>3, <2>4, <2>5 DEF IsWaiting
    <2>8. IsThrough(r)'
        BY <1>5, <1>6, <2>1, <2>2, <2>5 DEF IsThrough
    <2>9. IsLeft(r)'
        BY <1>5, <2>1, <2>4, <2>5 DEF IsLeft
    <2> QED BY <2>6, <2>7, <2>8, <2>9 DEF IsPlaced
<1>8. CASE r \notin DOMAIN references
    <2>1. r = new
        BY <1>1, <1>3, <1>8
    <2>2. references'[r] = ref /\ ref.from = s /\ ref.resolved = 0
        BY <1>2, <2>1 DEF Collects
    <2>3. Around(r)' = Chain(s)
        BY <1>5, <2>2 DEF Around, Chain
    <2>4. Chain(s) \subseteq OpenScopes /\ s \in Chain(s) /\ \A t \in Chain(s) : t <= s
        <3>1. current \in 0..Len(scopes) /\ TreeOK
            BY DEF Base, ListsOK
        <3>2. Chain(s) \subseteq OpenScopes
            BY <1>1, <3>1, ChainNests DEF OpenScopes
        <3> QED BY <1>1, <3>1, <3>2, ChainOfScope
    <2>5. \A t \in DOMAIN scopes : r \in left'[t] <=> t = s
        <3>1. \A t \in DOMAIN scopes : r \notin left[t]
            BY <1>8 DEF Base, ReferencesOK
        <3> QED BY <1>4, <2>1, <3>1
    <2>6. \A t \in DOMAIN scopes : r \notin through[t]
        BY <1>8 DEF Base, ReferencesOK
    <2>7. IsNearest(r)'
        BY <2>2 DEF IsNearest
    <2>8. IsWaiting(r)'
        <3>1. ASSUME NEW t \in DOMAIN scopes
              PROVE  t = s <=> /\ t \in Chain(s) /\ t \in OpenScopes
                               /\ \A u \in Chain(s) : u \in OpenScopes => u <= t
            <4>1. t \in Nat
                BY ScopesAreNumbers DEF Base
            <4> QED BY <1>1, <2>4, <4>1
        <3>2. \A t \in Chain(s) : t \in OpenScopes
            BY <2>4
        <3> QED BY <1>5, <1>6, <2>3, <2>5, <3>1, <3>2 DEF IsWaiting
    <2>9. IsThrough(r)'
        BY <1>5, <1>6, <2>3, <2>4, <2>6 DEF IsThrough
    <2>10. IsLeft(r)'
        BY <2>2 DEF IsLeft
    <2> QED BY <2>7, <2>8, <2>9, <2>10 DEF IsPlaced
<1> QED BY <1>7, <1>8

(* Closing a scope, said of one reference: what waits in the scope is      *)
(* resolved to it or waits further out.                                    *)
LEMMA CloseResolution ==
    ASSUME Base, Resolution, Close
    PROVE  Resolution'
<1> DEFINE c  == current
           up == scopes[current].upper
<1>1. /\ c \in DOMAIN scopes /\ c # 0 /\ current' = up
      /\ references' = Resolved(left[c] \ Rest(c), c)
      /\ UNCHANGED <<scopes, definitions>>
      /\ \A s \in DOMAIN scopes :
            /\ through'[s] = IF s = c THEN Rest(c) ELSE through[s]
            /\ left'[s] = IF s = c THEN {} ELSE IF s = up THEN left[s] \cup Rest(c) ELSE left[s]
      /\ Chain(up) = OpenScopes \ {c}
    BY CloseFacts DEF OpenScopes
<1>2. OpenScopes' = OpenScopes \ {c}
    BY <1>1 DEF OpenScopes, Chain
<1>3. c \in OpenScopes /\ (\A t \in OpenScopes : t <= c) /\ OpenScopes \subseteq DOMAIN scopes
    BY <1>1, OpenFacts
<1>4. /\ up = 0 => OpenScopes' = {}
      /\ up # 0 => up \in OpenScopes' /\ up # c /\ \A t \in OpenScopes' : t <= up
    <2>1. up \in 0..(c - 1) /\ c \in 1..Len(scopes) /\ Len(scopes) \in Nat
          /\ DOMAIN scopes = 1..Len(scopes)
        BY <1>1, ChainOfScope, ScopesAreNumbers DEF Base
    <2>2. up = 0 => Chain(up) = {}
        BY DEF Chain
    <2>3. up # 0 => up \in Chain(up) /\ Chain(up) \subseteq 1..up
        <3>1. up # 0 => up \in DOMAIN scopes
            BY <2>1
        <3> HIDE DEF up
        <3> QED BY <3>1, ChainOfScope DEF Base
    <2> HIDE DEF up, c
    <2> QED BY <1>1, <1>2, <2>1, <2>2, <2>3
<1> HIDE DEF up
<1>5. DOMAIN references' = DOMAIN references
    BY <1>1, ResolvedFacts
<1> SUFFICES ASSUME NEW r \in DOMAIN references
             PROVE  IsPlaced(r)'
    BY <1>5 DEF Resolution
<1>6. /\ references'[r].resolved = IF r \in left[c] \ Rest(c) THEN c ELSE references[r].resolved
      /\ references'[r].from = references[r].from /\ references'[r].name = references[r].name
      /\ references'[r].type = references[r].type /\ references'[r].value = references[r].value
      /\ references'[r].early = references[r].early
    <2> DEFINE taken == left[c] \ Rest(c)
    <2>1. references' = Resolved(taken, current) /\ current \in DOMAIN scopes
        BY <1>1
    <2> HIDE DEF taken
    <2>2. /\ references'[r].resolved = IF r \in taken THEN current ELSE references[r].resolved
          /\ references'[r].from = references[r].from /\ references'[r].name = references[r].name
          /\ references'[r].type = references[r].type /\ references'[r].value = references[r].value
          /\ references'[r].early = references[r].early
        BY <2>1, ResolvedFacts
    <2> QED BY <2>2 DEF taken
<1>7. Around(r)' = Around(r)
    BY <1>1, <1>6 DEF Around, Chain
<1>8. \A t : AcceptsRef(t, r)' <=> AcceptsRef(t, r)
    BY <1>1, <1>6, AcceptsKept
<1>9. r \in Rest(c) <=> r \in left[c] /\ ~ AcceptsRef(c, r)
    BY DEF Rest, AcceptsRef
<1>10. /\ Around(r) \subseteq DOMAIN scopes /\ DOMAIN scopes \subseteq Nat \ {0}
       /\ references[r].resolved \in Nat
       /\ \A t \in Around(r), u \in Around(r) : t \in OpenScopes /\ u <= t => u \in OpenScopes
       /\ \A t \in Around(r), u \in OpenScopes : t \in OpenScopes /\ u <= t => u \in Around(r)
    BY AroundFacts
<1>11. IsNearest(r) /\ IsWaiting(r) /\ IsThrough(r) /\ IsLeft(r)
    BY DEF Resolution, IsPlaced
<1> DEFINE to  == references[r].resolved
           to1 == references'[r].resolved
<1>12. c # 0 /\ c \in Nat
    BY <1>1, <1>10
<1>13. SUFFICES
          /\ to1 # 0 =>
                /\ to1 \in Around(r) /\ to1 \notin OpenScopes'
                /\ \A t \in Around(r) :
                      /\ t = to1 => AcceptsRef(t, r)
                      /\ t > to1 => ~ AcceptsRef(t, r)
          /\ to1 = 0 =>
                /\ \A s \in DOMAIN scopes :
                      r \in left'[s] <=> /\ s \in Around(r) /\ s \in OpenScopes'
                                         /\ \A t \in Around(r) : t \in OpenScopes' => t <= s
                /\ \A s \in Around(r) : s \notin OpenScopes' => ~ AcceptsRef(s, r)
          /\ \A s \in DOMAIN scopes : s \notin OpenScopes' =>
                (r \in through'[s] <=> s \in Around(r) /\ to1 < s)
          /\ \A s \in DOMAIN scopes : r \in left'[s] => to1 = 0
    BY <1>1, <1>7, <1>8, <1>13 DEF IsPlaced, IsNearest, IsWaiting, IsThrough, IsLeft
<1>14. to # 0 =>
          /\ to \in Around(r) /\ to \notin OpenScopes
          /\ \A t \in Around(r) :
                /\ t = to => AcceptsRef(t, r)
                /\ t > to => ~ AcceptsRef(t, r)
    BY <1>11, <1>12 DEF IsNearest
<1>15. to = 0 =>
          /\ \A s \in DOMAIN scopes :
                r \in left[s] <=> /\ s \in Around(r) /\ s \in OpenScopes
                                  /\ \A t \in Around(r) : t \in OpenScopes => t <= s
          /\ \A s \in Around(r) : s \notin OpenScopes => ~ AcceptsRef(s, r)
    BY <1>11 DEF IsWaiting
<1>16. /\ \A s \in DOMAIN scopes : s \notin OpenScopes =>
              (r \in through[s] <=> s \in Around(r) /\ to < s)
       /\ \A s \in DOMAIN scopes : r \in left[s] => to = 0
    BY <1>11 DEF IsThrough, IsLeft
<1>17. CASE c \notin Around(r)
    <2>1. r \notin left[c]
        BY <1>1, <1>15, <1>16, <1>17
    <2>2. r \notin Rest(c) /\ to1 = to
        BY <1>6, <1>9, <2>1
    <2>3. \A s \in DOMAIN scopes : r \in left'[s] <=> r \in left[s]
        BY <1>1, <2>1, <2>2
    <2>4. \A t \in Around(r) : t \in OpenScopes' <=> t \in OpenScopes
        BY <1>2, <1>17
    <2>5. \A s \in DOMAIN scopes : s \notin OpenScopes' =>
              (r \in through'[s] <=> s \in Around(r) /\ to1 < s)
        BY <1>1, <1>2, <1>16, <1>17, <2>2
    <2> HIDE DEF to, to1
    <2> QED BY <1>14, <1>15, <1>16, <2>2, <2>3, <2>4, <2>5
<1>18. CASE c \in Around(r) /\ to # 0
    <2>1. \A s \in DOMAIN scopes : r \notin left[s]
        BY <1>16, <1>18
    <2>2. r \notin Rest(c) /\ to1 = to
        BY <1>1, <1>6, <1>9, <2>1
    <2>3. \A s \in DOMAIN scopes : r \notin left'[s]
        BY <1>1, <2>1, <2>2
    <2>4. ~ (to < c)
        BY <1>3, <1>10, <1>12, <1>14, <1>18
    <2>5. \A s \in DOMAIN scopes : s \notin OpenScopes' =>
              (r \in through'[s] <=> s \in Around(r) /\ to1 < s)
        BY <1>1, <1>2, <1>16, <2>2, <2>4
    <2> HIDE DEF to, to1
    <2> QED BY <1>2, <1>14, <1>18, <2>2, <2>3, <2>5
<1>19. CASE c \in Around(r) /\ to = 0
    <2>1. r \in left[c]
        BY <1>1, <1>3, <1>15, <1>19
    <2>2. \A s \in DOMAIN scopes : s # c => r \notin left[s]
        BY <1>3, <1>10, <1>12, <1>15, <1>19
    <2>3. \A t \in Around(r) : t \notin OpenScopes => t > c
        BY <1>3, <1>10, <1>12, <1>19
    <2>4. CASE AcceptsRef(c, r)
        <3>1. to1 = c /\ r \notin Rest(c)
            BY <1>6, <1>9, <2>1, <2>4
        <3>2. \A s \in DOMAIN scopes : r \notin left'[s]
            BY <1>1, <2>2, <3>1
        <3>3. \A t \in Around(r) : t > c => ~ AcceptsRef(t, r)
            BY <1>3, <1>10, <1>12, <1>15, <1>19
        <3> HIDE DEF to, to1
        <3>4. \A s \in DOMAIN scopes : s \notin OpenScopes' =>
                  (r \in through'[s] <=> s \in Around(r) /\ to1 < s)
            <4>1. r \notin through'[c] /\ ~ (to1 < c)
                <5>1. through'[c] = Rest(c)
                    BY <1>1
                <5>2. ~ (to1 < c)
                    BY <1>12, <3>1
                <5> QED BY <3>1, <5>1, <5>2
            <4>2. ASSUME NEW s \in DOMAIN scopes, s \notin OpenScopes
                  PROVE  r \in through'[s] <=> s \in Around(r) /\ to1 < s
                <5>1. s # c /\ s \in Nat /\ 0 < s
                    BY <1>3, <1>10, <4>2
                <5>2. r \in through'[s] <=> s \in Around(r)
                    BY <1>1, <1>16, <1>19, <4>2, <5>1
                <5> QED BY <2>3, <3>1, <4>2, <5>1, <5>2
            <4> QED BY <1>2, <4>1, <4>2
        <3> QED BY <1>2, <1>12, <1>19, <2>4, <3>1, <3>2, <3>3, <3>4
    <2>5. CASE ~ AcceptsRef(c, r)
        <3>1. to1 = 0 /\ r \in Rest(c)
            BY <1>6, <1>9, <1>19, <2>1, <2>5
        <3>2. \A s \in DOMAIN scopes : r \in left'[s] <=> s = up /\ up # c
            BY <1>1, <2>2, <3>1
        <3>3. OpenScopes' \subseteq Around(r)
            BY <1>2, <1>3, <1>10, <1>19
        <3>4. ASSUME NEW s \in DOMAIN scopes
              PROVE  r \in left'[s] <=> /\ s \in Around(r) /\ s \in OpenScopes'
                                        /\ \A t \in Around(r) : t \in OpenScopes' => t <= s
            <4>1. s \in Nat /\ s # 0
                BY <1>10
            <4>2. \A t \in OpenScopes' : t \in Nat
                BY <1>10, <3>3
            <4>3. CASE up = 0
                BY <1>4, <3>2, <4>1, <4>3
            <4>4. CASE up # 0
                BY <1>4, <3>2, <3>3, <4>1, <4>2, <4>4
            <4> QED BY <4>3, <4>4
        <3>5. \A s \in Around(r) : s \notin OpenScopes' => ~ AcceptsRef(s, r)
            BY <1>2, <1>15, <1>19, <2>5
        <3> HIDE DEF to, to1
        <3>6. \A s \in DOMAIN scopes : s \notin OpenScopes' =>
                  (r \in through'[s] <=> s \in Around(r) /\ to1 < s)
            <4>1. r \in through'[c] /\ to1 < c
                <5>1. through'[c] = Rest(c)
                    BY <1>1
                <5>2. to1 < c
                    BY <1>12, <3>1
                <5> QED BY <3>1, <5>1, <5>2
            <4>2. \A s \in DOMAIN scopes : s # c => through'[s] = through[s]
                BY <1>1
            <4> QED BY <1>2, <1>16, <1>19, <3>1, <4>1, <4>2
        <3> QED BY <3>1, <3>4, <3>5, <3>6
    <2> QED BY <2>4, <2>5
<1> QED BY <1>17, <1>18, <1>19

LEMMA GlobalsResolution ==
    ASSUME Base, Resolution, NEW n \in Names, AddGlobals(n)
    PROVE  Resolution'
<1>1. /\ current = 0 /\ current' = 0 /\ references' = Resolved(Unresolved(n), 1)
      /\ 1 \in DOMAIN scopes
      /\ \A s \in DOMAIN scopes :
            through'[s] = IF s = 1 THEN through[1] \ Unresolved(n) ELSE through[s]
      /\ definitions \subseteq definitions'
      /\ \A d \in definitions' \ definitions : d.scope = 1 /\ d.name = n
      /\ UNCHANGED <<scopes, left>>
    BY GlobalsFacts
<1>2. OpenScopes = {} /\ OpenScopes' = {}
    BY <1>1 DEF OpenScopes, Chain
<1>3. DOMAIN references' = DOMAIN references
    BY <1>1, ResolvedFacts
<1> SUFFICES ASSUME NEW r \in DOMAIN references
             PROVE  IsPlaced(r)'
    BY <1>3 DEF Resolution
<1>4. /\ references'[r].resolved = IF r \in Unresolved(n) THEN 1 ELSE references[r].resolved
      /\ references'[r].from = references[r].from /\ references'[r].name = references[r].name
      /\ references'[r].type = references[r].type /\ references'[r].value = references[r].value
      /\ references'[r].early = references[r].early
    <2> DEFINE taken == Unresolved(n)
    <2>1. references' = Resolved(taken, 1) /\ 1 \in DOMAIN scopes
        BY <1>1
    <2> HIDE DEF taken
    <2>2. /\ references'[r].resolved = IF r \in taken THEN 1 ELSE references[r].resolved
          /\ references'[r].from = references[r].from /\ references'[r].name = references[r].name
          /\ references'[r].type = references[r].type /\ references'[r].value = references[r].value
          /\ references'[r].early = references[r].early
        BY <2>1, ResolvedFacts
    <2> QED BY <2>2 DEF taken
<1>5. Around(r)' = Around(r)
    BY <1>1, <1>4 DEF Around, Chain
<1>6. ASSUME NEW t, t # 1 \/ references[r].name # n
      PROVE  AcceptsRef(t, r)' <=> AcceptsRef(t, r)
    <2>1. \A d \in definitions' \ definitions : d.scope = t => d.name # references[r].name
        BY <1>1, <1>6
    <2> QED BY <1>1, <1>4, <2>1, AcceptsKept
<1>7. /\ Around(r) \subseteq DOMAIN scopes /\ 1 \in Around(r)
      /\ DOMAIN scopes \subseteq Nat \ {0} /\ references[r].resolved \in Nat
    BY AroundFacts
<1>8. IsNearest(r) /\ IsWaiting(r) /\ IsThrough(r) /\ IsLeft(r)
    BY DEF Resolution, IsPlaced
<1> DEFINE to  == references[r].resolved
           to1 == references'[r].resolved
<1>9. SUFFICES
          /\ to1 # 0 =>
                to1 \in Around(r) /\ \A t \in Around(r) : t > to1 => ~ AcceptsRef(t, r)'
          /\ to1 = 0 =>
                /\ \A s \in DOMAIN scopes : r \notin left[s]
                /\ \A s \in Around(r) : ~ AcceptsRef(s, r)'
          /\ \A s \in DOMAIN scopes :
                r \in through'[s] <=> s \in Around(r) /\ to1 < s
          /\ \A s \in DOMAIN scopes : r \in left[s] => to1 = 0
    BY <1>1, <1>2, <1>5, <1>9 DEF IsPlaced, IsNearest, IsWaiting, IsThrough, IsLeft
<1>10. /\ to # 0 => to \in Around(r) /\ \A t \in Around(r) : t > to => ~ AcceptsRef(t, r)
       /\ to = 0 => /\ \A s \in DOMAIN scopes : r \notin left[s]
                    /\ \A s \in Around(r) : ~ AcceptsRef(s, r)
       /\ \A s \in DOMAIN scopes : r \in through[s] <=> s \in Around(r) /\ to < s
       /\ \A s \in DOMAIN scopes : r \in left[s] => to = 0
    BY <1>2, <1>8 DEF IsNearest, IsWaiting, IsThrough, IsLeft
<1>11. r \in Unresolved(n) <=> to = 0 /\ references[r].name = n
    <2>1. r \in through[1] <=> to < 1
        BY <1>1, <1>7, <1>10
    <2> QED BY <1>7, <2>1 DEF Unresolved
<1>12. CASE r \in Unresolved(n)
    <2>1. to1 = 1 /\ to = 0
        BY <1>4, <1>11, <1>12
    <2>2. \A t \in Around(r) : t > 1 => ~ AcceptsRef(t, r)'
        BY <1>6, <1>7, <1>10, <2>1
    <2>3. r \notin through'[1]
        BY <1>1, <1>12
    <2>4. \A s \in DOMAIN scopes : s # 1 => through'[s] = through[s]
        BY <1>1
    <2> HIDE DEF to, to1
    <2>5. \A s \in DOMAIN scopes : r \in through'[s] <=> s \in Around(r) /\ to1 < s
        BY <1>7, <1>10, <2>1, <2>3, <2>4
    <2> QED BY <1>7, <1>10, <2>1, <2>2, <2>5
<1>13. CASE r \notin Unresolved(n)
    <2>1. to1 = to
        BY <1>4, <1>13
    <2>2. \A s \in DOMAIN scopes : r \in through'[s] <=> r \in through[s]
        BY <1>1, <1>13
    <2>3. to # 0 => \A t \in Around(r) : t > to => ~ AcceptsRef(t, r)'
        <3>1. to # 0 => \A t \in Around(r) : t > to => t # 1
            BY <1>7
        <3> QED BY <1>6, <1>10, <3>1
    <2>4. to = 0 => \A s \in Around(r) : ~ AcceptsRef(s, r)'
        BY <1>6, <1>10, <1>11, <1>13
    <2> HIDE DEF to, to1
    <2> QED BY <1>10, <2>1, <2>2, <2>3, <2>4
<1> QED BY <1>12, <1>13

LEMMA ResolutionStep ==
    ASSUME Base, Resolution, [Next]_vars
    PROVE  Resolution'
<1>1. CASE UNCHANGED vars
    <2>1. UNCHANGED <<scopes, current, definitions, references, left, through>>
        BY <1>1 DEF vars
    <2> SUFFICES ASSUME NEW r \in DOMAIN references
                 PROVE  IsPlaced(r)'
        BY <2>1 DEF Resolution
    <2>2. \A t : AcceptsRef(t, r)' <=> AcceptsRef(t, r)
        BY <2>1, AcceptsKept
    <2>3. Around(r)' = Around(r) /\ OpenScopes' = OpenScopes
        BY <2>1 DEF Around, OpenScopes, Chain
    <2>4. IsNearest(r) /\ IsWaiting(r) /\ IsThrough(r) /\ IsLeft(r)
        BY DEF Resolution, IsPlaced
    <2>5. IsNearest(r)' /\ IsWaiting(r)'
        BY <2>1, <2>2, <2>3, <2>4 DEF IsNearest, IsWaiting
    <2>6. IsThrough(r)' /\ IsLeft(r)'
        BY <2>1, <2>3, <2>4 DEF IsThrough, IsLeft
    <2> QED BY <2>5, <2>6 DEF IsPlaced
<1>2. ASSUME NEW s, NEW ref, Collects(s, ref)
      PROVE  Resolution'
    BY <1>2, CollectsResolution
<1>3. ASSUME NEW n \in Names, AddGlobals(n)
      PROVE  Resolution'
    BY <1>3, GlobalsResolution
<1>4. Grows \/ Close => Resolution'
    BY GrowsResolution, CloseResolution
<1>5. \/ Grows \/ Close \/ UNCHANGED vars
      \/ \E s, ref : Collects(s, ref)
      \/ \E n \in Names : AddGlobals(n)
    BY StepKinds
<1> QED BY <1>1, <1>2, <1>3, <1>4, <1>5, Zenon

LEMMA ResolutionHolds == Spec => [](Base /\ Resolution)
<1>1. Init => Base /\ Resolution
    BY BaseInit, FirstResolution
<1>2. (Base /\ Resolution) /\ [Next]_vars => (Base /\ Resolution)'
    BY BaseStep, ResolutionStep
<1> QED BY <1>1, <1>2, PTL DEF Spec

----------------------------------------------------------------------------
LEMMA PlacedIsNearest ==
    ASSUME Base, Resolution
    PROVE  ResolvesToNearest
<1> SUFFICES ASSUME NEW r \in DOMAIN references, references[r].resolved # 0
             PROVE  /\ references[r].resolved \in Chain(references[r].from) \ Chain(current)
                    /\ current # 0 => Accepts(references[r].resolved, references[r])
                    /\ \A t \in Chain(references[r].from) :
                          t > references[r].resolved => ~ Accepts(t, references[r])
    BY DEF ResolvesToNearest
<1> QED BY DEF Resolution, IsPlaced, IsNearest, Around, OpenScopes, AcceptsRef

LEMMA PlacedIsNotLost ==
    ASSUME Base, Resolution
    PROVE  NothingIsLost
<1> SUFFICES ASSUME NEW r \in DOMAIN references, references[r].resolved = 0
             PROVE  /\ \A s \in DOMAIN scopes :
                          r \in left[s] <=>
                              /\ Around(r) \cap OpenScopes # {}
                              /\ s = Innermost(Around(r) \cap OpenScopes)
                    /\ \A s \in Around(r) \ (Around(r) \cap OpenScopes) : ~ AcceptsRef(s, r)
    BY DEF NothingIsLost, Around, OpenScopes, AcceptsRef
<1> DEFINE waiting == Around(r) \cap OpenScopes
<1>1. /\ \A s \in DOMAIN scopes : r \in left[s] <=> s \in waiting /\ \A t \in waiting : t <= s
      /\ \A s \in Around(r) : s \notin OpenScopes => ~ AcceptsRef(s, r)
    BY DEF Resolution, IsPlaced, IsWaiting
<1>2. waiting \in SUBSET DOMAIN scopes
    BY AroundFacts
<1> HIDE DEF waiting
<1>3. ASSUME NEW s \in DOMAIN scopes
      PROVE  r \in left[s] <=> waiting # {} /\ s = Innermost(waiting)
    <2>1. r \in left[s] => waiting # {} /\ s = Innermost(waiting)
        BY <1>1, <1>2, InnermostIsOne DEF Base
    <2>2. waiting # {} /\ s = Innermost(waiting) => r \in left[s]
        BY <1>1, <1>2, InnermostIsIn DEF Base
    <2> QED BY <2>1, <2>2
<1> QED BY <1>1, <1>3 DEF waiting

LEMMA PlacedIsThrough ==
    ASSUME Base, Resolution
    PROVE  ThroughIsOutside
<1> SUFFICES ASSUME NEW s \in DOMAIN scopes \ Chain(current)
             PROVE  through[s] = {r \in DOMAIN references :
                        s \in Chain(references[r].from) /\ references[r].resolved < s}
    BY DEF ThroughIsOutside
<1>1. through[s] \subseteq DOMAIN references
    BY DEF Base, ReferencesOK
<1>2. \A r \in DOMAIN references : r \in through[s] <=>
          s \in Chain(references[r].from) /\ references[r].resolved < s
    BY DEF Resolution, IsPlaced, IsThrough, Around, OpenScopes
<1> QED BY <1>1, <1>2

(* A resolved reference is the nearest possible scope's.                   *)
THEOREM NearestAlways == Spec => []ResolvesToNearest
BY ResolutionHolds, PlacedIsNearest, PTL

(* An unresolved reference waits in exactly one open scope, or none.       *)
THEOREM LostNever == Spec => []NothingIsLost
BY ResolutionHolds, PlacedIsNotLost, PTL

(* A closed scope's through is what comes from within and goes beyond.     *)
THEOREM ThroughAlways == Spec => []ThroughIsOutside
BY ResolutionHolds, PlacedIsThrough, PTL

----------------------------------------------------------------------------
LEMMA SettledStep ==
    ASSUME Base, Resolution, [Next]_vars
    PROVE  /\ \A r \in DOMAIN references :
                 references[r].resolved # 0 => references'[r].resolved = references[r].resolved
           /\ \A d \in definitions' \ definitions :
                 Open(d.scope) \/ d.scope > Len(scopes) \/ current = 0
<1> DEFINE Settled ==
              /\ \A r \in DOMAIN references :
                    references[r].resolved # 0 => references'[r].resolved = references[r].resolved
              /\ \A d \in definitions' \ definitions :
                    Open(d.scope) \/ d.scope > Len(scopes) \/ current = 0
<1>1. Grows => Settled
    <2> SUFFICES ASSUME Grows PROVE Settled
        OBVIOUS
    <2>1. references' = references
        BY DEF Grows, ScopesGrow
    <2>2. ASSUME NEW d \in definitions' \ definitions, d.scope \notin Chain(current)
          PROVE  d.scope > Len(scopes)
        <3>1. d.scope \in DOMAIN scopes' \ DOMAIN scopes
            BY <2>2 DEF Grows, ScopesGrow
        <3>2. DOMAIN scopes' = 1..Len(scopes') /\ Len(scopes') \in Nat
            <4>1. scopes' \in Seq(ScopeRecords)
                BY DEF Grows, TreeOK
            <4> QED BY <4>1, LenProperties
        <3>3. DOMAIN scopes = 1..Len(scopes) /\ Len(scopes) \in Nat
            BY ScopesAreNumbers DEF Base
        <3> QED BY <3>1, <3>2, <3>3
    <2> QED BY <2>1, <2>2 DEF Open
<1>2. ASSUME NEW s, NEW ref, Collects(s, ref)
      PROVE  Settled
    <2>1. \A r \in 1..Len(references) : references'[r] = references[r]
        BY <1>2, AppendProperties DEF Collects, Base, ReferencesOK
    <2> QED BY <1>2, <2>1, ListDomains DEF Collects
<1>3. Close => Settled
    <2> SUFFICES ASSUME Close PROVE Settled
        OBVIOUS
    <2> DEFINE taken == left[current] \ Rest(current)
    <2>1. references' = Resolved(taken, current) /\ current \in DOMAIN scopes
          /\ UNCHANGED definitions
        BY CloseFacts
    <2>2. \A r \in DOMAIN references : r \in taken => references[r].resolved = 0
        BY <2>1 DEF Resolution, IsPlaced, IsLeft
    <2> HIDE DEF taken
    <2> QED BY <2>1, <2>2, ResolvedFacts
<1>4. ASSUME NEW n \in Names, AddGlobals(n)
      PROVE  Settled
    <2> DEFINE taken == Unresolved(n)
    <2>1. references' = Resolved(taken, 1) /\ 1 \in DOMAIN scopes /\ current = 0
        BY <1>4, GlobalsFacts
    <2>2. ASSUME NEW r \in DOMAIN references, r \in taken
          PROVE  references[r].resolved = 0
        <3>1. IsThrough(r) /\ r \in through[1] /\ 1 \notin OpenScopes
            BY <2>1, <2>2 DEF Resolution, IsPlaced, OpenScopes, Chain, Unresolved
        <3>2. references[r].resolved < 1
            BY <2>1, <3>1 DEF IsThrough
        <3> QED BY <3>2, AroundFacts
    <2> HIDE DEF taken
    <2> QED BY <2>1, <2>2, ResolvedFacts
<1>5. UNCHANGED vars => Settled
    BY DEF vars
<1>6. \/ Grows \/ Close \/ UNCHANGED vars
      \/ \E s, ref : Collects(s, ref)
      \/ \E n \in Names : AddGlobals(n)
    BY StepKinds
<1> QED BY <1>1, <1>2, <1>3, <1>4, <1>5, <1>6, Zenon

(* No step takes a resolution back or defines in a closed scope, but for   *)
(* the globals ESLint adds.                                                *)
THEOREM SettledAlways == Spec => SettledForGood
<1>1. Base /\ Resolution /\ [Next]_vars =>
          [/\ \A r \in DOMAIN references :
                 references[r].resolved # 0 => references'[r].resolved = references[r].resolved
           /\ \A d \in definitions' \ definitions :
                 Open(d.scope) \/ d.scope > Len(scopes) \/ current = 0]_vars
    BY SettledStep
<1> QED BY <1>1, ResolutionHolds, PTL DEF Spec, SettledForGood

----------------------------------------------------------------------------
Undeclared ==
    {q \in DOMAIN references :
        /\ references[q].maybeImplicitGlobal
        /\ references[q].resolved = 0
        /\ ~ Variable(1, references[q].name)}

LEMMA CloseImplicit ==
    ASSUME Base, Resolution, Close, current' = 0
    PROVE  ImplicitIsUndeclared'
<1> DEFINE taken == left[current] \ Rest(current)
           kept  == {q \in left[1] : /\ references[q].maybeImplicitGlobal
                                     /\ ~ Variable(1, references[q].name)}
<1>1. /\ current = 1 /\ references' = Resolved(taken, 1) /\ 1 \in DOMAIN scopes
      /\ UNCHANGED <<scopes, definitions>>
    BY CloseFacts, ChainOfScope DEF Base
<1>2. implicit' = {references[q].name : q \in kept}
    BY <1>1 DEF Close, Closes, ImplicitGlobals
<1>3. \A n : Variable(1, n)' <=> Variable(1, n)
    BY <1>1 DEF Variable
<1> HIDE DEF taken
<1>4. /\ DOMAIN references' = DOMAIN references
      /\ \A q \in DOMAIN references :
            /\ references'[q].name = references[q].name
            /\ references'[q].maybeImplicitGlobal = references[q].maybeImplicitGlobal
            /\ references'[q].resolved = IF q \in taken THEN 1 ELSE references[q].resolved
    BY <1>1, ResolvedFacts
<1>5. ASSUME NEW q \in DOMAIN references, ~ Variable(1, references[q].name)
      PROVE  q \in left[1] <=> references'[q].resolved = 0
    <2>1. IsWaiting(q) /\ IsLeft(q)
        BY DEF Resolution, IsPlaced
    <2>2. q \in left[1] => references[q].resolved = 0
        BY <1>1, <2>1 DEF IsLeft
    <2>3. references[q].resolved = 0 => q \in left[1]
        <3>1. 1 \in Around(q) /\ 1 \in OpenScopes /\ \A t \in OpenScopes : t <= 1
            BY <1>1, AroundFacts, OpenFacts
        <3> QED BY <1>1, <2>1, <3>1 DEF IsWaiting
    <2>4. q \in left[1] => q \notin taken
        BY <1>1, <1>5 DEF taken, Rest, Accepts
    <2>5. q \in taken => q \in left[1]
        BY <1>1 DEF taken
    <2> QED BY <1>4, <2>2, <2>3, <2>4, <2>5
<1>6. left[1] \subseteq DOMAIN references
    BY <1>1 DEF Base, ReferencesOK
<1>7. Undeclared' = kept
    BY <1>3, <1>4, <1>5, <1>6 DEF Undeclared
<1>8. \A q \in kept : references'[q].name = references[q].name
    BY <1>4, <1>6
<1> HIDE DEF kept
<1>9. implicit' = {references'[q].name : q \in Undeclared'}
    BY <1>2, <1>7, <1>8
<1> QED BY <1>9 DEF ImplicitIsUndeclared, Undeclared

LEMMA GlobalsImplicit ==
    ASSUME Base, Resolution, ImplicitIsUndeclared, NEW n \in Names, AddGlobals(n)
    PROVE  ImplicitIsUndeclared'
<1> DEFINE taken == Unresolved(n)
<1>1. /\ current = 0 /\ references' = Resolved(taken, 1) /\ 1 \in DOMAIN scopes
      /\ implicit' = implicit \ {n}
    BY GlobalsFacts
<1>2. \A m : Variable(1, m)' <=> Variable(1, m) \/ m = n
    <2>1. /\ definitions \subseteq definitions'
          /\ \A d \in definitions' : d \in definitions \/ (d.scope = 1 /\ d.name = n)
        BY GlobalsFacts
    <2>2. \E d \in definitions' : d.scope = 1 /\ d.name = n
        <3>1. CASE Variable(1, n)
            BY <2>1, <3>1 DEF Variable
        <3>2. CASE ~ Variable(1, n)
            <4> DEFINE new == [scope |-> 1, name |-> n, def |-> "none", inBody |-> TRUE]
            <4>1. new \in definitions'
                BY <3>2 DEF AddGlobals
            <4> QED BY <4>1
        <3> QED BY <3>1, <3>2
    <2> QED BY <2>1, <2>2 DEF Variable
<1>3. ASSUME NEW q \in DOMAIN references
      PROVE  q \in taken <=> references[q].resolved = 0 /\ references[q].name = n
    <2>1. IsThrough(q) /\ 1 \notin OpenScopes
        BY <1>1 DEF Resolution, IsPlaced, OpenScopes, Chain
    <2>2. 1 \in Around(q) /\ references[q].resolved \in Nat
        BY AroundFacts
    <2>3. q \in through[1] <=> references[q].resolved = 0
        BY <1>1, <2>1, <2>2 DEF IsThrough
    <2> QED BY <2>3 DEF Unresolved
<1> HIDE DEF taken
<1>4. /\ DOMAIN references' = DOMAIN references
      /\ \A q \in DOMAIN references :
            /\ references'[q].name = references[q].name
            /\ references'[q].maybeImplicitGlobal = references[q].maybeImplicitGlobal
            /\ references'[q].resolved = IF q \in taken THEN 1 ELSE references[q].resolved
    BY <1>1, ResolvedFacts
<1>5. \A q : q \in Undeclared' <=> q \in Undeclared /\ references[q].name # n
    BY <1>2, <1>3, <1>4 DEF Undeclared
<1>6. \A q \in Undeclared : references'[q].name = references[q].name
    BY <1>4 DEF Undeclared
<1>7. implicit = {references[q].name : q \in Undeclared}
    BY <1>1 DEF ImplicitIsUndeclared, Undeclared
<1>8. implicit' = {references'[q].name : q \in Undeclared'}
    BY <1>1, <1>5, <1>6, <1>7
<1> QED BY <1>8 DEF ImplicitIsUndeclared, Undeclared

LEMMA ImplicitStep ==
    ASSUME Base, Resolution, ImplicitIsUndeclared, [Next]_vars
    PROVE  ImplicitIsUndeclared'
<1>1. Grows => ImplicitIsUndeclared'
    BY DEF Grows, ScopesGrow, ImplicitIsUndeclared
<1>2. ASSUME NEW s, NEW ref, Collects(s, ref)
      PROVE  ImplicitIsUndeclared'
    BY <1>2 DEF Collects, ImplicitIsUndeclared
<1>3. Close => ImplicitIsUndeclared'
    BY CloseImplicit DEF ImplicitIsUndeclared
<1>4. ASSUME NEW n \in Names, AddGlobals(n)
      PROVE  ImplicitIsUndeclared'
    BY <1>4, GlobalsImplicit
<1>5. UNCHANGED vars => ImplicitIsUndeclared'
    BY DEF ImplicitIsUndeclared, Variable, vars
<1>6. \/ Grows \/ Close \/ UNCHANGED vars
      \/ \E s, ref : Collects(s, ref)
      \/ \E n \in Names : AddGlobals(n)
    BY StepKinds
<1> QED BY <1>1, <1>2, <1>3, <1>4, <1>5, <1>6, Zenon

(* The implicit globals are the sloppily assigned names nobody declares.   *)
THEOREM ImplicitAlways == Spec => []ImplicitIsUndeclared
<1>1. Init => ImplicitIsUndeclared
    <2>1. Init => current # 0
        <3>1. Init => current = Len(scopes)
            BY DEF Init
        <3> QED BY <3>1, FirstScopes
    <2> QED BY <2>1 DEF ImplicitIsUndeclared
<1>2. (Base /\ Resolution) /\ ImplicitIsUndeclared /\ [Next]_vars => ImplicitIsUndeclared'
    BY ImplicitStep
<1> QED BY <1>1, <1>2, ResolutionHolds, PTL DEF Spec

----------------------------------------------------------------------------
(* The reference a JSX element makes can be resolved where it is from.     *)
OfPragma(r) ==
    LET ref == references[r] IN
    /\ ref.name = Pragma /\ ref.value /\ ref.from # 0
    /\ Variable(ref.from, Pragma)
    /\ ref.from \in ref.early => \E d \in Defs(ref.from, Pragma) : ~ d.inBody

PragmaMade == referencedJsx => \E r \in DOMAIN references : OfPragma(r)

LEMMA PragmaStep ==
    ASSUME Base, PragmaMade, [Next]_vars
    PROVE  PragmaMade'
<1>1. ASSUME NEW r \in DOMAIN references, OfPragma(r),
             r \in DOMAIN references',
             references'[r].name = references[r].name, references'[r].value = references[r].value,
             references'[r].from = references[r].from, references'[r].early = references[r].early,
             definitions \subseteq definitions'
      PROVE  OfPragma(r)'
    BY <1>1 DEF OfPragma, Variable, Defs
<1>2. UNCHANGED referencedJsx /\ references' = references /\ definitions \subseteq definitions'
          => PragmaMade'
    BY <1>1 DEF PragmaMade
<1>3. Grows => PragmaMade'
    BY <1>2 DEF Grows, ScopesGrow
<1>4. ASSUME NEW s, NEW ref, Collects(s, ref)
      PROVE  /\ \A r \in DOMAIN references : r \in DOMAIN references' /\ references'[r] = references[r]
             /\ Len(references) + 1 \in DOMAIN references'
             /\ references'[Len(references) + 1] = ref
             /\ definitions' = definitions
    <2>1. /\ Len(references') = Len(references) + 1
          /\ \A q \in 1..Len(references) : references'[q] = references[q]
          /\ references'[Len(references) + 1] = ref /\ references' \in Seq(ReferenceRecords)
        BY <1>4, AppendProperties DEF Collects, Base, ReferencesOK
    <2>2. DOMAIN references = 1..Len(references) /\ Len(references) \in Nat
          /\ DOMAIN references' = 1..(Len(references) + 1)
        BY <2>1, ListDomains, LenProperties
    <2> QED BY <1>4, <2>1, <2>2 DEF Collects
<1>5. ASSUME NEW s, NEW ref, Collects(s, ref), UNCHANGED referencedJsx
      PROVE  PragmaMade'
    <2>1. ASSUME referencedJsx
          PROVE  \E r \in DOMAIN references' : OfPragma(r)'
        <3>1. PICK r \in DOMAIN references : OfPragma(r)
            BY <2>1 DEF PragmaMade
        <3> QED BY <1>1, <1>4, <1>5, <3>1
    <2> QED BY <1>5, <2>1 DEF PragmaMade
<1>6. ASSUME NEW s, NEW new, new \in DOMAIN references', definitions' = definitions,
             references'[new].name = Pragma, references'[new].value, references'[new].from = s,
             s # 0, Variable(s, Pragma),
             s \in references'[new].early => \E d \in Defs(s, Pragma) : ~ d.inBody
      PROVE  \E r \in DOMAIN references' : OfPragma(r)'
    <2>1. OfPragma(new)'
        BY <1>6 DEF OfPragma, Variable, Defs
    <2> QED BY <1>6, <2>1
<1>7. JSXElement => PragmaMade'
    <2> SUFFICES ASSUME JSXElement PROVE PragmaMade'
        OBVIOUS
    <2> DEFINE s   == PragmaScope
               ref == Reference(s, Pragma, FALSE, TRUE, FALSE, PragmaEarly(s))
               new == Len(references) + 1
    <2>1. Collects(s, ref) /\ Variable(s, Pragma)
        BY JSXCollects
    <2>2. /\ ref.name = Pragma /\ ref.value = TRUE /\ ref.from = s
          /\ ref.early = PragmaEarly(s)
        BY DEF Reference
    <2>3. s \in DOMAIN scopes /\ s # 0
        BY <2>1, ListDomains, ScopesAreNumbers DEF Collects, Base
    <2>4. s \in PragmaEarly(s) => \E d \in Defs(s, Pragma) : ~ d.inBody
        <3>1. s \notin scopes[s].above
            BY <2>3, ScopesAreNumbers DEF Base, TreeOK, Placed
        <3> HIDE DEF s
        <3> QED BY <3>1 DEF PragmaEarly, EarlyIn
    <2> HIDE DEF s, ref
    <2>5. new \in DOMAIN references' /\ references'[new] = ref /\ definitions' = definitions
        BY <1>4, <2>1
    <2> HIDE DEF new
    <2>6. \E r \in DOMAIN references' : OfPragma(r)'
        BY <1>6, <2>1, <2>2, <2>3, <2>4, <2>5
    <2> QED BY <2>6 DEF PragmaMade
<1>8. ASSUME NEW R, NEW s \in DOMAIN scopes, references' = Resolved(R, s),
             definitions \subseteq definitions', UNCHANGED referencedJsx
      PROVE  PragmaMade'
    <2>1. ASSUME referencedJsx
          PROVE  \E r \in DOMAIN references' : OfPragma(r)'
        <3>1. PICK r \in DOMAIN references : OfPragma(r)
            BY <2>1 DEF PragmaMade
        <3>2. /\ r \in DOMAIN references' /\ references'[r].name = references[r].name
              /\ references'[r].value = references[r].value
              /\ references'[r].from = references[r].from
              /\ references'[r].early = references[r].early
            BY <1>8, ResolvedFacts
        <3> QED BY <1>1, <1>8, <3>1, <3>2
    <2> QED BY <1>8, <2>1 DEF PragmaMade
<1>9. Close => PragmaMade'
    <2> SUFFICES ASSUME Close PROVE PragmaMade'
        OBVIOUS
    <2> DEFINE taken == left[current] \ Rest(current)
    <2>1. references' = Resolved(taken, current) /\ current \in DOMAIN scopes
          /\ UNCHANGED <<definitions, referencedJsx>>
        BY CloseFacts
    <2> HIDE DEF taken
    <2> QED BY <1>8, <2>1
<1>10. ASSUME NEW n \in Names, AddGlobals(n)
       PROVE  PragmaMade'
    <2> DEFINE taken == Unresolved(n)
    <2>1. references' = Resolved(taken, 1) /\ 1 \in DOMAIN scopes
          /\ definitions \subseteq definitions' /\ UNCHANGED referencedJsx
        BY <1>10, GlobalsFacts
    <2> HIDE DEF taken
    <2> QED BY <1>8, <2>1
<1>11. UNCHANGED vars => PragmaMade'
    BY <1>2 DEF vars
<1>12. ASSUME NEW s, NEW ref, Collects(s, ref), UNCHANGED referencedJsx \/ JSXElement
       PROVE  PragmaMade'
    BY <1>5, <1>7, <1>12
<1>13. \/ Grows \/ Close \/ UNCHANGED vars
       \/ \E s, ref : Collects(s, ref) /\ (UNCHANGED referencedJsx \/ JSXElement)
       \/ \E n \in Names : AddGlobals(n)
    BY StepKinds
<1> QED BY <1>3, <1>9, <1>10, <1>11, <1>12, <1>13, Zenon

LEMMA PragmaResolved ==
    ASSUME Base, Resolution, PragmaMade
    PROVE  PragmaIsUsed
<1> SUFFICES ASSUME referencedJsx, current = 0,
                    \A d \in definitions : d.name = Pragma => d.def # "type"
             PROVE  \E r \in DOMAIN references :
                        references[r].name = Pragma /\ references[r].resolved # 0
    BY DEF PragmaIsUsed
<1>1. PICK r \in DOMAIN references : OfPragma(r)
    BY DEF PragmaMade
<1> DEFINE s == references[r].from
<1>2. scopes[s].kind # "with" /\ Variable(s, Pragma)
    BY <1>1 DEF OfPragma, Variable, Base, DefinitionsOK
<1>3. IsValueVariable(s, Pragma)
    <2>1. ~ FromLib(s, Pragma)
        BY ScopeAssumption DEF FromLib
    <2>2. \A d \in Defs(s, Pragma) : d.def \in {"value", "both"}
        BY DEF Defs, Base, DefinitionsOK, Definitions
    <2> QED BY <2>1, <2>2 DEF IsValueVariable
<1>4. IsValidResolution(s, references[r])
    BY <1>1 DEF OfPragma, IsValidResolution
<1>5. AcceptsRef(s, r)
    BY <1>1, <1>2, <1>3, <1>4 DEF AcceptsRef, Accepts, OfPragma
<1>6. s \in Around(r) /\ s \notin OpenScopes
    BY AroundFacts, OpenFacts
<1>7. references[r].resolved # 0
    BY <1>5, <1>6 DEF Resolution, IsPlaced, IsWaiting
<1> QED BY <1>1, <1>7 DEF OfPragma

(* The pragma JSX uses is referenced, unless it is only a type.            *)
THEOREM PragmaAlways == Spec => []PragmaIsUsed
<1>1. Init => PragmaMade
    BY DEF Init, PragmaMade
<1>2. (Base /\ Resolution) /\ PragmaMade /\ [Next]_vars => PragmaMade'
    BY PragmaStep
<1> QED BY <1>1, <1>2, PragmaResolved, ResolutionHolds, PTL DEF Spec
=============================================================================
