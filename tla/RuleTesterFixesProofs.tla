------------------------ MODULE RuleTesterFixesProofs ------------------------
(***************************************************************************)
(* Theorems about RuleTesterFixes, for code and fixes of any length and any*)
(* number of passes: type correctness, which fixes are left out of a pass, *)
(* and that what the fixer makes of the code, going through the fixes once,*)
(* is what comes of applying them all at once.                             *)
(***************************************************************************)
EXTENDS RuleTesterFixes, LeastNumbers, SequenceTheorems, TLAPS

Characters == Letters \cup {BOM}
Positions  == {n \in Int : n >= -1}
Fixes      == [start : Positions, end : Positions, text : Seq(Characters)]

----------------------------------------------------------------------------
(* The text, its slices and what is put together of them.                  *)

LEMMA TextIsSeq ==
    ASSUME code \in Seq(Characters)
    PROVE  Text \in Seq(Characters) /\ Len(Text) \in Nat
<1>1. CASE HasBOM(code)
    <2>1. code # <<>>
        BY <1>1 DEF HasBOM
    <2>2. Tail(code) \in Seq(Characters)
        BY <2>1, HeadTailProperties
    <2> QED BY <1>1, <2>2, LenProperties DEF Text
<1>2. CASE ~ HasBOM(code)
    BY <1>2, LenProperties DEF Text
<1> QED BY <1>1, <1>2

LEMMA SliceIsSeq ==
    ASSUME code \in Seq(Characters), NEW from \in Nat, NEW to \in Nat
    PROVE  Slice(from, to) \in Seq(Characters)
<1> DEFINE last == IF to < Len(Text) THEN to ELSE Len(Text)
<1>1. Text \in Seq(Characters) /\ Len(Text) \in Nat /\ last \in Nat /\ last <= Len(Text)
    BY TextIsSeq
<1>2. ASSUME NEW i \in (from + 1)..last
      PROVE  Text[i] \in Characters
    <2>1. i \in 1..Len(Text)
        BY <1>1
    <2> QED BY <1>1, <2>1, ElementOfSeq
<1>3. from + 1 \in Int /\ last \in Int
    BY <1>1
<1> HIDE DEF last
<1>4. SubSeq(Text, from + 1, last) \in Seq(Characters)
    BY <1>2, <1>3, SubSeqProperties
<1> QED BY <1>4 DEF Slice, last

LEMMA NotNegativeIsNat == \A n \in Int : NotNegative(n) \in Nat
BY DEF NotNegative

LEMMA OutputIsSeq ==
    ASSUME code \in Seq(Characters), output \in Seq(Characters), lastPos \in Int,
           NEW fix \in Fixes
    PROVE  OutputWith(fix) \in Seq(Characters)
<1> DEFINE before == IF RemovesBOM(fix) THEN <<>> ELSE output
           between == Slice(NotNegative(lastPos), NotNegative(fix.start))
<1>1. before \in Seq(Characters)
    BY EmptySeq
<1>2. fix.start \in Int /\ fix.text \in Seq(Characters)
    BY DEF Fixes, Positions
<1>3. between \in Seq(Characters)
    BY <1>2, NotNegativeIsNat, SliceIsSeq
<1> HIDE DEF before, between
<1>4. before \o between \in Seq(Characters)
    BY <1>1, <1>3, ConcatProperties
<1>5. (before \o between) \o fix.text \in Seq(Characters)
    BY <1>2, <1>4, ConcatProperties
<1> QED BY <1>5 DEF OutputWith, before, between

LEMMA FixedIsSeq ==
    ASSUME code \in Seq(Characters), output \in Seq(Characters), lastPos \in Int
    PROVE  Fixed \in Seq(Characters)
<1>1. Slice(NotNegative(lastPos), Len(Text)) \in Seq(Characters)
    BY NotNegativeIsNat, TextIsSeq, SliceIsSeq
<1> QED BY <1>1, ConcatProperties DEF Fixed

LEMMA OfferedAreFixes ==
    ASSUME code \in Seq(Characters)
    PROVE  Offered \subseteq Fixes
<1>1. Len(Text) \in Nat
    BY TextIsSeq
<1>2. Insertions \subseteq Seq(Characters)
    BY FixesAssumption DEF Characters
<1> QED BY <1>1, <1>2 DEF Offered, Fixes, Positions

----------------------------------------------------------------------------
(* The type invariant with what a step needs besides: what fixes are, and  *)
(* that the passes stay below the limit while another is to come.          *)
DataOK ==
    /\ code \in Seq(Characters) /\ output \in Seq(Characters)
    /\ messages \in Seq(Fixes) /\ lastPos \in Int

CountsOK ==
    /\ phase \in {"verify", "fix", "ended", "failed"}
    /\ passNumber \in 0..MaxPasses
    /\ phase = "verify" => passNumber < MaxPasses

TodoOK ==
    /\ todo \subseteq DOMAIN messages /\ applied \subseteq DOMAIN messages \ todo
    /\ phase = "verify" => DOMAIN messages = {}

PassInv == DataOK /\ CountsOK /\ TodoOK

LEMMA PassInit == Init => PassInv
<1> SUFFICES ASSUME Init PROVE PassInv
    OBVIOUS
<1>1. PICK n \in 0..MaxLength : code \in [1..n -> Letters \cup {BOM}]
    BY DEF Init
<1>2. code \in Seq(Characters)
    BY <1>1, FixesAssumption, SeqDef DEF Characters
<1>3. output \in Seq(Characters) /\ messages \in Seq(Fixes)
    BY EmptySeq DEF Init
<1>4. lastPos \in Int /\ todo = {} /\ applied = {} /\ passNumber = 0 /\ phase = "verify"
    BY DEF Init, NegativeInfinity
<1>5. DOMAIN messages = {}
    BY DEF Init
<1> QED BY <1>2, <1>3, <1>4, <1>5, FixesAssumption DEF PassInv, DataOK, CountsOK, TodoOK

LEMMA VerifyKeeps ==
    ASSUME PassInv, Verify
    PROVE  PassInv'
<1>1. UNCHANGED code /\ passNumber' = passNumber + 1 /\ phase = "verify"
    BY DEF Verify, Lint
<1>2. lastPos' \in Int /\ applied' = {}
    BY DEF Verify, Lint, NegativeInfinity
<1>3. output' \in Seq(Characters)
    <2>1. <<BOM>> \in Seq(Characters) /\ <<>> \in Seq(Characters)
        BY DEF Characters
    <2> QED BY <2>1 DEF Verify, Lint
<1>4. messages' \in Seq(Fixes) /\ todo' \subseteq DOMAIN messages'
      /\ phase' \in {"fix", "ended", "failed"}
    <2>1. ASSUME NEW n \in 0..MaxFixes, messages' \in [1..n -> Offered], todo' = 1..n,
                 phase' = IF n = 0 THEN "ended" ELSE "fix"
          PROVE  messages' \in Seq(Fixes) /\ todo' \subseteq DOMAIN messages'
                 /\ phase' \in {"fix", "ended", "failed"}
        <3>1. n \in Nat /\ Offered \subseteq Fixes
            BY FixesAssumption, OfferedAreFixes DEF PassInv, DataOK
        <3>2. messages' \in [1..n -> Fixes]
            BY <2>1, <3>1
        <3>3. messages' \in Seq(Fixes)
            BY <3>1, <3>2, SeqDef
        <3> QED BY <2>1, <3>3
    <2>2. CASE phase' = "failed" /\ UNCHANGED <<messages, todo>>
        BY <2>2 DEF PassInv, DataOK, TodoOK
    <2> QED BY <2>1, <2>2 DEF Verify, Lint
<1>5. DataOK'
    BY <1>1, <1>2, <1>3, <1>4 DEF PassInv, DataOK
<1>6. CountsOK'
    BY <1>1, <1>4, FixesAssumption DEF PassInv, CountsOK
<1>7. TodoOK'
    BY <1>2, <1>4 DEF TodoOK
<1> QED BY <1>5, <1>6, <1>7 DEF PassInv

LEMMA AttemptKeeps ==
    ASSUME PassInv, AttemptFix
    PROVE  PassInv'
<1>1. UNCHANGED <<phase, code, passNumber, messages>>
    BY DEF AttemptFix
<1>2. PICK i \in todo :
        /\ todo' = todo \ {i}
        /\ \/ UNCHANGED <<lastPos, output, applied>>
           \/ /\ output' = OutputWith(messages[i])
              /\ lastPos' = messages[i].end
              /\ applied' = applied \cup {i}
    BY DEF AttemptFix
<1>3. messages[i] \in Fixes /\ i \in DOMAIN messages
    BY ElementOfSeq, LenProperties DEF PassInv, DataOK, TodoOK
<1>4. OutputWith(messages[i]) \in Seq(Characters) /\ messages[i].end \in Int
    BY <1>3, OutputIsSeq DEF PassInv, DataOK, Fixes, Positions
<1>5. DataOK'
    BY <1>1, <1>2, <1>4 DEF PassInv, DataOK
<1>6. CountsOK'
    BY <1>1 DEF PassInv, CountsOK
<1>7. TodoOK'
    <2>1. phase' = "fix"
        BY <1>1 DEF AttemptFix
    <2> QED BY <1>1, <1>2, <1>3, <2>1 DEF PassInv, TodoOK
<1> QED BY <1>5, <1>6, <1>7 DEF PassInv

LEMMA FinishKeeps ==
    ASSUME PassInv, FinishPass
    PROVE  PassInv'
<1>1. /\ phase = "fix" /\ UNCHANGED <<passNumber, todo>> /\ todo = {}
      /\ messages' = <<>> /\ lastPos' = NegativeInfinity /\ output' = <<>> /\ applied' = {}
    BY DEF FinishPass
<1>2. code' \in Seq(Characters)
    <2>1. Fixed \in Seq(Characters)
        BY FixedIsSeq DEF PassInv, DataOK
    <2> QED BY <2>1 DEF PassInv, DataOK, FinishPass, ChangedOrEnd
<1>3. DataOK'
    <2>1. output' \in Seq(Characters) /\ messages' \in Seq(Fixes)
        BY <1>1, EmptySeq
    <2> QED BY <1>1, <1>2, <2>1 DEF DataOK, NegativeInfinity
<1>4. CountsOK'
    <2>1. phase' \in {"verify", "ended", "failed"} /\ (phase' = "verify" => passNumber < MaxPasses)
        BY DEF FinishPass, ChangedOrEnd, AnotherPass
    <2> QED BY <1>1, <2>1 DEF PassInv, CountsOK
<1>5. TodoOK'
    <2>1. DOMAIN messages' = {}
        BY <1>1
    <2> QED BY <1>1, <2>1 DEF TodoOK
<1> QED BY <1>3, <1>4, <1>5 DEF PassInv

LEMMA PassHolds == Spec => []PassInv
<1>1. ASSUME PassInv, [Next]_vars
      PROVE  PassInv'
    <2>1. CASE UNCHANGED vars
        BY <1>1, <2>1 DEF PassInv, DataOK, CountsOK, TodoOK, vars
    <2> QED BY <1>1, <2>1, VerifyKeeps, AttemptKeeps, FinishKeeps DEF Next
<1> QED BY <1>1, PassInit, PTL DEF Spec

(* What runRuleForItem and applyFixes keep.                                *)
THEOREM TypeCorrect == Spec => []TypeOK
<1>1. PassInv => TypeOK
    BY DEF PassInv, DataOK, CountsOK, TodoOK, TypeOK, Characters
<1> QED BY <1>1, PassHolds, PTL

----------------------------------------------------------------------------
(* Which fixes are left out.                                               *)

(* Applied fixes start no later than those still to be attempted, are the  *)
(* right way round, and end no later than lastPos, which is where one ends.*)
InOrder ==
    /\ \A i \in applied : messages[i].start <= messages[i].end /\ messages[i].end <= lastPos
    /\ phase = "fix" => \A i \in applied, j \in todo : messages[i].start <= messages[j].start
    /\ lastPos = NegativeInfinity \/ \E i \in applied : messages[i].end = lastPos

LEMMA TouchBothWays == \A a, b : Touch(a, b) <=> Touch(b, a)
BY DEF Touch

LEMMA BeforeStarts == \A i, j : Before(i, j) => messages[i].start < messages[j].start
                                                \/ messages[i].start = messages[j].start
BY DEF Before

LEMMA AttemptOrder ==
    ASSUME PassInv, InOrder, LeftOutForAReason, AttemptFix
    PROVE  InOrder' /\ LeftOutForAReason'
<1>1. UNCHANGED <<phase, code, passNumber, messages>> /\ phase = "fix"
    BY DEF AttemptFix
<1>2. PICK i \in todo :
        /\ \A j \in todo \ {i} : Before(i, j)
        /\ todo' = todo \ {i}
        /\ IF Remains(messages[i])
           THEN UNCHANGED <<lastPos, output, applied>>
           ELSE /\ output' = OutputWith(messages[i])
                /\ lastPos' = messages[i].end
                /\ applied' = applied \cup {i}
    BY DEF AttemptFix
<1>3. \A j \in DOMAIN messages : messages[j] \in Fixes
    BY ElementOfSeq, LenProperties DEF PassInv, DataOK
<1>4. \A j \in DOMAIN messages : messages[j].start \in Int /\ messages[j].end \in Int
                                 /\ messages[j].start >= -1
    BY <1>3 DEF Fixes, Positions
<1>5. todo \subseteq DOMAIN messages /\ applied \subseteq DOMAIN messages \ todo /\ lastPos \in Int
    BY DEF PassInv, TodoOK, DataOK
<1>6. \A j \in todo : messages[i].start <= messages[j].start
    BY <1>2, <1>4, <1>5, BeforeStarts
<1>7. CASE Remains(messages[i])
    <2>1. UNCHANGED <<lastPos, applied>>
        BY <1>2, <1>7
    <2>2. InOrder'
        BY <1>1, <1>2, <2>1 DEF InOrder
    <2>3. messages[i].start > messages[i].end \/ \E j \in applied : Touch(messages[i], messages[j])
        <3>1. SUFFICES ASSUME lastPos >= messages[i].start, messages[i].start <= messages[i].end
                       PROVE  \E j \in applied : Touch(messages[i], messages[j])
            BY <1>4, <1>5, <1>7 DEF Remains
        <3>2. lastPos # NegativeInfinity
            BY <1>4, <1>5, <3>1 DEF NegativeInfinity
        <3>3. PICK j \in applied : messages[j].end = lastPos
            BY <3>2 DEF InOrder
        <3>4. messages[j].start <= messages[i].start
            BY <1>1 DEF InOrder
        <3>5. messages[j].start <= messages[i].end
            BY <1>4, <1>5, <3>1, <3>4
        <3>6. Touch(messages[i], messages[j])
            BY <3>1, <3>3, <3>5 DEF Touch
        <3> QED BY <3>6
    <2>4. DOMAIN messages \ (todo' \cup applied) \subseteq (DOMAIN messages \ (todo \cup applied)) \cup {i}
        BY <1>2
    <2>5. LeftOutForAReason'
        BY <1>1, <2>1, <2>3, <2>4 DEF LeftOutForAReason, Touch
    <2> QED BY <2>2, <2>5
<1>8. CASE ~ Remains(messages[i])
    <2>1. lastPos' = messages[i].end /\ applied' = applied \cup {i}
        BY <1>2, <1>8
    <2>2. lastPos < messages[i].start /\ messages[i].start <= messages[i].end
        BY <1>4, <1>5, <1>8 DEF Remains
    <2>3. \A j \in applied : messages[j].start <= messages[j].end /\ messages[j].end <= lastPos
        BY DEF InOrder
    <2>4. \A j \in applied : messages[j].end < messages[i].start
        BY <1>4, <1>5, <2>2, <2>3
    <2>5. \A j \in applied : ~ Touch(messages[i], messages[j]) /\ ~ Touch(messages[j], messages[i])
        BY <1>4, <1>5, <2>4 DEF Touch
    <2>6. InOrder'
        <3>1. \A j \in applied' : messages[j].start <= messages[j].end
                                  /\ messages[j].end <= messages[i].end
            BY <1>4, <1>5, <2>1, <2>2, <2>3, <2>4
        <3>2. \A j \in applied', k \in todo' : messages[j].start <= messages[k].start
            BY <1>1, <1>2, <1>6, <2>1 DEF InOrder
        <3> QED BY <1>1, <2>1, <3>1, <3>2 DEF InOrder
    <2>7. todo' \cup applied' = todo \cup applied
        BY <1>2, <2>1
    <2>8. ASSUME NEW k \in DOMAIN messages \ (todo \cup applied)
          PROVE  \/ messages[k].start > messages[k].end
                 \/ \E j \in applied' : Touch(messages[k], messages[j])
        BY <1>1, <2>1 DEF LeftOutForAReason
    <2>9. \A j, k \in applied' : j # k => ~ Touch(messages[j], messages[k])
        BY <2>1, <2>5 DEF LeftOutForAReason
    <2>10. LeftOutForAReason'
        BY <1>1, <2>7, <2>8, <2>9 DEF LeftOutForAReason, Touch
    <2> QED BY <2>6, <2>10
<1> QED BY <1>7, <1>8

LEMMA OrderHolds == Spec => [](InOrder /\ LeftOutForAReason)
<1>1. ASSUME Init
      PROVE  InOrder /\ LeftOutForAReason
    <2>1. applied = {} /\ todo = {} /\ lastPos = NegativeInfinity /\ DOMAIN messages = {}
        BY <1>1 DEF Init
    <2> QED BY <2>1 DEF InOrder, LeftOutForAReason
<1>2. ASSUME PassInv, InOrder, LeftOutForAReason, [Next]_vars
      PROVE  InOrder' /\ LeftOutForAReason'
    <2>1. ASSUME Verify
          PROVE  InOrder' /\ LeftOutForAReason'
        <3>1. applied' = {} /\ lastPos' = NegativeInfinity
            BY <2>1 DEF Verify, Lint
        <3>2. /\ phase = "verify"
              /\ todo' = DOMAIN messages' \/ UNCHANGED <<messages, todo>>
            BY <2>1 DEF Verify, Lint
        <3>3. phase = "verify" => DOMAIN messages = {}
            BY <1>2 DEF PassInv, TodoOK
        <3> QED BY <3>1, <3>2, <3>3 DEF InOrder, LeftOutForAReason
    <2>2. ASSUME FinishPass
          PROVE  InOrder' /\ LeftOutForAReason'
        <3>1. applied' = {} /\ lastPos' = NegativeInfinity /\ DOMAIN messages' = {}
              /\ todo' = {}
            BY <2>2 DEF FinishPass
        <3> QED BY <3>1 DEF InOrder, LeftOutForAReason
    <2>3. ASSUME UNCHANGED vars
          PROVE  InOrder' /\ LeftOutForAReason'
        BY <1>2, <2>3 DEF InOrder, LeftOutForAReason, Touch, vars
    <2> QED BY <1>2, <2>1, <2>2, <2>3, AttemptOrder DEF Next
<1> QED BY <1>1, <1>2, PassHolds, PTL DEF Spec

(* A fix is left out of a pass for its range or for one that is applied,   *)
(* and fixes that are applied do not touch (SourceCodeFixer.ts:67-71).     *)
THEOREM NothingLeftOut == Spec => []LeftOutForAReason
BY OrderHolds, PTL

----------------------------------------------------------------------------
(* What the fixer makes of the code.                                       *)

LEMMA ConcatAssociates ==
    ASSUME NEW S, NEW a \in Seq(S), NEW b \in Seq(S), NEW c \in Seq(S)
    PROVE  (a \o b) \o c = a \o (b \o c)
OBVIOUS

LEMMA ConcatNothing ==
    ASSUME NEW S, NEW a \in Seq(S)
    PROVE  a \o <<>> = a /\ <<>> \o a = a
OBVIOUS

(* A slice that goes one letter further has one letter more, if there is   *)
(* one left; one that ends no later than it begins is empty.               *)
LetterAfter(from, p) == IF from <= p /\ p < Len(Text) THEN <<Text[p + 1]>> ELSE <<>>

LEMMA LetterIsSeq ==
    ASSUME code \in Seq(Characters), NEW from \in Nat, NEW p \in Nat
    PROVE  LetterAfter(from, p) \in Seq(Characters)
<1>1. Text \in Seq(Characters) /\ Len(Text) \in Nat
    BY TextIsSeq
<1>2. CASE p < Len(Text)
    <2>1. Text[p + 1] \in Characters
        BY <1>1, <1>2, ElementOfSeq
    <2>2. <<Text[p + 1]>> \in Seq(Characters)
        BY <2>1
    <2> QED BY <2>2, EmptySeq DEF LetterAfter
<1>3. CASE ~(p < Len(Text))
    BY <1>3, EmptySeq DEF LetterAfter
<1> QED BY <1>2, <1>3

LEMMA SliceGrows ==
    ASSUME code \in Seq(Characters), NEW from \in Nat, NEW p \in Nat
    PROVE  Slice(from, p + 1) = Slice(from, p) \o LetterAfter(from, p)
<1>1. Text \in Seq(Characters) /\ Len(Text) \in Nat
    BY TextIsSeq
<1> DEFINE last(q) == IF q < Len(Text) THEN q ELSE Len(Text)
<1>2. CASE from <= p /\ p < Len(Text)
    <2>1. last(p + 1) = p + 1 /\ last(p) = p
        BY <1>1, <1>2
    <2>2. SubSeq(Text, from + 1, p + 1) = SubSeq(Text, from + 1, p) \o <<Text[p + 1]>>
        BY <1>1, <1>2
    <2> QED BY <1>2, <2>1, <2>2 DEF Slice, LetterAfter
<1>3. CASE ~(from <= p /\ p < Len(Text))
    <2>1. Slice(from, p + 1) = Slice(from, p)
        <3>1. CASE p >= Len(Text)
            BY <1>1, <3>1 DEF Slice
        <3>2. CASE p < from /\ p < Len(Text)
            <4>1. last(p + 1) = p + 1 /\ last(p) = p
                BY <1>1, <3>2
            <4>2. SubSeq(Text, from + 1, p + 1) = <<>> /\ SubSeq(Text, from + 1, p) = <<>>
                BY <1>1, <3>2
            <4> QED BY <4>1, <4>2 DEF Slice
        <3> QED BY <1>1, <1>3, <3>1, <3>2
    <2> QED BY <1>3, <2>1, SliceIsSeq, ConcatNothing DEF LetterAfter
<1> QED BY <1>2, <1>3

LEMMA SliceOfNothing ==
    ASSUME code \in Seq(Characters), NEW from \in Nat, NEW to \in Nat, to <= from
    PROVE  Slice(from, to) = <<>>
<1>1. Text \in Seq(Characters) /\ Len(Text) \in Nat
    BY TextIsSeq
<1>2. (IF to < Len(Text) THEN to ELSE Len(Text)) < from + 1
    BY <1>1
<1>3. \A last \in Int : last < from + 1 => SubSeq(Text, from + 1, last) = <<>>
    BY <1>1
<1> QED BY <1>1, <1>2, <1>3 DEF Slice

(* What all applied fixes make of the text up to each position; the output *)
(* is that up to where the last one ends, with what it inserts there, and  *)
(* from there on only letters are missing.                                 *)
Prefixes(f) ==
    /\ f \in [0..(Len(Text) + 1) -> Seq(Characters)]
    /\ f[0] = Opening
    /\ \A p \in 0..Len(Text) : f[p + 1] = f[p] \o (Inserted(p) \o Kept(p))

Reached(f) ==
    \A p \in NotNegative(lastPos)..Len(Text) :
        f[p] \o Inserted(p) = output \o Slice(NotNegative(lastPos), p)

FixesFit == \A k \in DOMAIN messages : messages[k].end <= Len(Text)

Replaced == phase = "fix" => FixesFit /\ \E f : Prefixes(f) /\ Reached(f)

LEMMA TextStays ==
    ASSUME code' = code
    PROVE  Text' = Text /\ (HasBOM(code) <=> HasBOM(code)')
           /\ \A from, to : Slice(from, to)' = Slice(from, to)
BY DEF Text, HasBOM, Slice

(* As long as nothing of the text is replaced and nothing is inserted in   *)
(* it, the prefixes are those of the text, after what comes before it.     *)
Untouched == \A p \in Nat : Inserted(p) = <<>> /\ Kept(p) = LetterAfter(0, p)

LEMMA TextPrefixes ==
    ASSUME code \in Seq(Characters), NEW out \in Seq(Characters)
    PROVE  \E f \in [0..(Len(Text) + 1) -> Seq(Characters)] :
              /\ f[0] = out
              /\ \A p \in 0..Len(Text) : /\ f[p] = out \o Slice(0, p)
                                         /\ f[p + 1] = f[p] \o LetterAfter(0, p)
<1>1. Text \in Seq(Characters) /\ Len(Text) \in Nat
    BY TextIsSeq
<1>2. \A p \in Nat : Slice(0, p) \in Seq(Characters) /\ LetterAfter(0, p) \in Seq(Characters)
    BY SliceIsSeq, LetterIsSeq
<1> PICK f : f = [p \in 0..(Len(Text) + 1) |-> out \o Slice(0, p)]
    OBVIOUS
<1>3. ASSUME NEW p \in 0..(Len(Text) + 1)
      PROVE  p \in Nat /\ f[p] = out \o Slice(0, p) /\ f[p] \in Seq(Characters)
    <2>1. p \in Nat /\ f[p] = out \o Slice(0, p)
        BY <1>1
    <2>2. out \o Slice(0, p) \in Seq(Characters)
        BY <1>2, <2>1, ConcatProperties
    <2> QED BY <2>1, <2>2
<1>4. f \in [0..(Len(Text) + 1) -> Seq(Characters)]
    BY <1>3
<1>5. f[0] = out
    <2>1. Slice(0, 0) = <<>> /\ 0 \in 0..(Len(Text) + 1)
        BY <1>1, SliceOfNothing
    <2> QED BY <1>3, <2>1, ConcatNothing
<1>6. ASSUME NEW p \in 0..Len(Text)
      PROVE  f[p] = out \o Slice(0, p) /\ f[p + 1] = f[p] \o LetterAfter(0, p)
    <2>1. p \in Nat /\ p + 1 \in 0..(Len(Text) + 1) /\ p \in 0..(Len(Text) + 1)
        BY <1>1
    <2>2. f[p + 1] = out \o (Slice(0, p) \o LetterAfter(0, p))
        BY <1>1, <1>3, <2>1, SliceGrows
    <2>3. (out \o Slice(0, p)) \o LetterAfter(0, p) = out \o (Slice(0, p) \o LetterAfter(0, p))
        <3>1. Slice(0, p) \in Seq(Characters) /\ LetterAfter(0, p) \in Seq(Characters)
            BY <1>2, <2>1
        <3> QED BY <3>1, ConcatAssociates
    <2> QED BY <1>3, <2>1, <2>2, <2>3
<1> QED BY <1>4, <1>5, <1>6

LEMMA TextUnreplaced ==
    ASSUME code \in Seq(Characters)
    PROVE  /\ code' = code /\ output' \in Seq(Characters) /\ Opening' = output'
           /\ Untouched' /\ NotNegative(lastPos)' = 0
           => \E f : Prefixes(f)' /\ Reached(f)'
<1>1. ASSUME code' = code, output' \in Seq(Characters), Opening' = output',
             Untouched', NotNegative(lastPos)' = 0
      PROVE  \E f : Prefixes(f)' /\ Reached(f)'
    <2>1. PICK out \in Seq(Characters) : out = output'
        BY <1>1
    <2>2. PICK f \in [0..(Len(Text) + 1) -> Seq(Characters)] :
              /\ f[0] = out
              /\ \A p \in 0..Len(Text) : /\ f[p] = out \o Slice(0, p)
                                         /\ f[p + 1] = f[p] \o LetterAfter(0, p)
        BY TextPrefixes
    <2>3. Len(Text) \in Nat /\ \A p \in Nat : LetterAfter(0, p) \in Seq(Characters)
        BY TextIsSeq, LetterIsSeq
    <2>4. Text' = Text /\ \A p : Slice(0, p)' = Slice(0, p)
        BY <1>1, TextStays
    <2>5. \A p \in Nat : Inserted(p)' = <<>> /\ Kept(p)' = LetterAfter(0, p)
        BY <1>1, TextStays DEF Untouched, LetterAfter
    <2>6. ASSUME NEW p \in 0..Len(Text)
          PROVE  /\ f[p + 1] = f[p] \o (Inserted(p)' \o Kept(p)')
                 /\ f[p] \o Inserted(p)' = out \o Slice(0, p)
        <3>1. p \in Nat /\ p \in 0..(Len(Text) + 1)
            BY <2>3
        <3>2. LetterAfter(0, p) \in Seq(Characters) /\ f[p] \in Seq(Characters)
            BY <2>3, <3>1
        <3>3. Inserted(p)' \o Kept(p)' = LetterAfter(0, p)
            BY <2>5, <3>1, <3>2, ConcatNothing
        <3>4. f[p] \o Inserted(p)' = f[p]
            BY <2>5, <3>1, <3>2, ConcatNothing
        <3> QED BY <2>2, <3>3, <3>4
    <2>7. Prefixes(f)'
        BY <1>1, <2>1, <2>2, <2>4, <2>6 DEF Prefixes
    <2>8. Reached(f)'
        BY <1>1, <2>1, <2>4, <2>6 DEF Reached
    <2> QED BY <2>7, <2>8
<1> QED BY <1>1

(* A pass begins: nothing is replaced.                                     *)
LEMMA VerifyReplaces ==
    ASSUME PassInv, Verify
    PROVE  Replaced'
<1> SUFFICES ASSUME phase' = "fix"
             PROVE  FixesFit' /\ \E f : Prefixes(f)' /\ Reached(f)'
    BY DEF Replaced
<1>1. code' = code /\ applied' = {} /\ lastPos' = NegativeInfinity
      /\ output' = (IF HasBOM(code) THEN <<BOM>> ELSE <<>>)
    BY DEF Verify, Lint
<1>2. code \in Seq(Characters) /\ Len(Text) \in Nat
    BY TextIsSeq DEF PassInv, DataOK
<1>3. FixesFit'
    <2>1. \A k \in DOMAIN messages' : messages'[k] \in Offered
        BY DEF Verify, Lint
    <2>2. \A k \in DOMAIN messages' : messages'[k].end \in -1..Len(Text)
        BY <2>1 DEF Offered
    <2> QED BY <1>1, <1>2, <2>2, TextStays DEF FixesFit
<1>4. \A p : Inserted(p)' = <<>> /\ ~Covered(p)'
    BY <1>1 DEF Inserted, Covered
<1>5. output' \in Seq(Characters) /\ Opening' = output'
    <2>1. <<BOM>> \in Seq(Characters) /\ <<>> \in Seq(Characters)
        BY DEF Characters
    <2>2. output' \in Seq(Characters)
        BY <1>1, <2>1
    <2>3. Opening' = output' \o <<>>
        BY <1>1, <1>4, TextStays DEF Opening
    <2> QED BY <2>2, <2>3, ConcatNothing
<1>6. \A p \in Nat : Kept(p)' = LetterAfter(0, p)
    BY <1>1, <1>4, TextStays DEF Kept, LetterAfter
<1>7. NotNegative(lastPos)' = 0
    BY <1>1 DEF NotNegative, NegativeInfinity
<1>8. Untouched'
    BY <1>1, <1>4, <1>6, TextStays DEF Untouched, LetterAfter
<1> QED BY <1>1, <1>2, <1>3, <1>5, <1>7, <1>8, TextUnreplaced

(* Nothing is replaced beyond the end of the last fix.                     *)
LEMMA NothingBeyond ==
    ASSUME PassInv, InOrder, NEW p \in Nat, p >= NotNegative(lastPos)
    PROVE  /\ ~Covered(p)
           /\ applied = {} \/ p > NotNegative(lastPos) \/ lastPos < 0 => Inserted(p) = <<>>
<1>1. lastPos \in Int /\ \A j \in applied : messages[j] \in Fixes
    BY ElementOfSeq, LenProperties DEF PassInv, DataOK, TodoOK
<1>2. \A j \in applied : /\ messages[j].start \in Int /\ messages[j].end \in Int
                          /\ messages[j].start <= messages[j].end /\ messages[j].end <= lastPos
    BY <1>1 DEF Fixes, Positions, InOrder
<1>3. ~Covered(p)
    BY <1>1, <1>2 DEF Covered, NotNegative
<1>4. NotNegative(lastPos) \in Nat
    BY <1>1, NotNegativeIsNat
<1>5. ASSUME applied = {} \/ p > NotNegative(lastPos) \/ lastPos < 0
      PROVE  ~ \E j \in applied : Position(j) = p
    <2>1. SUFFICES ASSUME NEW j \in applied
                   PROVE  Position(j) # p
        OBVIOUS
    <2>2. CASE lastPos < 0
        BY <1>1, <1>2, <2>2 DEF Position
    <2>3. CASE ~(lastPos < 0)
        <3>1. p > NotNegative(lastPos)
            BY <1>5, <2>3
        <3>2. Position(j) \in Int /\ Position(j) <= NotNegative(lastPos)
            BY <1>1, <1>2 DEF Position, NotNegative
        <3> QED BY <1>4, <3>1, <3>2
    <2> QED BY <2>2, <2>3
<1> QED BY <1>3, <1>5 DEF Inserted

(* A fix is applied.                                                       *)
Applies(i) ==
    /\ i \in todo /\ phase = "fix" /\ ~Remains(messages[i])
    /\ code' = code /\ messages' = messages
    /\ output' = OutputWith(messages[i])
    /\ lastPos' = messages[i].end
    /\ applied' = applied \cup {i}

(* It lies beyond those applied before; it is the first if it lies before  *)
(* the text.                                                               *)
LEMMA AppliedBeyond ==
    ASSUME PassInv, InOrder, FixesFit, NEW i, Applies(i)
    PROVE  /\ messages[i] \in Fixes /\ messages[i].start \in Int /\ messages[i].end \in Int
           /\ lastPos \in Int /\ messages[i].end <= Len(Text)
           /\ messages[i].end < 0 => applied = {} /\ messages[i].start < 0
           /\ messages[i].end >= 0 =>
                  /\ NotNegative(lastPos) \in Nat /\ NotNegative(messages[i].start) \in Nat
                  /\ NotNegative(lastPos) <= NotNegative(messages[i].start)
                  /\ \/ applied = {} \/ lastPos < 0
                     \/ NotNegative(lastPos) < NotNegative(messages[i].start)
                  /\ NotNegative(messages[i].start) <= messages[i].end
                  /\ RemovesBOM(messages[i]) =>
                         NotNegative(messages[i].start) = 0 /\ NotNegative(lastPos) = 0
<1>1. lastPos \in Int /\ i \in DOMAIN messages /\ messages[i] \in Fixes
      /\ \A j \in applied : messages[j] \in Fixes
    BY ElementOfSeq, LenProperties DEF PassInv, DataOK, TodoOK, Applies
<1>2. messages[i].start \in Int /\ messages[i].end \in Int /\ messages[i].start >= -1
    BY <1>1 DEF Fixes, Positions
<1>3. lastPos < messages[i].start /\ messages[i].start <= messages[i].end
    BY <1>1, <1>2 DEF Applies, Remains
<1>4. applied = {} \/ lastPos >= -1
    <2>1. \A j \in applied : messages[j].end \in Int /\ messages[j].end >= -1
                              /\ messages[j].end <= lastPos
        BY <1>1 DEF Fixes, Positions, InOrder
    <2> QED BY <1>1, <2>1
<1>5. RemovesBOM(messages[i]) => messages[i].start <= 0
    BY <1>2 DEF RemovesBOM
<1>6. messages[i].end <= Len(Text)
    BY <1>1 DEF FixesFit
<1>7. messages[i].end < 0 => applied = {} /\ messages[i].start < 0
    BY <1>1, <1>2, <1>3, <1>4
<1> QED BY <1>1, <1>2, <1>3, <1>5, <1>6, <1>7 DEF NotNegative

LEMMA ChosenText ==
    ASSUME NEW S, NEW p, NEW j \in S, Position(j) = p, \A k \in S : Position(k) = p => k = j
    PROVE  messages[CHOOSE k \in S : Position(k) = p].text = messages[j].text
<1> DEFINE c == CHOOSE k \in S : Position(k) = p
<1>1. c \in S /\ Position(c) = p
    OBVIOUS
<1> HIDE DEF c
<1>2. c = j
    BY <1>1
<1> QED BY <1>2 DEF c

(* What is inserted where, when a fix has been applied.                    *)
LEMMA InsertedThen ==
    ASSUME PassInv, InOrder, LeftOutForAReason, FixesFit, NEW i, Applies(i), NEW p
    PROVE  Inserted(p)' = IF p = Position(i)
                          THEN messages[i].text ELSE Inserted(p)
<1>1. applied' = applied \cup {i} /\ messages' = messages
    BY DEF Applies
<1>2. lastPos \in Int /\ \A j \in applied : messages[j] \in Fixes
    BY ElementOfSeq, LenProperties DEF PassInv, DataOK, TodoOK
<1>3. \A j \in applied : /\ messages[j].start \in Int /\ messages[j].end \in Int
                          /\ messages[j].start <= messages[j].end /\ messages[j].end <= lastPos
                          /\ messages[j].start >= -1
    BY <1>2 DEF Fixes, Positions, InOrder
<1>4. \A j \in applied : Position(j) # Position(i)
    <2>1. SUFFICES ASSUME NEW j \in applied
                   PROVE  Position(j) # Position(i)
        OBVIOUS
    <2>2. CASE messages[i].end < 0
        BY <2>2, AppliedBeyond
    <2>3. CASE messages[i].end >= 0
        <3>1. Position(i) = NotNegative(messages[i].start)
              /\ Position(i) \in Nat
            BY <2>3, AppliedBeyond DEF Position
        <3>2. lastPos < 0 \/ NotNegative(lastPos) < Position(i) \/ applied = {}
            BY <2>3, <3>1, AppliedBeyond
        <3>3. CASE lastPos < 0
            BY <1>2, <1>3, <3>1, <3>3 DEF Position
        <3>4. CASE NotNegative(lastPos) < Position(i)
            <4>1. Position(j) \in Int /\ Position(j) <= NotNegative(lastPos)
                BY <1>2, <1>3 DEF Position, NotNegative
            <4> QED BY <1>2, <3>1, <3>4, <4>1, NotNegativeIsNat
        <3> QED BY <3>2, <3>3, <3>4
    <2>4. messages[i].end < 0 \/ messages[i].end >= 0
        BY AppliedBeyond
    <2> QED BY <2>2, <2>3, <2>4
<1>5. \A j, k \in applied : Position(j) = Position(k) => k = j
    <2>1. SUFFICES ASSUME NEW j \in applied, NEW k \in applied,
                          Position(j) = Position(k)
                   PROVE  Touch(messages[j], messages[k])
        BY DEF LeftOutForAReason
    <2> QED BY <1>3, <2>1 DEF Touch, Position, NotNegative
<1>6. CASE p = Position(i)
    <2>1. \A k \in applied \cup {i} : Position(k) = p => k = i
        BY <1>4, <1>6
    <2>2. messages[CHOOSE k \in applied \cup {i} : Position(k) = p].text = messages[i].text
        BY <1>6, <2>1, ChosenText
    <2>3. Position(i)' = p /\ i \in applied'
        BY <1>1, <1>6 DEF Position, NotNegative
    <2> QED BY <1>1, <1>6, <2>2, <2>3 DEF Inserted, Position, NotNegative
<1>7. CASE p # Position(i)
    <2>1. CASE \E j \in applied : Position(j) = p
        <3>1. PICK j \in applied : Position(j) = p
            BY <2>1
        <3>2. /\ \A k \in applied : Position(k) = p => k = j
              /\ \A k \in applied \cup {i} : Position(k) = p => k = j
            BY <1>1, <1>5, <1>7, <3>1
        <3>3. messages[CHOOSE k \in applied : Position(k) = p].text
              = messages[j].text
            BY <3>1, <3>2, ChosenText
        <3>4. messages[CHOOSE k \in applied \cup {i} : Position(k) = p].text
              = messages[j].text
            BY <1>1, <3>1, <3>2, ChosenText
        <3>5. Inserted(p) = messages[j].text
            BY <3>1, <3>3 DEF Inserted
        <3>6. Inserted(p)' = messages[j].text
            BY <1>1, <3>1, <3>4 DEF Inserted, Position, NotNegative
        <3> QED BY <1>7, <3>5, <3>6
    <2>2. CASE ~ \E j \in applied : Position(j) = p
        <3>1. ~ \E j \in applied' : Position(j) = p
            BY <1>1, <1>7, <2>2
        <3> QED BY <1>1, <1>7, <2>2, <3>1 DEF Inserted, Position, NotNegative
    <2> QED BY <2>1, <2>2
<1> QED BY <1>6, <1>7

(* What is kept then.                                                      *)
LEMMA KeptThen ==
    ASSUME PassInv, InOrder, FixesFit, NEW i, Applies(i), NEW p \in Nat
    PROVE  /\ messages[i].end < 0 => Kept(p)' = LetterAfter(0, p)
           /\ messages[i].end >= 0 =>
                  Kept(p)' = IF p < NotNegative(messages[i].start)
                             THEN Kept(p) ELSE LetterAfter(messages[i].end, p)
<1>1. applied' = applied \cup {i} /\ messages' = messages /\ Text' = Text
    BY TextStays DEF Applies
<1>2. Len(Text) \in Nat /\ messages[i].start \in Int /\ messages[i].end \in Int
    BY TextIsSeq, AppliedBeyond DEF PassInv, DataOK
<1>3. CASE messages[i].end < 0
    <2>1. applied = {} /\ ~(p < messages[i].end)
        BY <1>2, <1>3, AppliedBeyond
    <2>2. ~Covered(p)'
        BY <1>1, <2>1 DEF Covered
    <2> QED BY <1>1, <1>2, <1>3, <2>2 DEF Kept, LetterAfter
<1>4. CASE messages[i].end >= 0 /\ p < NotNegative(messages[i].start)
    <2>1. ~(messages[i].start <= p)
        BY <1>2, <1>4 DEF NotNegative
    <2>2. Covered(p)' <=> Covered(p)
        BY <1>1, <2>1 DEF Covered
    <2> QED BY <1>1, <1>2, <1>4, <2>2 DEF Kept
<1>5. CASE messages[i].end >= 0 /\ ~(p < NotNegative(messages[i].start))
    <2>1. messages[i].start <= p /\ p >= NotNegative(lastPos)
        BY <1>2, <1>5, AppliedBeyond DEF NotNegative
    <2>2. ~Covered(p)
        BY <2>1, NothingBeyond
    <2>3. Covered(p)' <=> p < messages[i].end
        BY <1>1, <2>1, <2>2 DEF Covered
    <2>4. ~(p < messages[i].end) <=> messages[i].end <= p
        BY <1>2
    <2> QED BY <1>1, <1>2, <1>5, <2>3, <2>4 DEF Kept, LetterAfter
<1> QED BY <1>2, <1>3, <1>4, <1>5

LEMMA OpeningThen ==
    ASSUME PassInv, InOrder, LeftOutForAReason, FixesFit, NEW i, Applies(i),
           messages[i].end >= 0
    PROVE  Opening' = IF RemovesBOM(messages[i]) THEN <<>> ELSE Opening
<1>1. applied' = applied \cup {i} /\ messages' = messages /\ (HasBOM(code)' <=> HasBOM(code))
    BY TextStays DEF Applies
<1>2. (\E j \in applied' : RemovesBOM(messages'[j]))
      <=> RemovesBOM(messages[i]) \/ \E j \in applied : RemovesBOM(messages[j])
    BY <1>1
<1>3. Position(i) # -1
    BY AppliedBeyond DEF Position
<1>4. Inserted(-1)' = Inserted(-1)
    BY <1>3, InsertedThen
<1> QED BY <1>1, <1>2, <1>4 DEF Opening, RemovesBOM, HasBOM

(* A fix before the text inserts, after the BOM.                           *)
LEMMA BeforeTextReplaced ==
    ASSUME PassInv, InOrder, LeftOutForAReason, FixesFit, NEW i, Applies(i),
           messages[i].end < 0, NEW f, Prefixes(f), Reached(f)
    PROVE  \E g : Prefixes(g)' /\ Reached(g)'
<1>1. /\ applied = {} /\ messages[i].start < 0 /\ lastPos \in Int /\ lastPos < 0
      /\ messages[i].text \in Seq(Characters) /\ messages[i] \in Fixes
    <2>1. lastPos < messages[i].start
        BY AppliedBeyond DEF Applies, Remains
    <2> QED BY <2>1, AppliedBeyond DEF Fixes
<1>2. /\ code' = code /\ applied' = {i} /\ messages' = messages
      /\ output' = OutputWith(messages[i]) /\ lastPos' = messages[i].end
    BY <1>1 DEF Applies
<1>3. code \in Seq(Characters) /\ output \in Seq(Characters) /\ Len(Text) \in Nat
    BY TextIsSeq DEF PassInv, DataOK
<1>4. Slice(0, 0) = <<>>
    BY <1>3, SliceOfNothing
<1>5. NotNegative(lastPos) = 0 /\ NotNegative(messages[i].start) = 0
      /\ NotNegative(messages[i].end) = 0
    BY <1>1 DEF NotNegative
<1>6. Inserted(0) = <<>>
    BY <1>1 DEF Inserted
<1>7. f[0] \o <<>> = output \o <<>> /\ f[0] = Opening /\ f[0] \in Seq(Characters)
    <2>1. 0 \in 0..Len(Text) /\ 0 \in 0..(Len(Text) + 1)
        BY <1>3
    <2> QED BY <1>4, <1>5, <1>6, <2>1 DEF Prefixes, Reached
<1>8. output = Opening /\ Opening \in Seq(Characters)
    BY <1>3, <1>7, ConcatNothing
<1>9. ~RemovesBOM(messages[i])
    <2>1. messages[i].start \in Int /\ messages[i].end \in Int
        BY AppliedBeyond
    <2> QED BY <1>1, <2>1 DEF RemovesBOM
<1>10. output' = output \o messages[i].text
    BY <1>2, <1>3, <1>4, <1>5, <1>9, ConcatNothing DEF OutputWith
<1>11. output' \in Seq(Characters)
    BY <1>1, <1>3, <1>10, ConcatProperties
<1>12. Opening' = output'
    <2> DEFINE mark == IF HasBOM(code) THEN <<BOM>> ELSE <<>>
    <2>1. Opening = mark \o <<>>
        BY <1>1 DEF Opening, Inserted
    <2>2. mark \in Seq(Characters)
        <3>1. <<BOM>> \in Seq(Characters) /\ <<>> \in Seq(Characters)
            BY DEF Characters
        <3> QED BY <3>1
    <2>3. Inserted(-1)' = messages[i].text
        <3>1. Position(i) = -1
            BY DEF Position
        <3> QED BY <3>1, InsertedThen
    <2>4. Opening' = mark \o messages[i].text
        <3>1. ~ \E j \in applied' : RemovesBOM(messages[j])'
            BY <1>2, <1>9 DEF RemovesBOM, HasBOM
        <3>2. HasBOM(code)' <=> HasBOM(code)
            BY <1>2, TextStays
        <3> QED BY <2>3, <3>1, <3>2 DEF Opening
    <2> HIDE DEF mark
    <2> QED BY <1>8, <1>10, <2>1, <2>2, <2>4, ConcatNothing
<1>13. ASSUME NEW p \in Nat
       PROVE  Inserted(p)' = <<>> /\ Kept(p)' = LetterAfter(0, p)
    <2>1. p # Position(i)
        BY DEF Position
    <2>2. Inserted(p) = <<>>
        BY <1>1 DEF Inserted
    <2> QED BY <2>1, <2>2, InsertedThen, KeptThen
<1>14. NotNegative(lastPos)' = 0
    BY <1>2, <1>5 DEF NotNegative
<1>15. Untouched'
    BY <1>2, <1>13, TextStays DEF Untouched, LetterAfter
<1> QED BY <1>2, <1>3, <1>11, <1>12, <1>14, <1>15, TextUnreplaced

(* One fix more is replaced when one fix more has been applied.            *)
LEMMA OneMoreReplaced ==
    ASSUME PassInv, InOrder, LeftOutForAReason, FixesFit, NEW i, Applies(i),
           messages[i].end >= 0, NEW f, Prefixes(f), Reached(f)
    PROVE  \E g : Prefixes(g)' /\ Reached(g)'
<1> DEFINE fix    == messages[i]
           start  == NotNegative(fix.start)
           last   == NotNegative(lastPos)
           before == IF RemovesBOM(fix) THEN <<>> ELSE output
           now    == OutputWith(fix)
<1> PICK n : n = Len(Text)
    OBVIOUS
<1>1. code \in Seq(Characters) /\ output \in Seq(Characters) /\ n \in Nat
    BY TextIsSeq DEF PassInv, DataOK
<1>2. /\ fix \in Fixes /\ fix.end \in Nat /\ last \in Nat /\ start \in Nat
      /\ last <= start /\ (applied = {} \/ lastPos < 0 \/ last < start)
      /\ start <= fix.end /\ fix.end <= n
      /\ RemovesBOM(fix) => start = 0 /\ last = 0
    BY AppliedBeyond
<1>3. /\ \A p \in Nat : Inserted(p)' = IF p = start THEN fix.text ELSE Inserted(p)
      /\ \A p \in Nat : Kept(p)' = IF p < start THEN Kept(p) ELSE LetterAfter(fix.end, p)
      /\ Opening' = IF RemovesBOM(fix) THEN <<>> ELSE Opening
    <2>1. Position(i) = start
        BY <1>2 DEF Position
    <2> QED BY <2>1, InsertedThen, KeptThen, OpeningThen
<1>4. /\ f \in [0..(n + 1) -> Seq(Characters)] /\ f[0] = Opening
      /\ \A p \in 0..n : f[p + 1] = f[p] \o (Inserted(p) \o Kept(p))
      /\ \A p \in last..n : f[p] \o Inserted(p) = output \o Slice(last, p)
    BY DEF Prefixes, Reached
<1>5. /\ \A p \in Nat : p > start => Inserted(p) = <<>>
      /\ Inserted(start) = <<>>
    BY <1>2, NothingBeyond
<1>6. /\ \A p \in Nat : Slice(fix.end, p) \in Seq(Characters)
                        /\ LetterAfter(fix.end, p) \in Seq(Characters)
      /\ before \in Seq(Characters) /\ Slice(last, start) \in Seq(Characters)
      /\ fix.text \in Seq(Characters) /\ now \in Seq(Characters)
    <2>1. now \in Seq(Characters)
        BY <1>2, OutputIsSeq DEF PassInv, DataOK
    <2> QED BY <1>1, <1>2, <2>1, SliceIsSeq, LetterIsSeq, EmptySeq DEF Fixes
<1> PICK base : base = IF RemovesBOM(fix) THEN <<>> ELSE f[start]
    OBVIOUS
<1>7. base \in Seq(Characters) /\ base \o fix.text = now
    <2>1. start \in 0..(n + 1) /\ start \in last..n
        BY <1>1, <1>2
    <2>2. base = before \o Slice(last, start)
        <3>1. CASE RemovesBOM(fix)
            BY <1>1, <1>2, <3>1, SliceOfNothing, EmptySeq, ConcatNothing
        <3>2. CASE ~RemovesBOM(fix)
            <4>1. f[start] \o <<>> = output \o Slice(last, start)
                BY <1>4, <1>5, <2>1
            <4>2. f[start] \in Seq(Characters)
                BY <1>4, <2>1
            <4> QED BY <3>2, <4>1, <4>2, ConcatNothing
        <3> QED BY <3>1, <3>2
    <2>3. base \in Seq(Characters)
        BY <1>6, <2>2, ConcatProperties
    <2> QED BY <2>2, <2>3 DEF OutputWith
<1> PICK g : g = [p \in 0..(n + 1) |->
                    IF p <= start THEN IF RemovesBOM(fix) THEN <<>> ELSE f[p]
                    ELSE now \o Slice(fix.end, p)]
    OBVIOUS
<1> HIDE DEF fix, start, last, before, now
<1>8. ASSUME NEW p \in 0..(n + 1)
      PROVE  /\ p \in Nat /\ g[p] \in Seq(Characters)
             /\ p < start => ~RemovesBOM(fix) /\ g[p] = f[p]
             /\ p = start => g[p] = base
             /\ p > start => g[p] = now \o Slice(fix.end, p)
    <2>1. p \in Nat /\ (p < start => ~RemovesBOM(fix))
        BY <1>1, <1>2
    <2>2. f[p] \in Seq(Characters) /\ <<>> \in Seq(Characters)
        BY <1>4, EmptySeq
    <2>3. now \o Slice(fix.end, p) \in Seq(Characters)
        BY <1>6, <2>1, ConcatProperties
    <2>4. g[p] = IF p <= start THEN IF RemovesBOM(fix) THEN <<>> ELSE f[p]
                 ELSE now \o Slice(fix.end, p)
        OBVIOUS
    <2> QED BY <1>2, <2>1, <2>2, <2>3, <2>4
<1>9. g[0] = Opening'
    <2>1. 0 \in 0..(n + 1) /\ (0 < start \/ 0 = start)
        BY <1>1, <1>2
    <2> QED BY <1>3, <1>4, <1>8, <2>1
<1>10. ASSUME NEW p \in 0..n
       PROVE  g[p + 1] = g[p] \o (Inserted(p)' \o Kept(p)')
    <2>1. p \in Nat /\ p \in 0..(n + 1) /\ p + 1 \in 0..(n + 1) /\ p + 1 \in Nat
        BY <1>1
    <2>2. CASE p < start
        <3>1. g[p] = f[p] /\ g[p + 1] = f[p + 1]
            BY <1>2, <1>8, <2>1, <2>2
        <3>2. Inserted(p)' = Inserted(p)
            BY <1>2, <1>3, <2>1, <2>2
        <3>3. Kept(p)' = Kept(p)
            BY <1>2, <1>3, <2>1, <2>2
        <3>4. f[p + 1] = f[p] \o (Inserted(p) \o Kept(p))
            BY <1>4
        <3> QED BY <3>1, <3>2, <3>3, <3>4
    <2>3. CASE p >= start
        <3> DEFINE letter == LetterAfter(fix.end, p)
        <3>1. g[p + 1] = now \o (Slice(fix.end, p) \o letter)
            <4>1. g[p + 1] = now \o Slice(fix.end, p + 1)
                BY <1>2, <1>8, <2>1, <2>3
            <4>2. Slice(fix.end, p + 1) = Slice(fix.end, p) \o letter
                BY <1>1, <1>2, <2>1, SliceGrows
            <4> QED BY <4>1, <4>2
        <3>2. letter \in Seq(Characters) /\ Slice(fix.end, p) \in Seq(Characters)
              /\ Kept(p)' = letter
            BY <1>2, <1>3, <1>6, <2>1, <2>3
        <3> HIDE DEF letter
        <3>3. CASE p = start
            <4>1. Slice(fix.end, p) = <<>>
                BY <1>1, <1>2, <2>1, <3>3, SliceOfNothing
            <4>2. g[p + 1] = (base \o fix.text) \o letter
                BY <1>7, <3>1, <3>2, <4>1, ConcatNothing
            <4>3. (base \o fix.text) \o letter = base \o (fix.text \o letter)
                <5>1. /\ fix.text \in Seq(Characters) /\ base \in Seq(Characters)
                      /\ letter \in Seq(Characters)
                    BY <1>6, <1>7, <3>2
                <5>2. \A a, b, c \in Seq(Characters) : (a \o b) \o c = a \o (b \o c)
                    BY ConcatAssociates
                <5> QED BY <5>1, <5>2, Zenon
            <4>4. g[p] = base /\ Inserted(p)' = fix.text
                BY <1>3, <1>8, <2>1, <3>3
            <4> QED BY <3>2, <4>2, <4>3, <4>4
        <3>4. CASE p > start
            <4>1. g[p] = now \o Slice(fix.end, p) /\ Inserted(p)' = <<>>
                BY <1>2, <1>3, <1>5, <1>8, <2>1, <3>4
            <4>2. now \o (Slice(fix.end, p) \o letter) = (now \o Slice(fix.end, p)) \o letter
                <5>1. now \in Seq(Characters)
                    BY <1>6
                <5>2. Slice(fix.end, p) \in Seq(Characters) /\ letter \in Seq(Characters)
                    BY <3>2
                <5> QED BY <5>1, <5>2, ConcatAssociates
            <4>3. Inserted(p)' \o Kept(p)' = letter
                BY <3>2, <4>1, ConcatNothing
            <4> QED BY <3>1, <4>1, <4>2, <4>3
        <3>5. p = start \/ p > start
            BY <1>2, <2>1, <2>3
        <3> QED BY <3>3, <3>4, <3>5
    <2>4. p < start \/ p >= start
        BY <1>2, <2>1
    <2> QED BY <2>2, <2>3, <2>4
<1>11. ASSUME NEW p \in fix.end..n
       PROVE  g[p] \o Inserted(p)' = now \o Slice(fix.end, p)
    <2>1. p \in Nat /\ p \in 0..(n + 1) /\ (p > start \/ p = start)
        BY <1>1, <1>2
    <2>2. CASE p > start
        <3>1. Inserted(p)' = <<>> /\ g[p] = now \o Slice(fix.end, p)
            BY <1>2, <1>3, <1>5, <1>8, <2>1, <2>2
        <3> QED BY <1>8, <2>1, <3>1, ConcatNothing
    <2>3. CASE p = start
        <3>1. g[p] \o Inserted(p)' = now
            BY <1>3, <1>7, <1>8, <2>1, <2>3
        <3>2. Slice(fix.end, p) = <<>>
            BY <1>1, <1>2, <2>1, <2>3, SliceOfNothing
        <3> QED BY <1>6, <3>1, <3>2, ConcatNothing
    <2> QED BY <2>1, <2>2, <2>3
<1>12. code' = code /\ output' = now /\ lastPos' = fix.end /\ NotNegative(fix.end) = fix.end
       /\ Text' = Text /\ \A from, to : Slice(from, to)' = Slice(from, to)
    BY <1>2, TextStays DEF Applies, fix, now, NotNegative
<1>13. Prefixes(g)'
    <2>1. g \in [0..(n + 1) -> Seq(Characters)]
        BY <1>8
    <2> QED BY <1>9, <1>10, <1>12, <2>1 DEF Prefixes
<1>14. Reached(g)'
    <2>1. NotNegative(lastPos)' = fix.end
        BY <1>12 DEF NotNegative
    <2> PICK end : end = fix.end
        OBVIOUS
    <2>2. \A p \in end..n : g[p] \o Inserted(p)' = output' \o Slice(end, p)
        BY <1>11, <1>12
    <2>3. \A p \in end..n : g[p] \o Inserted(p)' = output' \o Slice(end, p)'
        BY <1>12, <2>2
    <2>4. NotNegative(lastPos)' = end /\ Text' = Text
        BY <1>12, <2>1
    <2> QED BY <2>3, <2>4 DEF Reached
<1> QED BY <1>13, <1>14

LEMMA ReplacedStays ==
    ASSUME UNCHANGED <<code, messages, lastPos, output, applied>>
    PROVE  \A f : (Prefixes(f) <=> Prefixes(f)') /\ (Reached(f) <=> Reached(f)')
<1>1. Text' = Text /\ \A from, to : Slice(from, to)' = Slice(from, to)
    BY TextStays
<1>2. \A p : Inserted(p)' = Inserted(p)
    BY DEF Inserted, Position, NotNegative
<1>3. Opening' = Opening
    BY <1>2, TextStays DEF Opening, RemovesBOM, HasBOM
<1>4. \A p : Kept(p)' = Kept(p)
    BY <1>1 DEF Kept, Covered
<1>5. ASSUME NEW f
      PROVE  Prefixes(f) <=> Prefixes(f)'
    BY <1>1, <1>2, <1>3, <1>4 DEF Prefixes
<1>6. ASSUME NEW f
      PROVE  Reached(f) <=> Reached(f)'
    <2> PICK last : last = NotNegative(lastPos)
        OBVIOUS
    <2>1. last = NotNegative(lastPos)'
        BY DEF NotNegative
    <2>2. Reached(f) <=> \A p \in last..Len(Text) : f[p] \o Inserted(p) = output \o Slice(last, p)
        BY DEF Reached
    <2>3. Reached(f)' <=> \A p \in last..Len(Text)' :
                              f[p] \o Inserted(p)' = output' \o Slice(last, p)'
        BY <2>1 DEF Reached
    <2> QED BY <1>1, <1>2, <2>2, <2>3
<1> QED BY <1>5, <1>6

LEMMA AttemptReplaces ==
    ASSUME PassInv, InOrder, LeftOutForAReason, Replaced, AttemptFix
    PROVE  Replaced'
<1>1. phase = "fix" /\ UNCHANGED <<phase, code, messages>>
    BY DEF AttemptFix
<1>2. FixesFit /\ \E f : Prefixes(f) /\ Reached(f)
    BY <1>1 DEF Replaced
<1>3. FixesFit'
    BY <1>1, <1>2, TextStays DEF FixesFit
<1>4. PICK i \in todo : IF Remains(messages[i])
                        THEN UNCHANGED <<lastPos, output, applied>>
                        ELSE /\ output' = OutputWith(messages[i])
                             /\ lastPos' = messages[i].end
                             /\ applied' = applied \cup {i}
    BY DEF AttemptFix
<1>5. PICK f : Prefixes(f) /\ Reached(f)
    BY <1>2
<1>6. CASE Remains(messages[i])
    <2>1. UNCHANGED <<code, messages, lastPos, output, applied>>
        BY <1>1, <1>4, <1>6
    <2> QED BY <1>3, <1>5, <2>1, ReplacedStays DEF Replaced
<1>7. CASE ~Remains(messages[i])
    <2>1. Applies(i)
        BY <1>1, <1>4, <1>7 DEF Applies
    <2>2. messages[i].end < 0 \/ messages[i].end >= 0
        BY <1>2, <2>1, AppliedBeyond
    <2>3. \E g : Prefixes(g)' /\ Reached(g)'
        BY <1>2, <1>5, <2>1, <2>2, BeforeTextReplaced, OneMoreReplaced
    <2> QED BY <1>3, <2>3 DEF Replaced
<1> QED BY <1>6, <1>7

(* The reference definition is the last of the prefixes: there is one      *)
(* function that satisfies its equations.                                  *)
LEMMA LastPrefix ==
    ASSUME code \in Seq(Characters), NEW f, Prefixes(f)
    PROVE  AllAtOnce = f[Len(Text) + 1]
<1>1. PICK n : n = Len(Text) + 1
    OBVIOUS
<1>2. n \in Nat
    BY <1>1, TextIsSeq
<1> DEFINE Equation(u) ==
               u = [p \in 0..(Len(Text) + 1) |->
                       IF p = 0 THEN Opening ELSE u[p - 1] \o (Inserted(p - 1) \o Kept(p - 1))]
           UpTo == CHOOSE UpTo : Equation(UpTo)
<1>3. AllAtOnce = UpTo[Len(Text) + 1]
    BY DEF AllAtOnce
<1>4. Equation(f)
    <2>1. f \in [0..n -> Seq(Characters)] /\ f[0] = Opening
          /\ \A p \in 0..Len(Text) : f[p + 1] = f[p] \o (Inserted(p) \o Kept(p))
        BY <1>1 DEF Prefixes
    <2>2. ASSUME NEW p \in 0..n, p # 0
          PROVE  f[p] = f[p - 1] \o (Inserted(p - 1) \o Kept(p - 1))
        <3>1. p - 1 \in 0..Len(Text) /\ (p - 1) + 1 = p
            BY <1>1, <1>2, <2>2, TextIsSeq
        <3>2. f[(p - 1) + 1] = f[p - 1] \o (Inserted(p - 1) \o Kept(p - 1))
            BY <2>1, <3>1
        <3> QED BY <3>1, <3>2
    <2> QED BY <1>1, <2>1, <2>2
<1>5. Equation(UpTo)
    <2> HIDE DEF Equation
    <2> QED BY <1>4
<1> HIDE DEF UpTo
<1>6. \A p \in 0..n : p # 0 => /\ p - 1 \in 0..n
                              /\ UpTo[p] = UpTo[p - 1] \o (Inserted(p - 1) \o Kept(p - 1))
                              /\ f[p] = f[p - 1] \o (Inserted(p - 1) \o Kept(p - 1))
    <2>1. \A p \in 0..n : p # 0 => p - 1 \in 0..n
        BY <1>2
    <2> QED BY <1>1, <1>4, <1>5, <2>1
<1>7. 0 \in 0..n /\ UpTo[0] = f[0]
    BY <1>1, <1>2, <1>4, <1>5
<1> HIDE DEF Equation
<1> DEFINE Differ == {p \in 0..n : UpTo[p] # f[p]}
<1>8. Differ = {}
    <2> SUFFICES ASSUME Differ # {} PROVE FALSE
        OBVIOUS
    <2>1. PICK p \in Differ : \A q \in Differ : p <= q
        <3>1. Differ \in SUBSET Nat
            BY <1>2
        <3> HIDE DEF Differ
        <3> QED BY <3>1, LeastNumber
    <2>2. p \in 0..n /\ p # 0 /\ UpTo[p] # f[p]
        BY <1>7
    <2>3. p - 1 \in 0..n /\ p - 1 \notin Differ
        BY <1>2, <1>6, <2>1, <2>2
    <2> QED BY <1>6, <2>2, <2>3
<1>9. UpTo[n] = f[n]
    BY <1>2, <1>8
<1> QED BY <1>1, <1>3, <1>9

(* What the fixer makes of the code, going through the fixes once, is what *)
(* comes of applying them all at once (SourceCodeFixer.ts:62-83, 93-112).  *)
THEOREM AllReplaced == Spec => []FixedIsAllAtOnce
<1>1. Init => Replaced
    BY DEF Init, Replaced
<1>2. ASSUME PassInv, InOrder, LeftOutForAReason, Replaced, [Next]_vars
      PROVE  Replaced'
    <2>1. CASE FinishPass
        <3>1. phase' # "fix"
            BY <2>1 DEF FinishPass, ChangedOrEnd
        <3> QED BY <3>1 DEF Replaced
    <2>2. CASE UNCHANGED vars
        <3>1. UNCHANGED <<phase, code, messages, lastPos, output, applied>>
            BY <2>2 DEF vars
        <3>2. FixesFit' <=> FixesFit
            BY <3>1, TextStays DEF FixesFit
        <3>3. \A f : (Prefixes(f) <=> Prefixes(f)') /\ (Reached(f) <=> Reached(f)')
            BY <3>1, ReplacedStays
        <3> QED BY <1>2, <3>1, <3>2, <3>3 DEF Replaced
    <2> QED BY <1>2, <2>1, <2>2, VerifyReplaces, AttemptReplaces DEF Next
<1>3. ASSUME PassInv, InOrder, Replaced
      PROVE  FixedIsAllAtOnce
    <2> SUFFICES ASSUME phase = "fix"
                 PROVE  Fixed = AllAtOnce
        BY DEF FixedIsAllAtOnce
    <2>1. PICK f : Prefixes(f) /\ Reached(f)
        BY <1>3 DEF Replaced
    <2>2. code \in Seq(Characters) /\ output \in Seq(Characters) /\ lastPos \in Int
        BY <1>3 DEF PassInv, DataOK
    <2>3. PICK n : n = Len(Text)
        OBVIOUS
    <2>4. n \in Nat /\ n \in 0..n
        BY <2>2, <2>3, TextIsSeq
    <2>5. NotNegative(lastPos) <= n /\ NotNegative(lastPos) \in Nat
        <3>1. \A j \in applied : messages[j].end <= n
            BY <1>3, <2>3 DEF Replaced, FixesFit, PassInv, TodoOK
        <3>2. lastPos = NegativeInfinity \/ lastPos <= n
            BY <1>3, <3>1 DEF InOrder
        <3> QED BY <2>2, <2>4, <3>2 DEF NegativeInfinity, NotNegative
    <2>6. f[n] \o Inserted(n) = Fixed
        <3>1. n \in NotNegative(lastPos)..n
            BY <2>4, <2>5
        <3> QED BY <2>1, <2>3, <3>1 DEF Reached, Fixed
    <2>7. Kept(n) = <<>>
        BY <2>3, <2>4 DEF Kept
    <2>8. AllAtOnce = f[n] \o (Inserted(n) \o <<>>)
        <3>1. AllAtOnce = f[n + 1]
            BY <2>1, <2>2, <2>3, LastPrefix
        <3>2. f[n + 1] = f[n] \o (Inserted(n) \o Kept(n))
            BY <2>1, <2>3, <2>4 DEF Prefixes
        <3> QED BY <2>7, <3>1, <3>2
    <2>9. Inserted(n) \in Seq(Characters)
        <3>1. \A j \in applied : messages[j].text \in Seq(Characters)
            <4>1. \A j \in applied : messages[j] \in Fixes
                BY <1>3, ElementOfSeq, LenProperties DEF PassInv, DataOK, TodoOK
            <4> QED BY <4>1 DEF Fixes
        <3> QED BY <3>1, EmptySeq DEF Inserted
    <2> QED BY <2>6, <2>8, <2>9, ConcatNothing
<1>4. Spec => []InOrder
    BY OrderHolds
<1> QED BY <1>1, <1>2, <1>3, <1>4, NothingLeftOut, PassHolds, PTL DEF Spec
====
