--------------------------- MODULE RuleTesterFixes ---------------------------
(***************************************************************************)
(* rule-tester: runRuleForItem lints a test's code, applies the fixes the  *)
(* rule offers and lints the result again, in at most MaxPasses passes.    *)
(* SourceCodeFixer.applyFixes applies the fixes of a pass in the order of  *)
(* their ranges and leaves out those that touch one already applied.  Code *)
(* is a sequence of letters; ranges count from the first that is no BOM.   *)
(***************************************************************************)
EXTENDS Integers, Sequences, FiniteSets

CONSTANTS Letters,     \* of the code
          BOM,         \* the byte order mark
          Insertions,  \* what a fix may put in the place of its range
          MaxPasses,   \* 10 in the code
          MaxLength,   \* bound: a rule inserts only into shorter code
          MaxFixes     \* bound: fixes offered in one pass

ASSUME FixesAssumption ==
    /\ BOM \notin Letters
    /\ Insertions \subseteq Seq(Letters \cup {BOM})
    /\ MaxPasses \in Nat \ {0} /\ MaxLength \in Nat /\ MaxFixes \in Nat

VARIABLES
    phase,      \* what runRuleForItem does next
    code,       \* the code as the passes have left it
    passNumber,
    messages,   \* the fixes of the pass, in the order they were reported
    todo,       \* the fixes not attempted yet
    lastPos,    \* where the last applied fix ends
    output,     \* the fixed text so far
    applied     \* the fixes applied in this pass

vars == <<phase, code, passNumber, messages, todo, lastPos, output, applied>>

NegativeInfinity == -2

HasBOM(text) == text # <<>> /\ Head(text) = BOM
Text         == IF HasBOM(code) THEN Tail(code) ELSE code

(* From a position up to another, or to the end of the text.               *)
Slice(from, to) == SubSeq(Text, from + 1, IF to < Len(Text) THEN to ELSE Len(Text))

NotNegative(n) == IF n < 0 THEN 0 ELSE n

(* The fixes of a rule.  Before the text there is the position of the BOM; *)
(* a rule may insert there, and may get start and end the wrong way round. *)
Offered ==
    LET Positions == -1..Len(Text)
    IN  {fix \in [start : Positions, end : Positions, text : Insertions] :
            fix.text # <<>> => Len(code) < MaxLength}

Init ==
    /\ phase = "verify"
    /\ code \in UNION {[1..n -> Letters \cup {BOM}] : n \in 0..MaxLength}
    /\ \A k \in DOMAIN code : code[k] = BOM => k = 1
    /\ passNumber = 0
    /\ messages = <<>> /\ todo = {}
    /\ lastPos = NegativeInfinity /\ output = <<>> /\ applied = {}

(* A pass begins: the code is linted, unless it cannot be parsed, and the  *)
(* fixer starts.  Without a fix it returns the code, which ends the run as *)
(* it does when there is nothing to report.                                *)
Lint ==
    /\ phase = "verify"
    /\ \/ \E n \in 0..MaxFixes :
             /\ messages' \in [1..n -> Offered]
             /\ todo' = 1..n
             /\ phase' = IF n = 0 THEN "ended" ELSE "fix"
       \/ phase' = "failed" /\ UNCHANGED <<messages, todo>>
    /\ lastPos' = NegativeInfinity
    /\ output' = IF HasBOM(code) THEN <<BOM>> ELSE <<>>
    /\ applied' = {}
    /\ UNCHANGED code

(* Mutant: a pass after the first is not counted.                          *)
VerifyUncounted == Lint /\ passNumber' = 1

Verify == Lint /\ passNumber' = passNumber + 1

----------------------------------------------------------------------------
(* compareMessagesByFixRange, and the order of reports among equals.       *)
Before(i, j) ==
    LET a == messages[i] b == messages[j] IN
    \/ a.start < b.start
    \/ a.start = b.start /\ a.end < b.end
    \/ a.start = b.start /\ a.end = b.end /\ i < j

(* Mutant: only overlapping fixes are left out, not those that touch.      *)
RemainsIfOverlapping(fix) == lastPos > fix.start \/ fix.start > fix.end

Remains(fix) == lastPos >= fix.start \/ fix.start > fix.end

RemovesBOM(fix) ==
    (fix.start < 0 /\ fix.end >= 0) \/ (fix.start = 0 /\ HasBOM(fix.text))

(* Mutant: the text between two fixes begins one letter late.              *)
OutputPastLetter(fix) ==
    (IF RemovesBOM(fix) THEN <<>> ELSE output)
        \o Slice(NotNegative(lastPos + 1), NotNegative(fix.start)) \o fix.text

OutputWith(fix) ==
    (IF RemovesBOM(fix) THEN <<>> ELSE output)
        \o Slice(NotNegative(lastPos), NotNegative(fix.start)) \o fix.text

AttemptFix ==
    /\ phase = "fix" /\ todo # {}
    /\ \E i \in todo :
          /\ \A j \in todo \ {i} : Before(i, j)
          /\ todo' = todo \ {i}
          /\ IF Remains(messages[i])
             THEN UNCHANGED <<lastPos, output, applied>>
             ELSE /\ output' = OutputWith(messages[i])
                  /\ lastPos' = messages[i].end
                  /\ applied' = applied \cup {i}
    /\ UNCHANGED <<phase, code, passNumber, messages>>

(* The text after the last fix; without fixes the code is as it was.       *)
Fixed == output \o Slice(NotNegative(lastPos), Len(Text))

(* Mutant: passes go on for as long as something is fixed.                 *)
PassesGoOn == messages # <<>>

AnotherPass == messages # <<>> /\ passNumber < MaxPasses

(* A pass that changes nothing ends the run; any other is kept, its result *)
(* must parse, and there may be another.                                   *)
ChangedOrEnd ==
    IF Fixed = code
    THEN phase' = "ended" /\ UNCHANGED code
    ELSE /\ phase' \in {"failed", IF AnotherPass THEN "verify" ELSE "ended"}
         /\ code' = Fixed

(* applyFixes returns, and what it kept is gone.                           *)
FinishPass ==
    /\ phase = "fix" /\ todo = {}
    /\ ChangedOrEnd
    /\ messages' = <<>> /\ lastPos' = NegativeInfinity
    /\ output' = <<>> /\ applied' = {}
    /\ UNCHANGED <<passNumber, todo>>

Next == Verify \/ AttemptFix \/ FinishPass

(* runRuleForItem runs to its end without waiting for anything.            *)
Spec == Init /\ [][Next]_vars /\ WF_vars(Next)

----------------------------------------------------------------------------
(* What runRuleForItem and applyFixes keep.                                *)
TypeOK ==
    /\ phase \in {"verify", "fix", "ended", "failed"}
    /\ code \in Seq(Letters \cup {BOM}) /\ output \in Seq(Letters \cup {BOM})
    /\ passNumber \in 0..MaxPasses
    /\ todo \subseteq DOMAIN messages /\ applied \subseteq DOMAIN messages \ todo
    /\ lastPos \in Int

(* All applied fixes at once: each range is replaced, everything outside   *)
(* the ranges is there once.  What is inserted before the text comes after *)
(* the BOM; a fix that removes the BOM takes both away.                    *)
Position(i) == IF messages[i].end < 0 THEN -1 ELSE NotNegative(messages[i].start)

Inserted(p) ==
    IF \E i \in applied : Position(i) = p
    THEN messages[CHOOSE i \in applied : Position(i) = p].text
    ELSE <<>>

Covered(p) == \E i \in applied : messages[i].start <= p /\ p < messages[i].end

Kept(p) == IF p < Len(Text) /\ ~Covered(p) THEN <<Text[p + 1]>> ELSE <<>>

Opening ==
    IF \E i \in applied : RemovesBOM(messages[i]) THEN <<>>
    ELSE (IF HasBOM(code) THEN <<BOM>> ELSE <<>>) \o Inserted(-1)

AllAtOnce ==
    LET UpTo[p \in 0..(Len(Text) + 1)] ==
            IF p = 0 THEN Opening ELSE UpTo[p - 1] \o (Inserted(p - 1) \o Kept(p - 1))
    IN  UpTo[Len(Text) + 1]

(* What the fixer makes of the code, going through the fixes once, is what *)
(* comes of applying them all at once (SourceCodeFixer.ts:62-83, 93-112).  *)
FixedIsAllAtOnce ==
    phase = "fix" /\ todo = {} => Fixed = AllAtOnce

(* Fixes are left out of a pass only for their range being the wrong way   *)
(* round or for touching one that is applied, and no two that are applied  *)
(* touch (SourceCodeFixer.ts:67-71).                                       *)
Touch(a, b) == a.start <= b.end /\ b.start <= a.end

LeftOutForAReason ==
    /\ \A i \in DOMAIN messages \ (todo \cup applied) :
          \/ messages[i].start > messages[i].end
          \/ \E j \in applied : Touch(messages[i], messages[j])
    /\ \A i, j \in applied : i # j => ~Touch(messages[i], messages[j])

(* The passes come to an end, also for a rule that undoes its own fixes    *)
(* (RuleTester.ts:790-863).                                                *)
PassesEnd == <>(phase \in {"ended", "failed"})
=============================================================================
