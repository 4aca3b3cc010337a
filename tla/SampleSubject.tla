--------------------------- MODULE SampleSubject ---------------------------
(***************************************************************************)
(* The functions of sample_subject/src, the code whose paths the platform  *)
(* measures, run call by call by the test files of a suite.  Vitest runs   *)
(* each test file in a worker of its own, so the calls of one file come in *)
(* order and those of two files interleave; the coverage of a run is what  *)
(* all of them have taken together.                                        *)
(*                                                                         *)
(* A function without a loop is an operator; the two with loops are        *)
(* machines whose steps are the passes of their loops.  The value a        *)
(* straight-line function returns names the path it took.                  *)
(***************************************************************************)
EXTENDS Integers, Sequences

CONSTANTS Files,     \* the test files
          Suites,    \* what they may hold: for each file its calls
          Complete   \* the suites that are said to take every branch

(* Calls one after the other, of the argument types the loops declare.     *)
CallsOK(calls) ==
    /\ Len(calls) \in Nat /\ DOMAIN calls = 1..Len(calls)
    /\ \A k \in DOMAIN calls :
          /\ calls[k].fn = "flatten" => calls[k].args[1] \in Seq(Seq(Int))
          /\ calls[k].fn = "sumWhile" => calls[k].args[1] \in Int

ASSUME SuiteAssumption ==
    /\ \A t \in Suites : DOMAIN t = Files /\ \A f \in Files : CallsOK(t[f])
    /\ Complete \subseteq Suites

VARIABLES suite,     \* suite[f]: the calls of f, [fn, args, expect]
          at,        \* at[f]: the call f is at
          frame,     \* frame[f]: the local variables of that call, when it loops
          passed,    \* passed[f]: every expect of f so far held
          taken      \* the branches taken so far, by any file

vars == <<suite, at, frame, passed, taken>>

-----------------------------------------------------------------------------
(* Mutant: the boundary of the highest class is moved. *)
ScheduleTaskLater(enabled, priority, retries) ==
    IF ~enabled THEN "disabled"
    ELSE CASE priority = "critical" /\ retries > 15 -> "critical-max-retries"
           [] priority = "critical" /\ retries > 3 /\ retries <= 15 -> "critical-retry"
           [] priority = "critical" /\ retries <= 3 -> "critical-immediate"
           [] priority = "high" /\ retries > 0 -> "high-retry"
           [] priority = "high" /\ retries <= 0 -> "high-once"
           [] priority = "medium" -> "medium-queue"
           [] OTHER -> "low-queue"

ScheduleTask(enabled, priority, retries) ==
    IF ~enabled THEN "disabled"
    ELSE CASE priority = "critical" /\ retries > 10 -> "critical-max-retries"
           [] priority = "critical" /\ retries > 3 /\ retries <= 10 -> "critical-retry"
           [] priority = "critical" /\ retries <= 3 -> "critical-immediate"
           [] priority = "high" /\ retries > 0 -> "high-retry"
           [] priority = "high" /\ retries <= 0 -> "high-once"
           [] priority = "medium" -> "medium-queue"
           [] OTHER -> "low-queue"

DetectUnreachableFlag(flag) == IF flag THEN "on" ELSE "off"

ClassifyScore(score) ==
    CASE score < 0                 -> "invalid"
      [] score >= 0 /\ score < 50  -> "fail"
      [] score >= 50 /\ score < 75 -> "pass"
      [] OTHER                     -> "excellent"

RouteAction(flag, value) == IF flag THEN value * 2 ELSE value + 1

SwitchPath(code) ==
    CASE code = 1 -> "alpha" [] code = 2 -> "beta" [] code = 3 -> "gamma"
      [] OTHER    -> "unknown"

CombinePaths(a, b, mode) == IF mode = "add" THEN a + b ELSE a * b

(* What a call of a straight-line function returns, and the branch it takes. *)
Value(fn, a) ==
    CASE fn = "scheduleTask"          -> ScheduleTask(a[1], a[2], a[3])
      [] fn = "detectUnreachableFlag" -> DetectUnreachableFlag(a[1])
      [] fn = "classifyScore"         -> ClassifyScore(a[1])
      [] fn = "routeAction"           -> RouteAction(a[1], a[2])
      [] fn = "switchPath"            -> SwitchPath(a[1])
      [] fn = "combinePaths"          -> CombinePaths(a[1], a[2], a[3])

Branch(fn, a) ==
    CASE fn = "routeAction"  -> <<fn, IF a[1] THEN "flag" ELSE "no flag">>
      [] fn = "combinePaths" -> <<fn, a[3]>>
      [] OTHER               -> <<fn, Value(fn, a)>>

Loops == {"flatten", "sumWhile"}

-----------------------------------------------------------------------------
Call(f) == suite[f][at[f]]

NoFrame == [i |-> 0, j |-> 0, total |-> 0, result |-> <<>>]

TypeOK ==
    /\ suite \in Suites
    /\ \A f \in Files : at[f] \in 1..(Len(suite[f]) + 1)
    /\ \A f \in Files : /\ frame[f].i \in Nat /\ frame[f].j \in Nat
                        /\ frame[f].total \in Int
    /\ passed \in [Files -> BOOLEAN]

Init ==
    /\ suite \in Suites
    /\ at = [f \in Files |-> 1]
    /\ frame = [f \in Files |-> NoFrame]
    /\ passed = [f \in Files |-> TRUE]
    /\ taken = {}

(* The call returns v, and the test compares it. *)
Return(f, v) ==
    /\ at' = [at EXCEPT ![f] = @ + 1]
    /\ frame' = [frame EXCEPT ![f] = NoFrame]
    /\ passed' = [passed EXCEPT ![f] = @ /\ v = Call(f).expect]

StayIn(f, fr) ==
    /\ frame' = [frame EXCEPT ![f] = fr]
    /\ UNCHANGED <<at, passed>>

Take(branches) == taken' = taken \cup branches

Straight(f) ==
    /\ Call(f).fn \notin Loops
    /\ Return(f, Value(Call(f).fn, Call(f).args))
    /\ Take({Branch(Call(f).fn, Call(f).args)})

(* Mutant: i is counted down. *)
SumPassDown(f) ==
    /\ Call(f).fn = "sumWhile" /\ frame[f].i < Call(f).args[1]
    /\ StayIn(f, [frame[f] EXCEPT !.total = @ + frame[f].i, !.i = @ - 1])
    /\ Take({<<"sumWhile", "pass">>})

(* while (i < n) { total += i; i += 1 } *)
SumPass(f) ==
    /\ Call(f).fn = "sumWhile" /\ frame[f].i < Call(f).args[1]
    /\ StayIn(f, [frame[f] EXCEPT !.total = @ + frame[f].i, !.i = @ + 1])
    /\ Take({<<"sumWhile", "pass">>})

SumEnd(f) ==
    /\ Call(f).fn = "sumWhile" /\ frame[f].i >= Call(f).args[1]
    /\ Return(f, frame[f].total)
    /\ Take({<<"sumWhile", "end">>})

(***************************************************************************)
(* for (const row of values) for (const cell of row)                       *)
(*     if (cell >= 0) result.push(cell)                                    *)
(* i rows have been begun; j cells of the last of them have been seen.     *)
(***************************************************************************)
Row(f) == Call(f).args[1][frame[f].i]

InRow(f) == frame[f].i > 0 /\ frame[f].j < Len(Row(f))

(* Mutant: zero is dropped with the negative cells. *)
FlattenCellPositive(f) ==
    /\ Call(f).fn = "flatten" /\ InRow(f)
    /\ LET cell == Row(f)[frame[f].j + 1]
       IN  /\ StayIn(f, [frame[f] EXCEPT !.j = @ + 1,
                             !.result = IF cell > 0 THEN Append(@, cell) ELSE @])
           /\ Take({<<"flatten", IF cell > 0 THEN "push" ELSE "skip">>})

FlattenCell(f) ==
    /\ Call(f).fn = "flatten" /\ InRow(f)
    /\ LET cell == Row(f)[frame[f].j + 1]
       IN  /\ StayIn(f, [frame[f] EXCEPT !.j = @ + 1,
                             !.result = IF cell >= 0 THEN Append(@, cell) ELSE @])
           /\ Take({<<"flatten", IF cell >= 0 THEN "push" ELSE "skip">>})

FlattenRow(f) ==
    /\ Call(f).fn = "flatten" /\ ~InRow(f) /\ frame[f].i < Len(Call(f).args[1])
    /\ StayIn(f, [frame[f] EXCEPT !.i = @ + 1, !.j = 0])
    /\ Take({<<"flatten", "row">>})

FlattenEnd(f) ==
    /\ Call(f).fn = "flatten" /\ ~InRow(f) /\ frame[f].i = Len(Call(f).args[1])
    /\ Return(f, frame[f].result)
    /\ Take({<<"flatten", "end">>})

Next == /\ UNCHANGED suite
        /\ \E f \in Files :
            /\ at[f] <= Len(suite[f])
            /\ \/ Straight(f) \/ SumPass(f) \/ SumEnd(f)
               \/ FlattenCell(f) \/ FlattenRow(f) \/ FlattenEnd(f)

Spec == Init /\ [][Next]_vars

-----------------------------------------------------------------------------
Done == \A f \in Files : at[f] > Len(suite[f])

(* Every call has returned what its test expects, at whatever point of the  *)
(* two files' interleaving.                                                 *)
ExpectsHold == \A f \in Files : passed[f]

(* The branches of the functions: each return of a straight-line one, each  *)
(* side of the loop conditions and of the test in flatten.                  *)
Branches ==
    ({"scheduleTask"} \X {"disabled", "critical-max-retries", "critical-retry",
                          "critical-immediate", "high-retry", "high-once",
                          "medium-queue", "low-queue"})
    \cup ({"detectUnreachableFlag"} \X {"on", "off"})
    \cup ({"classifyScore"} \X {"invalid", "fail", "pass", "excellent"})
    \cup ({"routeAction"} \X {"flag", "no flag"})
    \cup ({"switchPath"} \X {"alpha", "beta", "gamma", "unknown"})
    \cup ({"combinePaths"} \X {"add", "mul"})
    \cup ({"flatten"} \X {"row", "push", "skip", "end"})
    \cup ({"sumWhile"} \X {"pass", "end"})

(* When both test files have ended, every branch has been taken: the 100%   *)
(* branch coverage the README states of sample_subject/tests.               *)
SuiteTakesEveryBranch == Done /\ suite \in Complete => Branches \subseteq taken
=============================================================================
