------------------------- MODULE SampleSubjectProofs -------------------------
(***************************************************************************)
(* Theorems about SampleSubject, for suites of any number of files and     *)
(* calls and loops over inputs of any size: type correctness, what every   *)
(* call returns, and which branches a suite takes.  A call is independent  *)
(* of what other files do, since its locals are its file's; that a loop    *)
(* comes out at its reference definition is an invariant of its passes.    *)
(***************************************************************************)
EXTENDS SampleSubject, LeastNumbers, SequenceTheorems, TLAPS

Cells == Seq(Int)
Rows  == Seq(Cells)

(* Reference definitions: all rows one after the other, and of a row the   *)
(* cells that are not negative.  Each is built from the first item on, so  *)
(* that what the first i items give can be spoken of.                      *)
FirstRows(rows) ==
    Iterated(Len(rows), <<>>, [i \in 1..Len(rows) |-> [first \in Cells |-> first \o rows[i]]])

Joined(rows) == FirstRows(rows)[Len(rows)]

FirstKept(cells) ==
    Iterated(Len(cells), <<>>,
             [k \in 1..Len(cells) |-> [first \in Cells |->
                 IF cells[k] >= 0 THEN Append(first, cells[k]) ELSE first]])

NonNegative(cells) == FirstKept(cells)[Len(cells)]

(* What a call is to return.                                               *)
Expected(c) ==
    CASE c.fn = "flatten"  -> NonNegative(Joined(c.args[1]))
      [] c.fn = "sumWhile" -> IF c.args[1] > 0 THEN (c.args[1] * (c.args[1] - 1)) \div 2 ELSE 0
      [] OTHER             -> Value(c.fn, c.args)

(* The branches a call takes, and those of them its loops have taken when  *)
(* they are at a frame.                                                    *)
CellBranch(cell) == <<"flatten", IF cell >= 0 THEN "push" ELSE "skip">>

Outcomes == {CellBranch(0), CellBranch(-1)}

SeenCells(rows, i, j) ==
    {b \in Outcomes : \E a \in 1..i : \E q \in 1..Len(rows[a]) :
                          (a < i \/ q <= j) /\ b = CellBranch(rows[a][q])}

Begun(c, fr) ==
    CASE c.fn = "flatten"  -> {b \in {<<"flatten", "row">>} : fr.i > 0}
                              \cup SeenCells(c.args[1], fr.i, fr.j)
      [] c.fn = "sumWhile" -> {b \in {<<"sumWhile", "pass">>} : fr.i > 0}
      [] OTHER             -> {}

CallBranches(c) ==
    CASE c.fn = "flatten" ->
            {b \in {<<"flatten", "row">>} : Len(c.args[1]) > 0} \cup {<<"flatten", "end">>}
            \cup {b \in Outcomes : \E a \in 1..Len(c.args[1]) : \E q \in 1..Len(c.args[1][a]) :
                                       b = CellBranch(c.args[1][a][q])}
      [] c.fn = "sumWhile" ->
            {b \in {<<"sumWhile", "pass">>} : c.args[1] > 0} \cup {<<"sumWhile", "end">>}
      [] OTHER -> {Branch(c.fn, c.args)}

----------------------------------------------------------------------------
(* Where a call is in its loops.                                           *)
Frames == [i : Nat, j : Nat, total : Int, result : Cells]

Reach(rows, i) == Len(FirstRows(rows)[i])
Width(rows, i) == Len(rows[i])

Position(rows, i, j) == IF i = 0 THEN 0 ELSE Reach(rows, i - 1) + j

SumOK(n, fr) == fr.i <= (IF n > 0 THEN n ELSE 0) /\ 2 * fr.total = fr.i * (fr.i - 1)

FlattenOK(rows, fr) ==
    /\ fr.i <= Len(rows) /\ fr.j <= (IF fr.i = 0 THEN 0 ELSE Width(rows, fr.i))
    /\ fr.result = FirstKept(Joined(rows))[Position(rows, fr.i, fr.j)]

FrameOK(c, fr) ==
    /\ fr \in Frames
    /\ c.fn \notin Loops => fr = NoFrame
    /\ c.fn = "sumWhile" => SumOK(c.args[1], fr)
    /\ c.fn = "flatten" => FlattenOK(c.args[1], fr)

FileOK(f) ==
    /\ at[f] \in 1..(Len(suite[f]) + 1)
    /\ IF at[f] <= Len(suite[f]) THEN FrameOK(Call(f), frame[f]) ELSE frame[f] = NoFrame

SubjectInv ==
    /\ suite \in Suites
    /\ at \in [Files -> Nat] /\ frame \in [Files -> Frames] /\ passed \in [Files -> BOOLEAN]
    /\ \A f \in Files : FileOK(f)

(* A test has passed so far when its calls are to return what it expects.  *)
AnswerInv ==
    \A f \in Files :
        passed[f] <=> \A k \in 1..(at[f] - 1) : suite[f][k].expect = Expected(suite[f][k])

(* The branches taken are those of the calls that have returned and those  *)
(* their loops have taken of the calls that have not.                      *)
Takes(f, b) ==
    \/ \E k \in 1..(at[f] - 1) : b \in CallBranches(suite[f][k])
    \/ at[f] <= Len(suite[f]) /\ b \in Begun(Call(f), frame[f])

TakenInv == \A b : b \in taken <=> \E f \in Files : Takes(f, b)

----------------------------------------------------------------------------
(* The reference definitions, step by step.                                *)

LEMMA ConcatCells ==
    ASSUME NEW a \in Cells, NEW b \in Cells
    PROVE  /\ a \o b \in Cells /\ Len(a) \in Nat /\ Len(b) \in Nat
           /\ Len(a \o b) = Len(a) + Len(b)
           /\ \A q \in 1..Len(a) : (a \o b)[q] = a[q]
           /\ \A q \in 1..Len(b) : (a \o b)[Len(a) + q] = b[q]
BY DEF Cells

LEMMA NoCells == <<>> \in Cells /\ Len(<<>>) = 0
BY DEF Cells

CellSteps(n) == [1..n -> [Cells -> Cells]]

LEMMA CellsIterated ==
    ASSUME NEW n \in Nat, NEW step \in CellSteps(n)
    PROVE  /\ Iterated(n, <<>>, step) \in [0..n -> Cells]
           /\ Iterated(n, <<>>, step)[0] = <<>>
           /\ Follows(Iterated(n, <<>>, step), n, step)
BY NoCells, IteratedSteps DEF CellSteps

LEMMA FirstRowsSteps ==
    ASSUME NEW rows \in Rows
    PROVE  /\ Len(rows) \in Nat /\ \A i \in 1..Len(rows) : rows[i] \in Cells
           /\ FirstRows(rows) \in [0..Len(rows) -> Cells]
           /\ FirstRows(rows)[0] = <<>>
           /\ \A i \in 1..Len(rows) :
                  FirstRows(rows)[i] = FirstRows(rows)[i - 1] \o rows[i]
           /\ Joined(rows) \in Cells
<1> PICK n : n = Len(rows)
    OBVIOUS
<1> PICK step : step = [i \in 1..n |-> [first \in Cells |-> first \o rows[i]]]
    OBVIOUS
<1>1. n \in Nat /\ \A i \in 1..n : rows[i] \in Cells
    BY ElementOfSeq, LenProperties DEF Rows
<1>2. step \in CellSteps(n)
    BY <1>1, ConcatCells DEF CellSteps
<1>3. /\ Iterated(n, <<>>, step) \in [0..n -> Cells]
      /\ Iterated(n, <<>>, step)[0] = <<>>
      /\ Follows(Iterated(n, <<>>, step), n, step)
    BY <1>1, <1>2, CellsIterated
<1>4. FirstRows(rows) = Iterated(n, <<>>, step)
    BY DEF FirstRows
<1> PICK F : F = FirstRows(rows)
    OBVIOUS
<1>5. F \in [0..n -> Cells] /\ F[0] = <<>> /\ \A i \in 1..n : F[i] = step[i][F[i - 1]]
    BY <1>3, <1>4 DEF Follows
<1>6. ASSUME NEW i \in 1..n
      PROVE  F[i] = F[i - 1] \o rows[i]
    <2>1. i - 1 \in 0..n
        BY <1>1
    <2>2. F[i - 1] \in Cells
        BY <1>5, <2>1
    <2> QED BY <1>5, <2>2
<1>7. n \in 0..n
    BY <1>1
<1> QED BY <1>1, <1>5, <1>6, <1>7 DEF Joined

LEMMA FirstKeptSteps ==
    ASSUME NEW cells \in Cells
    PROVE  /\ Len(cells) \in Nat /\ \A k \in 1..Len(cells) : cells[k] \in Int
           /\ FirstKept(cells) \in [0..Len(cells) -> Cells]
           /\ FirstKept(cells)[0] = <<>>
           /\ \A k \in 1..Len(cells) :
                  FirstKept(cells)[k] = IF cells[k] >= 0
                                        THEN Append(FirstKept(cells)[k - 1], cells[k])
                                        ELSE FirstKept(cells)[k - 1]
<1> PICK n : n = Len(cells)
    OBVIOUS
<1> PICK step : step = [k \in 1..n |-> [first \in Cells |->
                           IF cells[k] >= 0 THEN Append(first, cells[k]) ELSE first]]
    OBVIOUS
<1>1. n \in Nat /\ \A k \in 1..n : cells[k] \in Int
    BY ElementOfSeq, LenProperties DEF Cells
<1>2. step \in CellSteps(n)
    BY <1>1, AppendProperties DEF Cells, CellSteps
<1>3. /\ Iterated(n, <<>>, step) \in [0..n -> Cells]
      /\ Iterated(n, <<>>, step)[0] = <<>>
      /\ Follows(Iterated(n, <<>>, step), n, step)
    BY <1>1, <1>2, CellsIterated
<1>4. FirstKept(cells) = Iterated(n, <<>>, step)
    BY DEF FirstKept
<1> PICK F : F = FirstKept(cells)
    OBVIOUS
<1>5. F \in [0..n -> Cells] /\ F[0] = <<>> /\ \A k \in 1..n : F[k] = step[k][F[k - 1]]
    BY <1>3, <1>4 DEF Follows
<1>6. ASSUME NEW k \in 1..n
      PROVE  F[k] = IF cells[k] >= 0 THEN Append(F[k - 1], cells[k]) ELSE F[k - 1]
    <2>1. k - 1 \in 0..n
        BY <1>1
    <2>2. F[k - 1] \in Cells
        BY <1>5, <2>1
    <2> QED BY <1>5, <2>2
<1> QED BY <1>1, <1>5, <1>6

(* How far the first rows reach, and where the cells of the last of them   *)
(* are.                                                                    *)
LEMMA RowsReach ==
    ASSUME NEW rows \in Rows
    PROVE  /\ Len(rows) \in Nat
           /\ Reach(rows, 0) = 0 /\ \A i \in 0..Len(rows) : Reach(rows, i) \in Nat
           /\ Reach(rows, Len(rows)) = Len(Joined(rows))
           /\ \A i \in 1..Len(rows) :
                 /\ Width(rows, i) \in Nat
                 /\ Reach(rows, i) = Reach(rows, i - 1) + Width(rows, i)
                 /\ \A q \in 1..Reach(rows, i - 1) :
                       FirstRows(rows)[i][q] = FirstRows(rows)[i - 1][q]
                 /\ \A q \in 1..Width(rows, i) :
                       FirstRows(rows)[i][Reach(rows, i - 1) + q] = rows[i][q]
<1> PICK F : F = FirstRows(rows)
    OBVIOUS
<1>1. /\ Len(rows) \in Nat /\ F[0] = <<>>
      /\ \A i \in 0..Len(rows) : F[i] \in Cells
      /\ \A i \in 1..Len(rows) : rows[i] \in Cells /\ F[i] = F[i - 1] \o rows[i]
    BY FirstRowsSteps
<1>2. Reach(rows, 0) = 0 /\ Reach(rows, Len(rows)) = Len(Joined(rows))
    BY <1>1, NoCells DEF Reach, Joined
<1>3. ASSUME NEW i \in 0..Len(rows)
      PROVE  Reach(rows, i) \in Nat
    <2>1. F[i] \in Cells
        BY <1>1
    <2>2. Len(F[i]) \in Nat
        BY <2>1, ConcatCells
    <2> QED BY <2>2 DEF Reach
<1>4. ASSUME NEW i \in 1..Len(rows)
      PROVE  /\ Width(rows, i) \in Nat
             /\ Reach(rows, i) = Reach(rows, i - 1) + Width(rows, i)
             /\ \A q \in 1..Reach(rows, i - 1) : F[i][q] = F[i - 1][q]
             /\ \A q \in 1..Width(rows, i) : F[i][Reach(rows, i - 1) + q] = rows[i][q]
    <2> PICK a, b : a = F[i - 1] /\ b = rows[i]
        OBVIOUS
    <2>1. a \in Cells /\ b \in Cells /\ F[i] = a \o b
        <3>1. i - 1 \in 0..Len(rows)
            BY <1>1
        <3> QED BY <1>1, <3>1
    <2>2. /\ Len(b) \in Nat /\ Len(a \o b) = Len(a) + Len(b)
          /\ \A q \in 1..Len(a) : (a \o b)[q] = a[q]
          /\ \A q \in 1..Len(b) : (a \o b)[Len(a) + q] = b[q]
        BY <2>1, ConcatCells
    <2>3. Reach(rows, i) = Len(a \o b) /\ Reach(rows, i - 1) = Len(a) /\ Width(rows, i) = Len(b)
        BY <2>1 DEF Reach, Width
    <2> QED BY <2>1, <2>2, <2>3
<1> QED BY <1>1, <1>2, <1>3, <1>4

(* Rows that follow leave the cells in their places.                       *)
LEMMA RowsInPlace ==
    ASSUME NEW rows \in Rows, NEW i \in 0..Len(rows)
    PROVE  /\ Reach(rows, i) <= Len(Joined(rows))
           /\ \A q \in 1..Reach(rows, i) : Joined(rows)[q] = FirstRows(rows)[i][q]
<1> PICK n : n = Len(rows)
    OBVIOUS
<1> DEFINE Extends(k) ==
               /\ Reach(rows, i) <= Reach(rows, k)
               /\ \A q \in 1..Reach(rows, i) : FirstRows(rows)[k][q] = FirstRows(rows)[i][q]
           Bad == {k \in i..n : ~Extends(k)}
<1>1. /\ n \in Nat /\ i \in Nat /\ i <= n
      /\ \A k \in 0..n : Reach(rows, k) \in Nat
    BY RowsReach
<1>2. Bad = {}
    <2> SUFFICES ASSUME Bad # {} PROVE FALSE
        OBVIOUS
    <2>1. PICK k \in Bad : \A l \in Bad : k <= l
        <3>1. Bad \in SUBSET Nat
            BY <1>1
        <3> HIDE DEF Bad
        <3> QED BY <3>1, LeastNumber
    <2>2. k \in i..n /\ k # i
        BY <1>1
    <2>3. k - 1 \in i..n /\ k \in 1..n /\ k - 1 \in 0..n /\ ~(k <= k - 1)
        BY <1>1, <2>2
    <2>4. Extends(k - 1)
        <3>1. k - 1 \notin Bad
            BY <2>1, <2>3
        <3> QED BY <2>3, <3>1
    <2>5. /\ Width(rows, k) \in Nat /\ Reach(rows, k) = Reach(rows, k - 1) + Width(rows, k)
          /\ \A q \in 1..Reach(rows, k - 1) : FirstRows(rows)[k][q] = FirstRows(rows)[k - 1][q]
        BY <2>3, RowsReach
    <2>6. Reach(rows, k - 1) \in Nat /\ Reach(rows, i) \in Nat
        BY <1>1, <2>3
    <2>7. Extends(k)
        BY <2>4, <2>5, <2>6
    <2> QED BY <2>1, <2>7
<1>3. n \notin Bad /\ n \in i..n
    BY <1>1, <1>2
<1>4. Extends(n)
    BY <1>3
<1> QED BY <1>4, RowsReach DEF Joined

(* Where the cells of a row are among the joined rows.                     *)
LEMMA CellsInPlace ==
    ASSUME NEW rows \in Rows, NEW i \in 1..Len(rows)
    PROVE  /\ Position(rows, i, 0) \in Nat /\ Width(rows, i) \in Nat
           /\ \A j \in Nat : Position(rows, i, j) = Position(rows, i, 0) + j
           /\ Position(rows, i, Width(rows, i)) <= Len(Joined(rows))
           /\ i < Len(rows) =>
                 Position(rows, i, Width(rows, i)) = Position(rows, i + 1, 0)
           /\ i = Len(rows) => Position(rows, i, Width(rows, i)) = Len(Joined(rows))
           /\ \A q \in 1..Width(rows, i) : Joined(rows)[Position(rows, i, q)] = rows[i][q]
<1>1. /\ Len(rows) \in Nat /\ i \in Nat /\ i # 0 /\ i - 1 \in 0..Len(rows) /\ i \in 0..Len(rows)
      /\ Reach(rows, i - 1) \in Nat /\ Reach(rows, i) \in Nat /\ Width(rows, i) \in Nat
      /\ Reach(rows, i) = Reach(rows, i - 1) + Width(rows, i)
    BY RowsReach
<1>2. \A j : Position(rows, i, j) = Reach(rows, i - 1) + j
    BY <1>1 DEF Position
<1>3. i < Len(rows) => Position(rows, i + 1, 0) = Reach(rows, i)
    <2>1. i + 1 # 0 /\ (i + 1) - 1 = i
        BY <1>1
    <2>2. Position(rows, i + 1, 0) = Reach(rows, i) + 0
        BY <2>1 DEF Position
    <2> QED BY <1>1, <2>2
<1>4. ASSUME NEW q \in 1..Width(rows, i)
      PROVE  Joined(rows)[Reach(rows, i - 1) + q] = rows[i][q]
    <2>1. Reach(rows, i - 1) + q \in 1..Reach(rows, i)
        BY <1>1
    <2>2. Joined(rows)[Reach(rows, i - 1) + q] = FirstRows(rows)[i][Reach(rows, i - 1) + q]
        BY <1>1, <2>1, RowsInPlace
    <2>3. FirstRows(rows)[i][Reach(rows, i - 1) + q] = rows[i][q]
        BY RowsReach
    <2> QED BY <2>2, <2>3
<1>5. Reach(rows, i) <= Len(Joined(rows)) /\ (i = Len(rows) => Reach(rows, i) = Len(Joined(rows)))
    BY <1>1, RowsInPlace, RowsReach
<1> QED BY <1>1, <1>2, <1>3, <1>4, <1>5

----------------------------------------------------------------------------
(* The passes of the loops.                                                *)
CallTyped(c) ==
    /\ c.fn = "flatten" => c.args[1] \in Rows
    /\ c.fn = "sumWhile" => c.args[1] \in Int

LEMMA FrameFields ==
    ASSUME NEW fr \in Frames
    PROVE  /\ fr.i \in Nat /\ fr.j \in Nat /\ fr.total \in Int /\ fr.result \in Cells
           /\ fr = [i |-> fr.i, j |-> fr.j, total |-> fr.total, result |-> fr.result]
BY DEF Frames

LEMMA LoopNames == "flatten" \in Loops /\ "sumWhile" \in Loops
                   /\ \A fn \in Loops : fn = "flatten" \/ fn = "sumWhile"
BY DEF Loops

LEMMA FrameBegins ==
    ASSUME NEW c, CallTyped(c)
    PROVE  NoFrame \in Frames /\ FrameOK(c, NoFrame) /\ Begun(c, NoFrame) = {}
<1>1. NoFrame \in Frames
    BY NoCells DEF NoFrame, Frames
<1>2. NoFrame.i = 0 /\ NoFrame.j = 0 /\ NoFrame.total = 0 /\ NoFrame.result = <<>>
    BY DEF NoFrame
<1>3. ASSUME c.fn = "sumWhile"
      PROVE  SumOK(c.args[1], NoFrame)
    BY <1>2, <1>3 DEF CallTyped, SumOK
<1>4. ASSUME c.fn = "flatten"
      PROVE  FlattenOK(c.args[1], NoFrame)
    <2>1. c.args[1] \in Rows
        BY <1>4 DEF CallTyped
    <2>2. Joined(c.args[1]) \in Cells /\ Len(c.args[1]) \in Nat
        BY <2>1, FirstRowsSteps
    <2>3. FirstKept(Joined(c.args[1]))[0] = <<>>
        BY <2>2, FirstKeptSteps
    <2>4. Position(c.args[1], 0, 0) = 0
        BY DEF Position
    <2> QED BY <1>2, <2>2, <2>3, <2>4 DEF FlattenOK
<1>5. FrameOK(c, NoFrame)
    BY <1>1, <1>3, <1>4 DEF FrameOK
<1>6. \A rows : SeenCells(rows, 0, 0) = {}
    BY DEF SeenCells
<1>7. Begun(c, NoFrame) = {}
    BY <1>2, <1>6 DEF Begun
<1> QED BY <1>1, <1>5, <1>7

LEMMA SumGoesOn ==
    ASSUME NEW c, CallTyped(c), c.fn = "sumWhile", NEW fr, FrameOK(c, fr), fr.i < c.args[1],
           NEW next, next = [fr EXCEPT !.total = @ + fr.i, !.i = @ + 1]
    PROVE  FrameOK(c, next) /\ Begun(c, next) = Begun(c, fr) \cup {<<"sumWhile", "pass">>}
<1> PICK n : n = c.args[1]
    OBVIOUS
<1>1. fr \in Frames /\ SumOK(n, fr) /\ n \in Int
    BY DEF FrameOK, CallTyped
<1>2. fr.i \in Nat /\ fr.j \in Nat /\ fr.total \in Int /\ fr.result \in Cells
    BY <1>1, FrameFields
<1>3. next \in Frames /\ next.i = fr.i + 1 /\ next.total = fr.total + fr.i
    <2>1. fr = [i |-> fr.i, j |-> fr.j, total |-> fr.total, result |-> fr.result]
        BY <1>1, FrameFields
    <2>2. next = [i |-> fr.i + 1, j |-> fr.j, total |-> fr.total + fr.i, result |-> fr.result]
        BY <2>1
    <2>3. fr.i + 1 \in Nat /\ fr.total + fr.i \in Int
        BY <1>2
    <2> QED BY <1>2, <2>2, <2>3 DEF Frames
<1>4. SumOK(n, next)
    <2>1. n > 0 /\ fr.i + 1 <= n
        BY <1>1, <1>2
    <2>2. 2 * fr.total = fr.i * (fr.i - 1)
        BY <1>1 DEF SumOK
    <2>3. fr.i * (fr.i - 1) + 2 * fr.i = (fr.i + 1) * ((fr.i + 1) - 1)
        BY <1>2
    <2>4. 2 * (fr.total + fr.i) = 2 * fr.total + 2 * fr.i
        BY <1>2
    <2> QED BY <1>3, <2>1, <2>2, <2>3, <2>4 DEF SumOK
<1>5. FrameOK(c, next)
    BY <1>3, <1>4, LoopNames DEF FrameOK
<1>6. next.i > 0
    BY <1>2, <1>3
<1>7. Begun(c, next) = {<<"sumWhile", "pass">>}
    BY <1>6 DEF Begun
<1>8. Begun(c, fr) \subseteq {<<"sumWhile", "pass">>}
    BY DEF Begun
<1> QED BY <1>5, <1>7, <1>8

LEMMA SumComesToAnEnd ==
    ASSUME NEW c, CallTyped(c), c.fn = "sumWhile", NEW fr, FrameOK(c, fr), fr.i >= c.args[1]
    PROVE  /\ fr.total = Expected(c)
           /\ CallBranches(c) = Begun(c, fr) \cup {<<"sumWhile", "end">>}
<1> PICK n : n = c.args[1]
    OBVIOUS
<1>1. fr \in Frames /\ SumOK(n, fr) /\ n \in Int
    BY DEF FrameOK, CallTyped
<1>2. fr.i \in Nat /\ fr.total \in Int
    BY <1>1, FrameFields
<1>3. fr.i = (IF n > 0 THEN n ELSE 0) /\ 2 * fr.total = fr.i * (fr.i - 1)
    BY <1>1, <1>2 DEF SumOK
<1>4. Expected(c) = IF n > 0 THEN (n * (n - 1)) \div 2 ELSE 0
    BY DEF Expected
<1>5. fr.total = Expected(c)
    <2>1. CASE n > 0
        <3>1. 2 * fr.total = n * (n - 1)
            BY <1>3, <2>1
        <3>2. (2 * fr.total) \div 2 = fr.total
            BY <1>2
        <3> QED BY <1>4, <2>1, <3>1, <3>2
    <2>2. CASE ~(n > 0)
        BY <1>2, <1>3, <1>4, <2>2
    <2> QED BY <2>1, <2>2
<1>6. fr.i > 0 <=> n > 0
    BY <1>1, <1>3
<1> QED BY <1>5, <1>6 DEF CallBranches, Begun

LEMMA FlattenFrame ==
    ASSUME NEW c, CallTyped(c), c.fn = "flatten", NEW fr, FrameOK(c, fr)
    PROVE  /\ c.args[1] \in Rows /\ Len(c.args[1]) \in Nat /\ FlattenOK(c.args[1], fr)
           /\ fr.i \in Nat /\ fr.j \in Nat /\ fr.total \in Int /\ fr.result \in Cells
           /\ fr = [i |-> fr.i, j |-> fr.j, total |-> fr.total, result |-> fr.result]
           /\ fr.i \in 0..Len(c.args[1])
           /\ fr.i > 0 => fr.i \in 1..Len(c.args[1])
<1>1. c.args[1] \in Rows /\ FlattenOK(c.args[1], fr) /\ fr \in Frames
    BY DEF CallTyped, FrameOK
<1>2. Len(c.args[1]) \in Nat
    BY <1>1, FirstRowsSteps
<1>3. fr.i <= Len(c.args[1])
    BY <1>1 DEF FlattenOK
<1> QED BY <1>1, <1>2, <1>3, FrameFields

CellAt(c, fr) == c.args[1][fr.i][fr.j + 1]

CellPassed(fr, cell) ==
    [fr EXCEPT !.j = @ + 1, !.result = IF cell >= 0 THEN Append(@, cell) ELSE @]

LEMMA OutcomesOfCells == \A cell : CellBranch(cell) \in Outcomes
BY DEF CellBranch, Outcomes

LEMMA CellPasses ==
    ASSUME NEW c, CallTyped(c), c.fn = "flatten", NEW fr, FrameOK(c, fr),
           fr.i > 0, fr.j < Len(c.args[1][fr.i]),
           NEW cell, cell = CellAt(c, fr)
    PROVE  /\ FrameOK(c, CellPassed(fr, cell))
           /\ Begun(c, CellPassed(fr, cell)) = Begun(c, fr) \cup {CellBranch(cell)}
<1> PICK rows, i, j : rows = c.args[1] /\ i = fr.i /\ j = fr.j
    OBVIOUS
<1> PICK next : next = CellPassed(fr, cell)
    OBVIOUS
<1>0. cell = rows[i][j + 1]
    BY DEF CellAt
<1>1. /\ rows \in Rows /\ i \in 1..Len(rows) /\ j \in Nat /\ fr.total \in Int
      /\ fr.result \in Cells /\ FlattenOK(rows, fr) /\ Joined(rows) \in Cells
      /\ fr = [i |-> i, j |-> j, total |-> fr.total, result |-> fr.result]
    BY FlattenFrame, FirstRowsSteps
<1>2. i \in Nat /\ j + 1 \in 1..Width(rows, i) /\ Width(rows, i) \in Nat
    BY <1>1, RowsReach DEF Width
<1> PICK pos : pos = Position(rows, i, j)
    OBVIOUS
<1>3. /\ pos \in Nat /\ Position(rows, i, j + 1) = pos + 1
      /\ pos + 1 \in 1..Len(Joined(rows)) /\ Joined(rows)[pos + 1] = cell
    <2>1. /\ Position(rows, i, 0) \in Nat
          /\ pos = Position(rows, i, 0) + j
          /\ Position(rows, i, j + 1) = Position(rows, i, 0) + (j + 1)
          /\ Position(rows, i, Width(rows, i)) = Position(rows, i, 0) + Width(rows, i)
          /\ Position(rows, i, Width(rows, i)) <= Len(Joined(rows))
        BY <1>1, <1>2, CellsInPlace
    <2>2. Joined(rows)[Position(rows, i, j + 1)] = rows[i][j + 1]
        BY <1>1, <1>2, CellsInPlace
    <2>3. Len(Joined(rows)) \in Nat
        BY <1>1, FirstKeptSteps
    <2>4. pos \in Nat /\ Position(rows, i, j + 1) = pos + 1
        BY <1>1, <2>1
    <2>5. pos + 1 \in 1..Len(Joined(rows))
        BY <1>1, <1>2, <2>1, <2>3, <2>4
    <2> QED BY <1>0, <2>2, <2>4, <2>5
<1>4. cell \in Int /\ FirstKept(Joined(rows))[pos] = fr.result
      /\ FirstKept(Joined(rows))[pos + 1] = IF cell >= 0 THEN Append(fr.result, cell) ELSE fr.result
    <2>1. cell \in Int
        BY <1>1, <1>3, FirstKeptSteps
    <2>2. FirstKept(Joined(rows))[pos] = fr.result
        BY DEF FlattenOK, FrameOK
    <2>3. (pos + 1) - 1 = pos
        BY <1>3
    <2>4. FirstKept(Joined(rows))[pos + 1] = IF cell >= 0
                                             THEN Append(FirstKept(Joined(rows))[pos], cell)
                                             ELSE FirstKept(Joined(rows))[pos]
        BY <1>1, <1>3, <2>3, FirstKeptSteps
    <2> QED BY <2>1, <2>2, <2>4
<1> PICK result : result = IF cell >= 0 THEN Append(fr.result, cell) ELSE fr.result
    OBVIOUS
<1>5. next = [i |-> i, j |-> j + 1, total |-> fr.total, result |-> result]
    BY <1>1 DEF CellPassed
<1>6. result \in Cells
    BY <1>1, <1>4, AppendProperties DEF Cells
<1>7. next \in Frames /\ next.i = i /\ next.j = j + 1 /\ next.result = result
    <2>1. j + 1 \in Nat
        BY <1>1
    <2> QED BY <1>1, <1>2, <1>5, <1>6, <2>1 DEF Frames
<1>8. FlattenOK(rows, next)
    BY <1>1, <1>2, <1>3, <1>4, <1>7 DEF FlattenOK
<1>9. FrameOK(c, next)
    BY <1>7, <1>8, LoopNames DEF FrameOK
<1>10. SeenCells(rows, i, j + 1) = SeenCells(rows, i, j) \cup {CellBranch(cell)}
    <2>1. \A a \in 1..i : \A q \in 1..Len(rows[a]) :
              (a < i \/ q <= j + 1) <=> (a < i \/ q <= j) \/ (a = i /\ q = j + 1)
        <3>1. ASSUME NEW a \in 1..i, NEW q \in 1..Len(rows[a])
              PROVE  (a < i \/ q <= j + 1) <=> (a < i \/ q <= j) \/ (a = i /\ q = j + 1)
            BY <1>1, <1>2
        <3> QED BY <3>1
    <2>2. i \in 1..i /\ j + 1 \in 1..Len(rows[i]) /\ cell = rows[i][j + 1]
        BY <1>0, <1>1, <1>2 DEF Width
    <2>3. CellBranch(cell) \in Outcomes
        BY OutcomesOfCells
    <2>4. ASSUME NEW b \in SeenCells(rows, i, j + 1)
          PROVE  b \in SeenCells(rows, i, j) \cup {CellBranch(cell)}
        <3>1. PICK a \in 1..i : \E q \in 1..Len(rows[a]) :
                  (a < i \/ q <= j + 1) /\ b = CellBranch(rows[a][q])
            BY DEF SeenCells
        <3>2. b \in Outcomes
            BY DEF SeenCells
        <3> QED BY <2>1, <2>2, <3>1, <3>2 DEF SeenCells
    <2>5. ASSUME NEW b \in SeenCells(rows, i, j)
          PROVE  b \in SeenCells(rows, i, j + 1)
        BY <2>1 DEF SeenCells
    <2>6. CellBranch(cell) \in SeenCells(rows, i, j + 1)
        BY <2>1, <2>2, <2>3 DEF SeenCells
    <2> QED BY <2>4, <2>5, <2>6
<1>11. Begun(c, next) = Begun(c, fr) \cup {CellBranch(cell)}
    BY <1>7, <1>10 DEF Begun
<1> QED BY <1>9, <1>11

LEMMA RowPasses ==
    ASSUME NEW c, CallTyped(c), c.fn = "flatten", NEW fr, FrameOK(c, fr),
           ~(fr.i > 0 /\ fr.j < Len(c.args[1][fr.i])), fr.i < Len(c.args[1]),
           NEW next, next = [fr EXCEPT !.i = @ + 1, !.j = 0]
    PROVE  FrameOK(c, next) /\ Begun(c, next) = Begun(c, fr) \cup {<<"flatten", "row">>}
<1> PICK rows, i, j : rows = c.args[1] /\ i = fr.i /\ j = fr.j
    OBVIOUS
<1>1. /\ rows \in Rows /\ Len(rows) \in Nat /\ i \in 0..Len(rows) /\ j \in Nat
      /\ fr.total \in Int /\ fr.result \in Cells /\ FlattenOK(rows, fr)
      /\ fr = [i |-> i, j |-> j, total |-> fr.total, result |-> fr.result]
    BY FlattenFrame
<1>2. /\ i \in Nat /\ i + 1 \in 1..Len(rows)
      /\ i # 0 => i \in 1..Len(rows) /\ Width(rows, i) \in Nat /\ j = Width(rows, i)
    <2>1. i \in Nat /\ i + 1 \in 1..Len(rows) /\ (i # 0 => i \in 1..Len(rows) /\ i > 0)
        BY <1>1
    <2>2. i # 0 => Width(rows, i) \in Nat /\ j <= Width(rows, i)
        BY <1>1, <2>1, RowsReach DEF FlattenOK
    <2>3. i # 0 => ~(j < Width(rows, i))
        BY <2>1 DEF Width
    <2> QED BY <1>1, <2>1, <2>2, <2>3
<1>3. Position(rows, i + 1, 0) = Position(rows, i, j) /\ Width(rows, i + 1) \in Nat
    <2>1. CASE i = 0
        <3>1. Position(rows, 1, 0) = Reach(rows, 0) + 0 /\ Position(rows, 0, j) = 0
            BY DEF Position
        <3> QED BY <1>1, <1>2, <2>1, <3>1, RowsReach
    <2>2. CASE i # 0
        BY <1>1, <1>2, <2>2, CellsInPlace, RowsReach
    <2> QED BY <2>1, <2>2
<1>4. next = [i |-> i + 1, j |-> 0, total |-> fr.total, result |-> fr.result]
    BY <1>1
<1>5. next \in Frames /\ next.i = i + 1 /\ next.j = 0 /\ next.result = fr.result
    <2>1. i + 1 \in Nat
        BY <1>2
    <2> QED BY <1>1, <1>4, <2>1 DEF Frames
<1>6. FlattenOK(rows, next)
    BY <1>1, <1>2, <1>3, <1>5 DEF FlattenOK
<1>7. FrameOK(c, next)
    BY <1>5, <1>6, LoopNames DEF FrameOK
<1>8. SeenCells(rows, i + 1, 0) = SeenCells(rows, i, j)
    <2>1. \A a \in 1..i : \A q \in 1..Len(rows[a]) : a < i \/ q <= j
        <3>1. ASSUME NEW a \in 1..i, NEW q \in 1..Len(rows[a]), a = i
              PROVE  q <= j
            BY <1>2, <3>1 DEF Width
        <3> QED BY <1>2, <3>1
    <2>2. /\ \A a \in 1..i : a \in 1..(i + 1) /\ a < i + 1
          /\ \A a \in 1..(i + 1) : a < i + 1 => a \in 1..i
        BY <1>2
    <2>3. ASSUME NEW b
          PROVE  b \in SeenCells(rows, i + 1, 0) <=> b \in SeenCells(rows, i, j)
        <3>1. \A a \in 1..(i + 1) : \A q \in 1..Len(rows[a]) : ~(q <= 0)
            OBVIOUS
        <3> QED BY <2>1, <2>2, <3>1 DEF SeenCells
    <2>4. SeenCells(rows, i + 1, 0) \subseteq Outcomes /\ SeenCells(rows, i, j) \subseteq Outcomes
        BY DEF SeenCells
    <2> QED BY <2>3, <2>4
<1>9. i + 1 > 0
    BY <1>2
<1>10. Begun(c, next) = {<<"flatten", "row">>} \cup SeenCells(rows, i, j)
    BY <1>5, <1>8, <1>9 DEF Begun
<1>11. Begun(c, fr) = {b \in {<<"flatten", "row">>} : i > 0} \cup SeenCells(rows, i, j)
    BY DEF Begun
<1> QED BY <1>7, <1>10, <1>11

LEMMA FlattenComesToAnEnd ==
    ASSUME NEW c, CallTyped(c), c.fn = "flatten", NEW fr, FrameOK(c, fr),
           ~(fr.i > 0 /\ fr.j < Len(c.args[1][fr.i])), fr.i = Len(c.args[1])
    PROVE  /\ fr.result = Expected(c)
           /\ CallBranches(c) = Begun(c, fr) \cup {<<"flatten", "end">>}
<1> PICK rows, i, j : rows = c.args[1] /\ i = fr.i /\ j = fr.j
    OBVIOUS
<1>1. /\ rows \in Rows /\ i = Len(rows) /\ i \in Nat /\ j \in Nat /\ FlattenOK(rows, fr)
    BY FlattenFrame
<1>2. i # 0 => i \in 1..Len(rows) /\ Width(rows, i) \in Nat /\ j = Width(rows, i)
    <2>1. i # 0 => i \in 1..Len(rows) /\ i > 0
        BY <1>1
    <2>2. i # 0 => Width(rows, i) \in Nat /\ j <= Width(rows, i)
        BY <1>1, <2>1, RowsReach DEF FlattenOK
    <2>3. i # 0 => ~(j < Width(rows, i))
        BY <2>1 DEF Width
    <2> QED BY <1>1, <2>1, <2>2, <2>3
<1>3. Position(rows, i, j) = Len(Joined(rows))
    <2>1. CASE i = 0
        <3>1. Position(rows, i, j) = 0
            BY <2>1 DEF Position
        <3>2. Reach(rows, 0) = 0 /\ Reach(rows, Len(rows)) = Len(Joined(rows))
            BY <1>1, RowsReach
        <3> QED BY <1>1, <2>1, <3>1, <3>2
    <2>2. CASE i # 0
        BY <1>1, <1>2, <2>2, CellsInPlace
    <2> QED BY <2>1, <2>2
<1>4. fr.result = Expected(c)
    <2>1. fr.result = FirstKept(Joined(rows))[Len(Joined(rows))]
        BY <1>1, <1>3 DEF FlattenOK
    <2> QED BY <2>1 DEF Expected, NonNegative
<1>5. \A a \in 1..i : \A q \in 1..Len(rows[a]) : a < i \/ q <= j
    <2>1. ASSUME NEW a \in 1..i, NEW q \in 1..Len(rows[a]), a = i
          PROVE  q <= j
        BY <1>1, <1>2, <2>1 DEF Width
    <2> QED BY <1>1, <2>1
<1>6. SeenCells(rows, i, j) = {b \in Outcomes : \E a \in 1..Len(rows) :
                                   \E q \in 1..Len(rows[a]) : b = CellBranch(rows[a][q])}
    BY <1>1, <1>5 DEF SeenCells
<1> QED BY <1>1, <1>4, <1>6 DEF CallBranches, Begun

----------------------------------------------------------------------------
(* The steps of a file: its call goes on, or it returns what it is to.     *)
GoesOn(f, fr, branches) ==
    /\ StayIn(f, fr) /\ Take(branches)
    /\ FrameOK(Call(f), fr)
    /\ Begun(Call(f), fr) = Begun(Call(f), frame[f]) \cup branches

Returns(f, branches) ==
    /\ Return(f, Expected(Call(f))) /\ Take(branches)
    /\ CallBranches(Call(f)) = Begun(Call(f), frame[f]) \cup branches

LEMMA CallsAreTyped ==
    ASSUME NEW t \in Suites, NEW f \in Files
    PROVE  Len(t[f]) \in Nat /\ \A k \in 1..Len(t[f]) : CallTyped(t[f][k])
<1>1. CallsOK(t[f])
    BY SuiteAssumption
<1> QED BY <1>1 DEF CallsOK, CallTyped, Rows, Cells

LEMMA StraightStep ==
    ASSUME NEW f \in Files, Straight(f)
    PROVE  \E branches : Returns(f, branches)
<1>1. Call(f).fn # "flatten" /\ Call(f).fn # "sumWhile"
    BY LoopNames DEF Straight
<1>2. /\ Expected(Call(f)) = Value(Call(f).fn, Call(f).args)
      /\ CallBranches(Call(f)) = {Branch(Call(f).fn, Call(f).args)}
      /\ Begun(Call(f), frame[f]) = {}
    BY <1>1 DEF Expected, CallBranches, Begun
<1>3. Returns(f, {Branch(Call(f).fn, Call(f).args)})
    BY <1>2 DEF Straight, Returns
<1> QED BY <1>3

LEMMA StepOfFile ==
    ASSUME NEW f \in Files, CallTyped(Call(f)), FrameOK(Call(f), frame[f]),
           \/ Straight(f) \/ SumPass(f) \/ SumEnd(f)
           \/ FlattenCell(f) \/ FlattenRow(f) \/ FlattenEnd(f)
    PROVE  \/ \E fr, branches : GoesOn(f, fr, branches)
           \/ \E branches : Returns(f, branches)
<1> PICK c, fr : c = Call(f) /\ fr = frame[f]
    OBVIOUS
<1>1. CASE Straight(f)
    BY <1>1, StraightStep
<1>2. CASE SumPass(f)
    <2> PICK next : next = [fr EXCEPT !.total = @ + fr.i, !.i = @ + 1]
        OBVIOUS
    <2>1. c.fn = "sumWhile" /\ fr.i < c.args[1] /\ StayIn(f, next) /\ Take({<<"sumWhile", "pass">>})
        BY <1>2 DEF SumPass
    <2>2. FrameOK(c, next) /\ Begun(c, next) = Begun(c, fr) \cup {<<"sumWhile", "pass">>}
        BY <2>1, SumGoesOn
    <2>3. GoesOn(f, next, {<<"sumWhile", "pass">>})
        BY <2>1, <2>2 DEF GoesOn
    <2> QED BY <2>3
<1>3. CASE SumEnd(f)
    <2>1. c.fn = "sumWhile" /\ fr.i >= c.args[1]
          /\ Return(f, fr.total) /\ Take({<<"sumWhile", "end">>})
        BY <1>3 DEF SumEnd
    <2>2. fr.total = Expected(c) /\ CallBranches(c) = Begun(c, fr) \cup {<<"sumWhile", "end">>}
        BY <2>1, SumComesToAnEnd
    <2>3. Returns(f, {<<"sumWhile", "end">>})
        BY <2>1, <2>2 DEF Returns
    <2> QED BY <2>3
<1>4. CASE FlattenCell(f)
    <2> PICK cell : cell = CellAt(c, fr)
        OBVIOUS
    <2> PICK next : next = CellPassed(fr, cell)
        OBVIOUS
    <2>1. c.fn = "flatten" /\ fr.i > 0 /\ fr.j < Len(c.args[1][fr.i])
          /\ StayIn(f, next) /\ Take({CellBranch(cell)})
        BY <1>4 DEF FlattenCell, InRow, Row, CellBranch, CellPassed, CellAt
    <2>2. FrameOK(c, next) /\ Begun(c, next) = Begun(c, fr) \cup {CellBranch(cell)}
        BY <2>1, CellPasses
    <2>3. GoesOn(f, next, {CellBranch(cell)})
        BY <2>1, <2>2 DEF GoesOn
    <2> QED BY <2>3
<1>5. CASE FlattenRow(f)
    <2> PICK next : next = [fr EXCEPT !.i = @ + 1, !.j = 0]
        OBVIOUS
    <2>1. c.fn = "flatten" /\ ~(fr.i > 0 /\ fr.j < Len(c.args[1][fr.i])) /\ fr.i < Len(c.args[1])
          /\ StayIn(f, next) /\ Take({<<"flatten", "row">>})
        BY <1>5 DEF FlattenRow, InRow, Row
    <2>2. FrameOK(c, next) /\ Begun(c, next) = Begun(c, fr) \cup {<<"flatten", "row">>}
        BY <2>1, RowPasses
    <2>3. GoesOn(f, next, {<<"flatten", "row">>})
        BY <2>1, <2>2 DEF GoesOn
    <2> QED BY <2>3
<1>6. CASE FlattenEnd(f)
    <2>1. c.fn = "flatten" /\ ~(fr.i > 0 /\ fr.j < Len(c.args[1][fr.i])) /\ fr.i = Len(c.args[1])
          /\ Return(f, fr.result) /\ Take({<<"flatten", "end">>})
        BY <1>6 DEF FlattenEnd, InRow, Row
    <2>2. fr.result = Expected(c) /\ CallBranches(c) = Begun(c, fr) \cup {<<"flatten", "end">>}
        BY <2>1, FlattenComesToAnEnd
    <2>3. Returns(f, {<<"flatten", "end">>})
        BY <2>1, <2>2 DEF Returns
    <2> QED BY <2>3
<1> QED BY <1>1, <1>2, <1>3, <1>4, <1>5, <1>6

----------------------------------------------------------------------------
(* The invariants.                                                         *)

LEMMA SubjectInit == Init => SubjectInv /\ AnswerInv /\ TakenInv
<1> SUFFICES ASSUME Init PROVE SubjectInv /\ AnswerInv /\ TakenInv
    OBVIOUS
<1>1. suite \in Suites /\ taken = {} /\ at = [f \in Files |-> 1]
      /\ frame = [f \in Files |-> NoFrame] /\ passed = [f \in Files |-> TRUE]
    BY DEF Init
<1>2. NoFrame \in Frames
    BY NoCells DEF NoFrame, Frames
<1>3. ASSUME NEW f \in Files
      PROVE  FileOK(f) /\ ~ \E b : Takes(f, b)
    <2>1. at[f] = 1 /\ frame[f] = NoFrame /\ Len(suite[f]) \in Nat
        BY <1>1, CallsAreTyped
    <2>2. at[f] <= Len(suite[f]) => CallTyped(Call(f))
        BY <1>1, <2>1, CallsAreTyped DEF Call
    <2>3. at[f] <= Len(suite[f]) => FrameOK(Call(f), frame[f]) /\ Begun(Call(f), frame[f]) = {}
        BY <2>1, <2>2, FrameBegins
    <2> QED BY <2>1, <2>3 DEF FileOK, Takes
<1>4. SubjectInv
    BY <1>1, <1>2, <1>3 DEF SubjectInv
<1>5. AnswerInv
    <2>1. ASSUME NEW f \in Files
          PROVE  passed[f] /\ 1..(at[f] - 1) = {}
        BY <1>1
    <2> QED BY <2>1 DEF AnswerInv
<1>6. TakenInv
    BY <1>1, <1>3 DEF TakenInv
<1> QED BY <1>4, <1>5, <1>6

(* The files that do not step stay as they are.                            *)
LEMMA OthersStay ==
    ASSUME UNCHANGED suite, NEW g \in Files, at'[g] = at[g], frame'[g] = frame[g]
    PROVE  (FileOK(g) <=> FileOK(g)') /\ \A b : Takes(g, b) <=> Takes(g, b)'
<1>1. Call(g)' = Call(g)
    BY DEF Call
<1> QED BY <1>1 DEF FileOK, Takes

(* A call that goes on leaves its test where it is.                        *)
LEMMA GoingOn ==
    ASSUME SubjectInv, AnswerInv, TakenInv, UNCHANGED suite,
           NEW f \in Files, at[f] <= Len(suite[f]),
           NEW fr, NEW branches, GoesOn(f, fr, branches)
    PROVE  SubjectInv' /\ AnswerInv' /\ TakenInv'
<1>1. /\ at' = at /\ passed' = passed /\ taken' = taken \cup branches
      /\ fr \in Frames /\ frame' = [frame EXCEPT ![f] = fr] /\ frame \in [Files -> Frames]
    BY DEF GoesOn, StayIn, Take, FrameOK, SubjectInv
<1>2. frame' \in [Files -> Frames] /\ frame'[f] = fr /\ \A g \in Files \ {f} : frame'[g] = frame[g]
    BY <1>1
<1>3. Call(f)' = Call(f)
    BY <1>1 DEF Call
<1>4. FileOK(f)'
    <2>1. FrameOK(Call(f), fr)
        BY DEF GoesOn
    <2>2. FrameOK(Call(f), frame[f])'
        BY <1>2, <1>3, <2>1
    <2>3. at[f] \in 1..(Len(suite[f]) + 1)
        BY DEF SubjectInv, FileOK
    <2> QED BY <1>1, <2>2, <2>3 DEF FileOK
<1>5. ASSUME NEW g \in Files, g # f
      PROVE  FileOK(g)' /\ \A b : Takes(g, b)' <=> Takes(g, b)
    <2>1. FileOK(g) /\ at'[g] = at[g] /\ frame'[g] = frame[g]
        BY <1>1, <1>2, <1>5 DEF SubjectInv
    <2> QED BY <2>1, OthersStay
<1>6. SubjectInv'
    BY <1>1, <1>2, <1>4, <1>5 DEF SubjectInv
<1>7. AnswerInv'
    BY <1>1 DEF AnswerInv
<1>8. \A b : Takes(f, b)' <=> Takes(f, b) \/ b \in branches
    <2>1. Begun(Call(f), frame[f])' = Begun(Call(f), frame[f]) \cup branches
        BY <1>2, <1>3 DEF GoesOn
    <2> QED BY <1>1, <2>1 DEF Takes
<1>9. TakenInv'
    BY <1>1, <1>5, <1>8 DEF TakenInv
<1> QED BY <1>6, <1>7, <1>9

(* A call that returns gives the test what it compares, and leaves its     *)
(* branches behind.                                                        *)
LEMMA Returning ==
    ASSUME SubjectInv, AnswerInv, TakenInv, UNCHANGED suite,
           NEW f \in Files, at[f] <= Len(suite[f]),
           NEW branches, Returns(f, branches)
    PROVE  SubjectInv' /\ AnswerInv' /\ TakenInv'
<1> PICK k : k = at[f]
    OBVIOUS
<1>1. /\ at' = [at EXCEPT ![f] = @ + 1] /\ frame' = [frame EXCEPT ![f] = NoFrame]
      /\ passed' = [passed EXCEPT ![f] = @ /\ Expected(Call(f)) = Call(f).expect]
      /\ taken' = taken \cup branches
      /\ at \in [Files -> Nat] /\ frame \in [Files -> Frames] /\ passed \in [Files -> BOOLEAN]
      /\ suite \in Suites /\ k \in 1..(Len(suite[f]) + 1)
    BY DEF Returns, Return, Take, SubjectInv, FileOK
<1>2. /\ at' \in [Files -> Nat] /\ at'[f] = k + 1 /\ \A g \in Files \ {f} : at'[g] = at[g]
      /\ frame'[f] = NoFrame /\ \A g \in Files \ {f} : frame'[g] = frame[g]
      /\ \A g \in Files \ {f} : passed'[g] = passed[g]
    BY <1>1
<1>3. frame' \in [Files -> Frames] /\ passed' \in [Files -> BOOLEAN]
    <2>1. NoFrame \in Frames
        BY NoCells DEF NoFrame, Frames
    <2> QED BY <1>1, <2>1
<1>4. /\ Len(suite[f]) \in Nat /\ k \in 1..Len(suite[f]) /\ k + 1 \in 1..(Len(suite[f]) + 1)
      /\ 1..((k + 1) - 1) = (1..(k - 1)) \cup {k} /\ Call(f) = suite[f][k]
    <2>1. Len(suite[f]) \in Nat
        BY <1>1, CallsAreTyped
    <2> QED BY <1>1, <2>1 DEF Call
<1>5. FileOK(f)' /\ (at'[f] <= Len(suite'[f]) => Begun(Call(f), frame[f])' = {})
    <2>1. at'[f] <= Len(suite'[f]) => Call(f)' = suite[f][k + 1] /\ CallTyped(suite[f][k + 1])
        BY <1>1, <1>2, <1>4, CallsAreTyped DEF Call
    <2>2. at'[f] <= Len(suite'[f]) =>
             FrameOK(suite[f][k + 1], NoFrame) /\ Begun(suite[f][k + 1], NoFrame) = {}
        BY <2>1, FrameBegins
    <2>3. at'[f] <= Len(suite'[f]) =>
             FrameOK(Call(f), frame[f])' /\ Begun(Call(f), frame[f])' = {}
        BY <1>2, <2>1, <2>2
    <2> QED BY <1>2, <1>4, <2>3 DEF FileOK
<1>6. ASSUME NEW g \in Files, g # f
      PROVE  FileOK(g)' /\ \A b : Takes(g, b)' <=> Takes(g, b)
    <2>1. FileOK(g) /\ at'[g] = at[g] /\ frame'[g] = frame[g]
        BY <1>1, <1>2, <1>6 DEF SubjectInv
    <2> QED BY <2>1, OthersStay
<1>7. SubjectInv'
    BY <1>1, <1>2, <1>3, <1>5, <1>6 DEF SubjectInv
<1>8. AnswerInv'
    <2>1. passed'[f] <=> passed[f] /\ Expected(suite[f][k]) = suite[f][k].expect
        BY <1>1, <1>4
    <2>2. passed[f] <=> \A q \in 1..(k - 1) : suite[f][q].expect = Expected(suite[f][q])
        BY DEF AnswerInv
    <2>3. passed'[f] <=> \A q \in 1..(at'[f] - 1) : suite'[f][q].expect = Expected(suite'[f][q])
        BY <1>2, <1>4, <2>1, <2>2
    <2>4. ASSUME NEW g \in Files, g # f
          PROVE  passed'[g] <=>
                    \A q \in 1..(at'[g] - 1) : suite'[g][q].expect = Expected(suite'[g][q])
        BY <1>2, <2>4 DEF AnswerInv
    <2> QED BY <2>3, <2>4 DEF AnswerInv
<1>9. \A b : Takes(f, b)' <=> Takes(f, b) \/ b \in branches
    <2>1. \A b : Takes(f, b)' <=> \E q \in 1..((k + 1) - 1) : b \in CallBranches(suite[f][q])
        BY <1>2, <1>5 DEF Takes
    <2>2. \A b : Takes(f, b) <=> \/ \E q \in 1..(k - 1) : b \in CallBranches(suite[f][q])
                                \/ b \in Begun(Call(f), frame[f])
        BY DEF Takes
    <2>3. CallBranches(suite[f][k]) = Begun(Call(f), frame[f]) \cup branches
        BY <1>4 DEF Returns
    <2> QED BY <1>4, <2>1, <2>2, <2>3
<1>10. TakenInv'
    BY <1>1, <1>6, <1>9 DEF TakenInv
<1> QED BY <1>7, <1>8, <1>10

LEMMA SubjectNext ==
    SubjectInv /\ AnswerInv /\ TakenInv /\ [Next]_vars => (SubjectInv /\ AnswerInv /\ TakenInv)'
<1> SUFFICES ASSUME SubjectInv, AnswerInv, TakenInv, [Next]_vars
             PROVE  SubjectInv' /\ AnswerInv' /\ TakenInv'
    OBVIOUS
<1>1. CASE Next
    <2>1. PICK f \in Files : /\ at[f] <= Len(suite[f])
                             /\ \/ Straight(f) \/ SumPass(f) \/ SumEnd(f)
                                \/ FlattenCell(f) \/ FlattenRow(f) \/ FlattenEnd(f)
        BY <1>1 DEF Next
    <2>2. FrameOK(Call(f), frame[f]) /\ at[f] \in 1..Len(suite[f]) /\ suite \in Suites
        <3>1. suite \in Suites /\ FileOK(f)
            BY DEF SubjectInv
        <3>2. Len(suite[f]) \in Nat
            BY <3>1, CallsAreTyped
        <3> QED BY <2>1, <3>1, <3>2 DEF FileOK
    <2>3. CallTyped(Call(f))
        BY <2>2, CallsAreTyped DEF Call
    <2>4. \/ \E fr, branches : GoesOn(f, fr, branches)
          \/ \E branches : Returns(f, branches)
        BY <2>1, <2>2, <2>3, StepOfFile
    <2>5. UNCHANGED suite
        BY <1>1 DEF Next
    <2>6. CASE \E fr, branches : GoesOn(f, fr, branches)
        <3>1. PICK fr, branches : GoesOn(f, fr, branches)
            BY <2>6
        <3> QED BY <2>1, <2>5, <3>1, GoingOn
    <2>7. CASE \E branches : Returns(f, branches)
        <3>1. PICK branches : Returns(f, branches)
            BY <2>7
        <3> QED BY <2>1, <2>5, <3>1, Returning
    <2> QED BY <2>4, <2>6, <2>7
<1>2. CASE UNCHANGED vars
    <2>1. /\ suite' = suite /\ at' = at /\ frame' = frame /\ passed' = passed /\ taken' = taken
        BY <1>2 DEF vars
    <2>2. \A g \in Files : (FileOK(g) <=> FileOK(g)') /\ \A b : Takes(g, b) <=> Takes(g, b)'
        BY <2>1, OthersStay
    <2> QED BY <2>1, <2>2 DEF SubjectInv, AnswerInv, TakenInv
<1> QED BY <1>1, <1>2

LEMMA SubjectHolds == Spec => [](SubjectInv /\ AnswerInv /\ TakenInv)
<1> QED BY SubjectInit, SubjectNext, PTL DEF Spec

----------------------------------------------------------------------------
(* A file is at one of its calls or past the last, whatever suite is run,  *)
(* and a loop's variables stay what they are declared to be.               *)
THEOREM TypeCorrect == Spec => []TypeOK
<1>1. SubjectInv => TypeOK
    <2> SUFFICES ASSUME SubjectInv PROVE TypeOK
        OBVIOUS
    <2>1. ASSUME NEW f \in Files
          PROVE  /\ at[f] \in 1..(Len(suite[f]) + 1)
                 /\ frame[f].i \in Nat /\ frame[f].j \in Nat /\ frame[f].total \in Int
        BY DEF SubjectInv, FileOK, Frames
    <2> QED BY <2>1 DEF SubjectInv, TypeOK
<1> QED BY <1>1, SubjectHolds, PTL

(* What a call of flatten or sumWhile returns does not depend on where the *)
(* other files are: a test has passed exactly when each of its calls so    *)
(* far expects the non-negative cells of all rows in order, or the sum of  *)
(* the numbers below n.                                                    *)
THEOREM Answers ==
    Spec => [](\A f \in Files :
                  passed[f] <=> \A k \in 1..(at[f] - 1) :
                                   suite[f][k].expect = Expected(suite[f][k]))
<1>1. AnswerInv => \A f \in Files :
                      passed[f] <=> \A k \in 1..(at[f] - 1) :
                                       suite[f][k].expect = Expected(suite[f][k])
    BY DEF AnswerInv
<1> QED BY <1>1, SubjectHolds, PTL

(* Where the calls expect that, every expect holds at every point of the   *)
(* interleaving.                                                           *)
THEOREM ExpectationsMet ==
    ASSUME \A t \in Suites : \A f \in Files : \A k \in 1..Len(t[f]) :
               t[f][k].expect = Expected(t[f][k])
    PROVE  Spec => []ExpectsHold
<1>1. SubjectInv /\ AnswerInv => ExpectsHold
    <2> SUFFICES ASSUME SubjectInv, AnswerInv, NEW f \in Files PROVE passed[f]
        BY DEF ExpectsHold
    <2>1. suite \in Suites /\ at[f] \in 1..(Len(suite[f]) + 1)
        BY DEF SubjectInv, FileOK
    <2>2. Len(suite[f]) \in Nat
        BY <2>1, CallsAreTyped
    <2>3. \A k \in 1..(at[f] - 1) : k \in 1..Len(suite[f])
        BY <2>1, <2>2
    <2> QED BY <2>1, <2>3 DEF AnswerInv
<1> QED BY <1>1, SubjectHolds, PTL

(* When all files have ended, the branches taken are those of their calls, *)
(* no more and no fewer.                                                   *)
THEOREM BranchesOfCalls ==
    Spec => [](Done => \A b : b \in taken <=>
                   \E f \in Files : \E k \in 1..Len(suite[f]) : b \in CallBranches(suite[f][k]))
<1>1. SubjectInv /\ TakenInv =>
         (Done => \A b : b \in taken <=>
             \E f \in Files : \E k \in 1..Len(suite[f]) : b \in CallBranches(suite[f][k]))
    <2> SUFFICES ASSUME SubjectInv, TakenInv, Done
                 PROVE  \A b : b \in taken <=>
                            \E f \in Files : \E k \in 1..Len(suite[f]) :
                                b \in CallBranches(suite[f][k])
        OBVIOUS
    <2>1. ASSUME NEW f \in Files
          PROVE  ~(at[f] <= Len(suite[f])) /\ 1..(at[f] - 1) = 1..Len(suite[f])
        <3>1. suite \in Suites /\ at[f] \in 1..(Len(suite[f]) + 1) /\ at[f] > Len(suite[f])
            BY DEF SubjectInv, FileOK, Done
        <3>2. Len(suite[f]) \in Nat
            BY <3>1, CallsAreTyped
        <3> QED BY <3>1, <3>2
    <2> QED BY <2>1 DEF TakenInv, Takes
<1> QED BY <1>1, SubjectHolds, PTL

(* A suite whose calls have every branch between them has taken them all   *)
(* when all files have ended, in whichever order their calls came.         *)
THEOREM EveryBranch ==
    ASSUME \A t \in Complete : \A b \in Branches :
               \E f \in Files : \E k \in 1..Len(t[f]) : b \in CallBranches(t[f][k])
    PROVE  Spec => []SuiteTakesEveryBranch
<1>1. (Done => \A b : b \in taken <=>
             \E f \in Files : \E k \in 1..Len(suite[f]) : b \in CallBranches(suite[f][k]))
      => SuiteTakesEveryBranch
    BY DEF SuiteTakesEveryBranch
<1> QED BY <1>1, BranchesOfCalls, PTL
=============================================================================
