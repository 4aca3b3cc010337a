-------------------------- MODULE MCSampleSubject --------------------------
(* The suites SampleSubject is run with: the repository's own, and one that *)
(* calls the looping functions on every small input and expects a reference *)
(* definition's answer.                                                     *)
EXTENDS SampleSubject, SequencesExt, FiniteSetsExt

T(fn, args, expect) == [fn |-> fn, args |-> args, expect |-> expect]

(* sample_subject/tests/pathComplexity.test.ts and pathRouter.test.ts *)
TestFiles == {"pathComplexity", "pathRouter"}

TestSuite ==
    [f \in TestFiles |->
        IF f = "pathComplexity"
        THEN << T("scheduleTask", <<FALSE, "low", 0>>, "disabled"),
                T("scheduleTask", <<TRUE, "critical", 15>>, "critical-max-retries"),
                T("scheduleTask", <<TRUE, "critical", 5>>, "critical-retry"),
                T("scheduleTask", <<TRUE, "critical", 0>>, "critical-immediate"),
                T("scheduleTask", <<TRUE, "high", 1>>, "high-retry"),
                T("scheduleTask", <<TRUE, "high", 0>>, "high-once"),
                T("scheduleTask", <<TRUE, "medium", 0>>, "medium-queue"),
                T("scheduleTask", <<TRUE, "low", 0>>, "low-queue"),
                T("flatten", << <<>> >>, <<>>),
                T("flatten", << << <<1, 2>>, <<3>> >> >>, <<1, 2, 3>>),
                T("flatten", << << <<-1, 2>> >> >>, <<2>>),
                T("sumWhile", <<0>>, 0),
                T("sumWhile", <<4>>, 6),
                T("detectUnreachableFlag", <<TRUE>>, "on"),
                T("detectUnreachableFlag", <<FALSE>>, "off") >>
        ELSE << T("classifyScore", <<-1>>, "invalid"),
                T("classifyScore", <<25>>, "fail"),
                T("classifyScore", <<60>>, "pass"),
                T("classifyScore", <<90>>, "excellent"),
                T("routeAction", <<TRUE, 5>>, 10),
                T("routeAction", <<FALSE, 5>>, 6),
                T("switchPath", <<1>>, "alpha"),
                T("switchPath", <<2>>, "beta"),
                T("switchPath", <<3>>, "gamma"),
                T("switchPath", <<99>>, "unknown"),
                T("combinePaths", <<2, 3, "add">>, 5),
                T("combinePaths", <<2, 3, "mul">>, 6) >>]

(* Every list of at most two rows of at most two cells from -1 to 1, every  *)
(* n from -1 to 6; what remains of the cells in order when the negative ones*)
(* are dropped, and the sum of the numbers below n.                         *)
SmallRows  == FoldSet(LAMBDA row, rows : Append(rows, row), <<>>,
                      UNION {[1..n -> -1..1] : n \in 0..2})
SmallLists == LET rows == SmallRows
                  n    == Len(rows)
              IN  << <<>> >> \o [k \in 1..n |-> <<rows[k]>>]
                  \o [k \in 1..(n * n) |->
                        <<rows[((k - 1) \div n) + 1], rows[((k - 1) % n) + 1]>>]

NonNegative(cells) == SelectSeq(cells, LAMBDA c : c >= 0)

ReferenceCalls ==
    LET lists == SmallLists
    IN  [k \in 1..Len(lists) |->
            T("flatten", <<lists[k]>>, NonNegative(FlattenSeq(lists[k])))]
        \o [k \in 1..8 |-> T("sumWhile", <<k - 2>>, SumSet(0..(k - 3)))]

ReferenceSuite ==
    [f \in TestFiles |-> IF f = "pathComplexity" THEN ReferenceCalls ELSE <<>>]

AllSuites  == {TestSuite, ReferenceSuite}
TestSuites == {TestSuite}
=============================================================================
