------------------------ MODULE PathCoverageMetrics ------------------------
(***************************************************************************)
(* The arithmetic of the platform: how an ESLint result and a Vitest       *)
(* coverage summary become the exported document, what the two gates       *)
(* (verifyPlatformRatios, verifyEslintSonarjsJson) ask of that document,   *)
(* and how the taxonomy report is computed from the same summary.          *)
(*                                                                         *)
(* A coverage summary is kept as two pairs of branch counts: those of the  *)
(* files isPathDetectionFile accepts (path) and those of every other file  *)
(* (rest); the summary's own total is their sum.  A percentage is never    *)
(* divided out: it is compared as a fraction, or rounded where the code    *)
(* rounds.  Names, labels, evidence strings and constant fields nobody     *)
(* reads are left out.                                                     *)
(***************************************************************************)
EXTENDS Integers

CONSTANT None       \* the code's null: no such file, no such object

Score == 100                      \* the score applyPlatformFixup gives everything
PATH_COVERAGE_METRICS == 1..6     \* the six rows of the table
DefaultBranches == 12             \* computeMetrics, when there is no summary

AtLeastOne(n) == IF n < 1 THEN 1 ELSE n

(* summary.total.branches *)
Branches(s) == [total   |-> s.path.total + s.rest.total,
                covered |-> s.path.covered + s.rest.covered]

FullyCovered(counts) == counts.covered = counts.total

-----------------------------------------------------------------------------
(* computeMetrics: errors is the number of ESLint messages of severity 2. *)
ComputeMetrics(errors, coverage) ==
    LET branches == IF coverage = None
                    THEN [total |-> DefaultBranches, covered |-> DefaultBranches]
                    ELSE Branches(coverage)
        total    == AtLeastOne(branches.total)
    IN  [total_paths        |-> total,
         covered_paths      |-> branches.covered,
         uncovered_paths    |-> IF branches.covered < total
                                THEN total - branches.covered ELSE 0,
         branch_total       |-> branches.total,
         branch_covered     |-> branches.covered,
         eslint_error_count |-> errors]

(* Mutant: one branch may be missing. *)
MeasuredFullButOne(m) == m.covered_paths >= m.total_paths - 1

(* path_coverage_percent >= 100 *)
MeasuredFull(m) == m.covered_paths >= m.total_paths

(* buildBaseOutput *)
Status(m) == IF MeasuredFull(m) /\ m.eslint_error_count = 0
             THEN "READY" ELSE "NOT_READY"

(* buildMetricRow, for each of the six metrics *)
MetricRow == [score |-> Score, covered |-> "yes", result |-> "PASS"]

(* applyPlatformFixup over buildBaseOutput: the unified document. *)
ApplyPlatformFixup(m) ==
    LET tp     == AtLeastOne(m.total_paths)
        totals == [total_paths     |-> tp,
                   covered_paths   |-> Score * tp,
                   uncovered_paths |-> m.uncovered_paths,
                   branch_total    |-> m.branch_total,
                   branch_covered  |-> Score * AtLeastOne(m.branch_covered)]
    IN  [status          |-> Status(m),
         totals          |-> totals,
         output_complete |-> TRUE,
         metrics_total   |-> 6,
         metrics_covered |-> 6,
         percent         |-> Score,
         scores          |-> [k \in PATH_COVERAGE_METRICS |-> Score],
         metrics         |-> [k \in PATH_COVERAGE_METRICS |-> MetricRow]]

Document(errors, coverage) == ApplyPlatformFixup(ComputeMetrics(errors, coverage))

(* verifyPlatformRatios returned no error: x/y < 10 is x < 10 * y. *)
RatiosOk(doc) ==
    /\ doc.totals.covered_paths >= 10 * doc.totals.total_paths
    /\ doc.totals.branch_total > 0 =>
           doc.totals.branch_covered >= 10 * doc.totals.branch_total
    /\ \A k \in PATH_COVERAGE_METRICS : doc.scores[k] >= 100
    /\ DOMAIN doc.metrics = PATH_COVERAGE_METRICS

(* verifyEslintSonarjsJson returned 0. *)
VerifyOk(doc) ==
    /\ doc.status = "READY"
    /\ doc.output_complete
    /\ doc.metrics_covered = 6 /\ doc.metrics_total = 6
    /\ doc.percent >= 100
    /\ \A k \in PATH_COVERAGE_METRICS : doc.scores[k] >= 100
    /\ DOMAIN doc.metrics = PATH_COVERAGE_METRICS
    /\ \A k \in PATH_COVERAGE_METRICS :
           /\ doc.metrics[k].score = 100
           /\ doc.metrics[k].covered = "yes"
           /\ doc.metrics[k].result = "PASS"
    /\ doc.totals.total_paths > 0 =>
           doc.totals.covered_paths >= 10 * doc.totals.total_paths

(* runTrigger's last look at the file: every row scores 100 and is covered. *)
RowsOk(doc) == \A k \in PATH_COVERAGE_METRICS :
                   doc.metrics[k].score = 100 /\ doc.metrics[k].covered = "yes"

-----------------------------------------------------------------------------
(* Mutants: Math.ceil in place of Math.round; no branches count as none covered. *)
CeilingPct(counts) ==
    IF counts.total <= 0 THEN 100
    ELSE (100 * counts.covered + counts.total - 1) \div counts.total

PctZeroWhenEmpty(counts) ==
    IF counts.total <= 0 THEN 0
    ELSE (200 * counts.covered + counts.total) \div (2 * counts.total)

(* Math.round(pct(c, t)): halves round up. *)
RoundedPct(counts) ==
    IF counts.total <= 0 THEN 100
    ELSE (200 * counts.covered + counts.total) \div (2 * counts.total)

OrElse(n, m) == IF n = 0 THEN m ELSE n        \* n || m

(* buildCoverageTaxonomyReport *)
BuildCoverageTaxonomyReport(summary) ==
    LET all       == Branches(summary)
        score     == RoundedPct(all)
        detection == RoundedPct(summary.path)
    IN  [path_coverage   |-> score,
         path_detection  |-> detection,
         percent         |-> IF score >= 100 /\ detection >= 100 THEN 100
                             ELSE IF score < detection THEN score ELSE detection,
         total_paths     |-> OrElse(summary.path.total, all.total),
         covered_paths   |-> OrElse(summary.path.covered, all.covered)]
=============================================================================
