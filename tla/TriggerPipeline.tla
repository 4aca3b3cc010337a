-------------------------- MODULE TriggerPipeline --------------------------
(***************************************************************************)
(* The files the platform keeps and the processes that write them:         *)
(*   - trigger runs (npm run trigger: runTrigger), numbered in the order   *)
(*     they start;                                                         *)
(*   - coverage commands (npm run coverage: vitest, then the taxonomy      *)
(*     report);                                                            *)
(*   - the verify command (npm run verify: verifyCli);                     *)
(*   - whoever edits sample_subject.                                       *)
(* The trigger's node process runs its calls one after the other, but      *)
(* ESLint and Vitest are processes of their own and every file is shared,  *)
(* so each external call and each file operation is a step of its own.     *)
(***************************************************************************)
EXTENDS PathCoverageMetrics, FiniteSets

CONSTANTS MaxRuns,      \* how many times the trigger is started (a bound)
          Coverages,    \* the runs of npm run coverage (a bound)
          NFiles,       \* the files exportPlatformBundle writes: 6 in the code
          Subjects,     \* what sample_subject may be: branches, ESLint errors
          Overlap,      \* may commands and edits happen while a run is going?
          Pending,      \* the coverage of a run that has not read one yet
          TornReport    \* a taxonomy report that is not written to its end

Counts == [total : Nat, covered : Nat]

ASSUME TriggerAssumption ==
    /\ MaxRuns \in Nat /\ NFiles \in Nat \ {0}
    /\ Overlap \in BOOLEAN
    /\ \A s \in Subjects :
           /\ s \in [path : Counts, rest : Counts, errors : Nat]
           /\ s.path.covered <= s.path.total
           /\ s.rest.covered <= s.rest.total

(* What Vitest's json-summary reporter writes about a subject. *)
Measured(s) == [path |-> s.path, rest |-> s.rest]
Summaries   == {Measured(s) : s \in Subjects}
Reports     == {BuildCoverageTaxonomyReport(m) : m \in Summaries}

ASSUME NoneAssumption == None \notin Summaries /\ None \notin Reports
ASSUME PendingAssumption == Pending \notin Summaries /\ Pending # None
ASSUME TornAssumption == TornReport \notin Reports /\ TornReport # None

Runs == 1..MaxRuns

(***************************************************************************)
(* The files by the order a run writes them: eslint-report.json, the files *)
(* of the bundle (1 is eslint_sonarjs.json), their copies in platform/ and *)
(* the copy of eslint_sonarjs.json under artifacts/training.               *)
(***************************************************************************)
EslintReport == 0
Unified      == 1
Platform     == (NFiles + 1)..(2 * NFiles)
Artifact     == 2 * NFiles + 1
Slots        == 0..Artifact
UnifiedCopies == {Unified, NFiles + 1, Artifact}

(* A file holds the complete output of a run, the document of the commit   *)
(* (older than those of all runs), or none of these.                       *)
Committed == 0
Torn      == -1
Absent    == -2
Documents == Runs \cup {Committed}

(* The files of the commit: the six root documents and their copies.       *)
Checkout == Unified..(2 * NFiles)

(* The summary the committed eslint_sonarjs.json was exported from.         *)
CommittedSummary == [path |-> [total |-> 34, covered |-> 34],
                     rest |-> [total |-> 0, covered |-> 0]]

CutReport == -1     \* ESLint's output, when it was cut short

VARIABLES
    subject,    \* sample_subject now
    summary,    \* coverage/coverage-summary.json, or None
    taxonomy,   \* coverage/taxonomy_metrics.json, TornReport or None
    disk,       \* the file in each slot: Absent, Torn or whose document it is
    pc,         \* pc[r]: what trigger run r is about to do
    at,         \* at[r]: the slot run r writes next; those below are written
    skip,       \* skip[r]: --skip-verify was given
    alone,      \* alone[r]: nobody else wrote what r has open for its write
    lint,       \* lint[r]: the ESLint errors run r counted
    coverage,   \* coverage[r]: the summary run r read
    covPc,      \* covPc[c]: what coverage command c is about to do
    atClose,    \* atClose[c]: what taxonomy_metrics.json may hold once c has
                \* closed it: nothing while c does not have the file open
    seen,       \* seen[r]: the subjects there were during run r   (history)
    vouched     \* the documents a verify has accepted             (history)

files   == <<summary, taxonomy, disk>>
run     == <<at, skip, alone, lint, coverage>>
cov     == <<covPc, atClose>>
history == <<seen, vouched>>
vars    == <<subject, files, pc, run, cov, history>>

Working  == {"lint", "write", "writing", "vitest", "testing", "summary",
             "load", "verify", "final"}
Ended    == {"exit0", "exit1", "killed"}
CovWorking == {"testing", "report", "reporting"}

Active(r) == pc[r] \in Working
Idle      == /\ \A r \in Runs : ~Active(r)
             /\ \A c \in Coverages : covPc[c] \notin CovWorking

(* The document run r exports, or the one of the commit. *)
DocumentOf(r) == IF r = Committed THEN Document(0, CommittedSummary)
                 ELSE Document(lint[r], coverage[r])

TypeOK ==
    /\ subject \in Subjects
    /\ summary \in Summaries \cup {None}
    /\ taxonomy \in Reports \cup {None, TornReport}
    /\ disk \in [Slots -> {Absent, Torn} \cup Documents]
    /\ pc \in [Runs -> {"off"} \cup Working \cup Ended]
    /\ at \in [Runs -> 0..(Artifact + 1)]
    /\ skip \in [Runs -> BOOLEAN]
    /\ alone \in [Runs -> BOOLEAN]
    /\ lint \in [Runs -> Nat \cup {CutReport}]
    /\ coverage \in [Runs -> Summaries \cup {None, Pending}]
    /\ covPc \in [Coverages -> {"off", "done"} \cup CovWorking]
    /\ atClose \in [Coverages -> SUBSET (Reports \cup {TornReport})]
    /\ seen \in [Runs -> SUBSET Subjects]
    /\ vouched \subseteq Documents

Init ==
    /\ subject \in Subjects
    /\ summary = None
    /\ taxonomy = None
    /\ disk = [s \in Slots |-> IF s \in Checkout THEN Committed ELSE Absent]
    /\ pc = [r \in Runs |-> "off"]
    /\ at = [r \in Runs |-> 0]
    /\ skip = [r \in Runs |-> FALSE]
    /\ alone = [r \in Runs |-> TRUE]
    /\ lint = [r \in Runs |-> 0]
    /\ coverage = [r \in Runs |-> Pending]
    /\ covPc = [c \in Coverages |-> "off"]
    /\ atClose = [c \in Coverages |-> {}]
    /\ seen = [r \in Runs |-> {}]
    /\ vouched = {}

Goto(r, label) == pc' = [pc EXCEPT ![r] = label]
Put(s, x)      == disk' = [disk EXCEPT ![s] = x]

-----------------------------------------------------------------------------
(* runTrigger up to runEslint's call of npx eslint *)
Start(r) ==
    /\ pc[r] = "off"
    /\ \A q \in Runs : q < r => pc[q] # "off"
    /\ Overlap \/ Idle
    /\ Goto(r, "lint")
    /\ \E given \in BOOLEAN : skip' = [skip EXCEPT ![r] = given]
    /\ seen' = [seen EXCEPT ![r] = {subject}]
    /\ UNCHANGED <<subject, files, at, alone, lint, coverage, cov, vouched>>

(* ESLint exited with 0 or 1: its whole report is in raw. *)
LintReports(r) ==
    /\ pc[r] = "lint"
    /\ Goto(r, "write")
    /\ lint' = [lint EXCEPT ![r] = subject.errors]
    /\ UNCHANGED <<subject, files, at, skip, alone, coverage, cov, history>>

(* npx could not be spawned: no stdout and no status, and raw is "[]". *)
LintNotSpawned(r) ==
    /\ pc[r] = "lint"
    /\ Goto(r, "write")
    /\ lint' = [lint EXCEPT ![r] = 0]
    /\ UNCHANGED <<subject, files, at, skip, alone, coverage, cov, history>>

(* ESLint was killed, or its output passed the buffer: raw is cut short. *)
LintIsCut(r) ==
    /\ pc[r] = "lint"
    /\ Goto(r, "write")
    /\ lint' = [lint EXCEPT ![r] = CutReport]
    /\ UNCHANGED <<subject, files, at, skip, alone, coverage, cov, history>>

(* ESLint exited with 2 or more: runEslint throws before it writes. *)
LintFails(r) ==
    /\ pc[r] = "lint"
    /\ Goto(r, "exit1")
    /\ UNCHANGED <<subject, files, run, cov, history>>

-----------------------------------------------------------------------------
(* Writing one file: opening truncates it, closing leaves it complete. *)

(* What run r has open while it writes slot at[r]: a copy reads a root file. *)
OpenSlots(r) == {at[r]} \cup (IF at[r] \in Platform THEN {at[r] - NFiles} ELSE {})

(* Mutant: the file is overwritten in place, not truncated. *)
BeginWriteInPlace(r) ==
    /\ pc[r] = "write"
    /\ Goto(r, "writing")
    /\ UNCHANGED <<subject, files, run, cov, history>>

BeginWrite(r) ==
    LET others == {q \in Runs \ {r} : pc[q] = "writing"}
    IN  /\ pc[r] = "write"
        /\ Goto(r, "writing")
        /\ Put(at[r], Torn)
        /\ alone' = [q \in Runs |->
                        IF q = r THEN \A p \in others : at[p] \notin OpenSlots(r)
                        ELSE alone[q] /\ ~(q \in others /\ at[r] \in OpenSlots(q))]
        /\ UNCHANGED <<subject, summary, taxonomy, at, skip, lint, coverage,
                       cov, history>>

(* What run r leaves in a file: its own output, or a copy of a root file. *)
Written(r) ==
    IF at[r] = EslintReport /\ lint[r] = CutReport THEN Torn
    ELSE IF at[r] \in Platform THEN disk[at[r] - NFiles] ELSE r

(* Mutants: the last copy is left out; one file too many is written. *)
AfterWriteNoArtifact(r) ==
    IF at[r] = EslintReport
    THEN IF lint[r] = CutReport THEN "exit1" ELSE "vitest"
    ELSE IF at[r] < Artifact - 1 THEN "write"
    ELSE IF skip[r] THEN "final" ELSE "verify"

AfterWriteOneMore(r) ==
    IF at[r] = EslintReport
    THEN IF lint[r] = CutReport THEN "exit1" ELSE "vitest"
    ELSE IF at[r] <= Artifact THEN "write"
    ELSE IF skip[r] THEN "final" ELSE "verify"

(* After the report comes JSON.parse, then vitest; after the bundle, verify. *)
AfterWrite(r) ==
    IF at[r] = EslintReport
    THEN IF lint[r] = CutReport THEN "exit1" ELSE "vitest"
    ELSE IF at[r] < Artifact THEN "write"
    ELSE IF skip[r] THEN "final" ELSE "verify"

(* Mutants: eslint_sonarjs.json is passed over; the loop does not advance. *)
EndWriteSkippingUnified(r) ==
    /\ pc[r] = "writing"
    /\ Put(at[r], Written(r))
    /\ Goto(r, AfterWrite(r))
    /\ at' = [at EXCEPT ![r] = IF @ = EslintReport THEN Unified + 1 ELSE @ + 1]
    /\ UNCHANGED <<subject, summary, taxonomy, skip, alone, lint, coverage,
                   cov, history>>

EndWriteStuck(r) ==
    /\ pc[r] = "writing"
    /\ Put(at[r], Written(r))
    /\ Goto(r, AfterWrite(r))
    /\ at' = [at EXCEPT ![r] = IF @ = EslintReport THEN Unified ELSE @]
    /\ UNCHANGED <<subject, summary, taxonomy, skip, alone, lint, coverage,
                   cov, history>>

EndWrite(r) ==
    /\ pc[r] = "writing"
    /\ \E x \in {Written(r)} \cup (IF alone[r] THEN {} ELSE {Torn}) : Put(at[r], x)
    /\ Goto(r, AfterWrite(r))
    /\ at' = [at EXCEPT ![r] = @ + 1]
    /\ UNCHANGED <<subject, summary, taxonomy, skip, alone, lint, coverage,
                   cov, history>>

-----------------------------------------------------------------------------
(* Mutants: coverage.clean is off, and the old reports stay; the summary    *)
(* that is there already spares the tests.                                  *)
TestsStartNoClean(r) ==
    /\ pc[r] = "vitest"
    /\ Goto(r, "testing")
    /\ UNCHANGED <<subject, files, run, cov, history>>

TestsStartReuse(r) ==
    /\ pc[r] = "vitest"
    /\ Goto(r, IF summary = None THEN "testing" ELSE "summary")
    /\ UNCHANGED <<subject, files, run, cov, history>>

(* Vitest empties its reports directory when it starts; who has a file of   *)
(* it open goes on writing what nobody can see any more.                    *)
CleanCoverage ==
    /\ summary' = None
    /\ taxonomy' = None
    /\ atClose' = [c \in Coverages |-> {}]

TestsStart(r) ==
    /\ pc[r] = "vitest"
    /\ Goto(r, "testing")
    /\ CleanCoverage
    /\ UNCHANGED <<subject, disk, run, covPc, history>>

TestsPass(r) ==
    /\ pc[r] = "testing"
    /\ Goto(r, "summary")
    /\ summary' = Measured(subject)
    /\ UNCHANGED <<subject, taxonomy, disk, run, cov, history>>

(* Mutant: runCoverage catches the error, as runEslint does. *)
TestsFailCaught(r) ==
    /\ pc[r] = "testing"
    /\ Goto(r, "summary")
    /\ UNCHANGED <<subject, files, run, cov, history>>

(* A failing test: execFileSync throws and vitest has reported nothing. *)
TestsFail(r) ==
    /\ pc[r] = "testing"
    /\ Goto(r, "exit1")
    /\ UNCHANGED <<subject, files, run, cov, history>>

(* computeMetrics to verifyPlatformRatios, on coverage c. *)
Gate(r, c) ==
    /\ coverage' = [coverage EXCEPT ![r] = c]
    /\ Goto(r, IF RatiosOk(Document(lint[r], c)) THEN "write" ELSE "exit1")

(* existsSync(summaryPath) is false: coverage is null. *)
SummaryMissing(r) ==
    /\ pc[r] = "summary" /\ summary = None
    /\ Gate(r, None)
    /\ UNCHANGED <<subject, files, at, skip, alone, lint, cov, history>>

SummaryFound(r) ==
    /\ pc[r] = "summary" /\ summary # None
    /\ Goto(r, "load")
    /\ UNCHANGED <<subject, files, run, cov, history>>

LoadSummary(r) ==
    /\ pc[r] = "load" /\ summary # None
    /\ Gate(r, summary)
    /\ UNCHANGED <<subject, files, at, skip, alone, lint, cov, history>>

(* The file has gone since existsSync: readFileSync throws. *)
LoadFails(r) ==
    /\ pc[r] = "load" /\ summary = None
    /\ Goto(r, "exit1")
    /\ UNCHANGED <<subject, files, run, cov, history>>

-----------------------------------------------------------------------------
(* verifyEslintSonarjsJson(file) accepts what the file holds. *)
Accepts(s) == disk[s] \in Documents /\ VerifyOk(DocumentOf(disk[s]))

Verify(r) ==
    /\ pc[r] = "verify"
    /\ IF Accepts(Unified)
       THEN Goto(r, "final") /\ vouched' = vouched \cup {disk[Unified]}
       ELSE Goto(r, "exit1") /\ UNCHANGED vouched
    /\ UNCHANGED <<subject, files, run, cov, seen>>

(* The last read of eslint_sonarjs.json decides the exit status. *)
Final(r) ==
    /\ pc[r] = "final"
    /\ Goto(r, IF disk[Unified] \in Documents /\ RowsOk(DocumentOf(disk[Unified]))
               THEN "exit0" ELSE "exit1")
    /\ UNCHANGED <<subject, files, run, cov, history>>

(* A signal or a failing write ends the run where it is; what it has been   *)
(* writing may then tear a file that another run had completed meanwhile.   *)
Kill(r) ==
    /\ Active(r)
    /\ Goto(r, "killed")
    /\ IF pc[r] = "writing" THEN \E x \in {disk[at[r]], Torn} : Put(at[r], x)
       ELSE UNCHANGED disk
    /\ UNCHANGED <<subject, summary, taxonomy, run, cov, history>>

(* verifyCli, on eslint_sonarjs.json or on the copy --json names. *)
VerifyCli ==
    /\ Overlap \/ Idle
    /\ \E s \in UnifiedCopies :
           Accepts(s) /\ vouched' = vouched \cup {disk[s]}
    /\ UNCHANGED <<subject, files, pc, run, cov, seen>>

-----------------------------------------------------------------------------
(* npm run coverage *)
CovStart(c) ==
    /\ covPc[c] = "off"
    /\ Overlap \/ Idle
    /\ covPc' = [covPc EXCEPT ![c] = "testing"]
    /\ CleanCoverage
    /\ UNCHANGED <<subject, disk, pc, run, history>>

CovPass(c) ==
    /\ covPc[c] = "testing"
    /\ covPc' = [covPc EXCEPT ![c] = "report"]
    /\ summary' = Measured(subject)
    /\ UNCHANGED <<subject, taxonomy, disk, pc, run, atClose, history>>

(* The commands that have the report beside the summary open. *)
ReportOpen == {c \in Coverages : atClose[c] # {}}

(* vitest failed, the summary is not there, or the command was killed: it   *)
(* leaves the report as it is, or torn if it had begun to write it.         *)
CovFail(c) ==
    /\ covPc[c] \in CovWorking
    /\ covPc' = [covPc EXCEPT ![c] = "done"]
    /\ atClose' = [atClose EXCEPT ![c] = {}]
    /\ taxonomy' \in {taxonomy} \cup (IF c \in ReportOpen THEN {TornReport} ELSE {})
    /\ UNCHANGED <<subject, summary, disk, pc, run, history>>

(* writeCoverageTaxonomyReport computes the report and opens its file, which*)
(* truncates it: what two commands write at the same time may mix.          *)
BeginReport(c) ==
    /\ covPc[c] = "report" /\ summary # None
    /\ covPc' = [covPc EXCEPT ![c] = "reporting"]
    /\ taxonomy' = TornReport
    /\ LET mixed == IF ReportOpen = {} THEN {} ELSE {TornReport}
       IN  atClose' = [d \in Coverages |->
                        IF d = c THEN {BuildCoverageTaxonomyReport(summary)} \cup mixed
                        ELSE IF d \in ReportOpen THEN atClose[d] \cup mixed ELSE {}]
    /\ UNCHANGED <<subject, summary, disk, pc, run, history>>

EndReport(c) ==
    /\ covPc[c] = "reporting"
    /\ covPc' = [covPc EXCEPT ![c] = "done"]
    /\ atClose' = [atClose EXCEPT ![c] = {}]
    /\ taxonomy' \in IF c \in ReportOpen THEN atClose[c] ELSE {taxonomy}
    /\ UNCHANGED <<subject, summary, disk, pc, run, history>>

Edit ==
    /\ Overlap \/ Idle
    /\ subject' \in Subjects \ {subject}
    /\ seen' = [r \in Runs |-> IF Active(r) THEN seen[r] \cup {subject'} ELSE seen[r]]
    /\ UNCHANGED <<files, pc, run, cov, vouched>>

-----------------------------------------------------------------------------
(* The steps that wait for another program, and those node takes itself. *)
ToolStep(r) ==
    \/ LintReports(r) \/ LintNotSpawned(r) \/ LintIsCut(r) \/ LintFails(r)
    \/ TestsPass(r) \/ TestsFail(r)

OwnStep(r) ==
    \/ BeginWrite(r) \/ EndWrite(r) \/ TestsStart(r)
    \/ SummaryMissing(r) \/ SummaryFound(r) \/ LoadSummary(r) \/ LoadFails(r)
    \/ Verify(r) \/ Final(r)

CovStep(c) == CovStart(c) \/ CovPass(c) \/ CovFail(c) \/ BeginReport(c) \/ EndReport(c)

Next ==
    \/ \E r \in Runs : Start(r) \/ ToolStep(r) \/ OwnStep(r) \/ Kill(r)
    \/ \E c \in Coverages : CovStep(c)
    \/ VerifyCli
    \/ Edit

Spec == Init /\ [][Next]_vars

(* Node's own steps never wait for anything; ESLint and Vitest are called   *)
(* without a timeout, so nothing says that they ever answer.                *)
FairSpec == Spec /\ \A r \in Runs : WF_vars(OwnStep(r))

-----------------------------------------------------------------------------
(* Properties of commands that are run one after the other (~Overlap).      *)

(* The files of a bundle are written in one order, so whatever run is cut   *)
(* off, before the file of a run there is none that is older or the commit's*)
(* and none is missing: no copy in platform/ or artifacts/ is ahead of      *)
(* eslint_sonarjs.json.                                                     *)
NewestFirst ==
    \A i, j \in Slots :
        i < j /\ disk[j] \in Runs /\ disk[i] # Torn => disk[i] >= disk[j]

(* When the last run that was started has exited with 0, every file is      *)
(* complete and is that run's, whatever earlier runs left half written.     *)
CleanExitIsWholeBundle ==
    \A r \in Runs :
        pc[r] = "exit0" /\ (\A q \in Runs : q > r => pc[q] = "off") =>
            \A s \in Slots : disk[s] = r

(* A document of a run that some verify has accepted is of a sample_subject *)
(* that had branches, all of them covered, for as long as the run went on:  *)
(* the verdict crosses Vitest's summary file and the bundle unharmed.       *)
VerifiedIsCovered ==
    \A r \in vouched \cap Runs : \A s \in seen[r] :
        LET b == Branches(Measured(s))
        IN  b.total > 0 /\ FullyCovered(b)

(* No run falls back on computeMetrics' twelve assumed branches: a Vitest   *)
(* that passed has left the summary existsSync looks for.                   *)
MeasuredNotAssumed == \A r \in Runs : coverage[r] # None

(* A taxonomy report that is not torn is of the same measurement as the     *)
(* summary beside it, whichever command was cut off: Vitest's cleaning takes*)
(* the old report with the old summary.                                     *)
TaxonomyMatchesSummary ==
    taxonomy \in Reports => /\ summary # None
                            /\ taxonomy = BuildCoverageTaxonomyReport(summary)

(* Properties of commands that may overlap.                                 *)

(* What a run counts and reads is of a tree there was while it was going on,*)
(* though other commands clean and write the same summary: its own Vitest   *)
(* has taken away whatever was measured before.  Only the numbers the code  *)
(* assumes (no report, no summary) are of no tree.                          *)
MeasuredDuringRun ==
    \A r \in Runs :
        /\ lint[r] \in {0, CutReport} \cup {s.errors : s \in seen[r]}
        /\ coverage[r] \in {Pending, None} \cup {Measured(s) : s \in seen[r]}

(* Both reports of the repository agree on an accepted run: from the same   *)
(* summary the taxonomy report shows 100 for the total, for the path        *)
(* detection files and for Path Coverage %.                                 *)
VerifiedIsFullInTaxonomy ==
    \A r \in vouched \cap Runs :
        coverage[r] # None =>
            LET report == BuildCoverageTaxonomyReport(coverage[r])
            IN  report.path_coverage = 100 /\ report.path_detection = 100
                /\ report.percent = 100

(* Once a run has exited with 0 no file of the bundle is missing or still   *)
(* the commit's: it is of some run, or torn.                                *)
SuccessReplacesEveryFile ==
    (\E r \in Runs : pc[r] = "exit0") =>
        \A s \in Slots : disk[s] \notin {Absent, Committed}

(* A run that is not waiting for ESLint or Vitest goes on to its end, or to *)
(* its wait for Vitest, whatever other commands do to the files it needs.   *)
AnsweredRunEnds ==
    \A r \in Runs : pc[r] \in Working \ {"lint", "testing"} ~>
                        pc[r] \in Ended \cup {"testing"}

(* eslint_sonarjs.json as a register that only moves forward. *)
Register == INSTANCE EvidenceRegister WITH
                Runs      <- Documents,
                First     <- Committed,
                content   <- disk[Unified],
                published <- {Committed} \cup {r \in Runs : at[r] > Unified},
                accepted  <- vouched

(* Each step of the commands is a step of that register, or none. *)
RegisterSpec == Register!Spec

(* Math.round lets the taxonomy report say 100 for a summary that is not    *)
(* full, but never for one that misses more than half a percent of the      *)
(* branches, in all files or in the path detection files alone.             *)
HundredMissesHalfAPercent ==
    taxonomy \in Reports /\ taxonomy.percent = 100 =>
        \A counts \in {Branches(summary), summary.path} :
            200 * counts.covered >= 199 * counts.total

-----------------------------------------------------------------------------
(* What the proofs carry along.  The first part holds however commands      *)
(* overlap, the part from OneAtATime on when they run one after the other.  *)

(* How far a run has come, by what it is about to do. *)
Progress ==
    \A r \in Runs :
        /\ pc[r] \in {"off", "lint"} => at[r] = EslintReport
        /\ pc[r] \in {"vitest", "testing", "summary", "load"} => at[r] = Unified
        /\ pc[r] \in {"write", "writing"} => at[r] \in Slots
        /\ pc[r] \in {"verify", "final", "exit0"} => at[r] = Artifact + 1

(* A file of the bundle that holds a run's document is of one that has      *)
(* written eslint_sonarjs.json, and what some run is past it has replaced.  *)
PublishedInv == \A s \in Slots \ {EslintReport} :
                    disk[s] \in Runs => at[disk[s]] > Unified

BehindReplaced == \A r \in Runs, s \in Slots :
                      s < at[r] => disk[s] \notin {Absent, Committed}

(* Past verifyPlatformRatios a run has read its coverage.                   *)
PastGate(r) == \/ at[r] > Unified
               \/ at[r] = Unified /\ pc[r] \in {"write", "writing"}

GateInv == \A r \in Runs : PastGate(r) => coverage[r] # Pending

(* What a verify has accepted stays acceptable.                             *)
VouchedInv == \A r \in vouched \cap Runs :
                  at[r] > Unified /\ VerifyOk(DocumentOf(r))

(* A run has seen the subject as it is, and a summary it may come to read is*)
(* of a subject it has seen.                                                *)
SeenInv ==
    \A r \in Runs :
        /\ pc[r] = "off" => seen[r] = {}
        /\ Active(r) => subject \in seen[r]
        /\ pc[r] \in {"testing", "summary", "load"} =>
               summary \in {None} \cup {Measured(s) : s \in seen[r]}

(* At most one command is going on, and runs start in the order of their    *)
(* numbers.                                                                 *)
OneAtATime ==
    /\ \A r, q \in Runs : Active(r) /\ q > r => pc[q] = "off"
    /\ \A r, q \in Runs : pc[r] # "off" /\ q < r => pc[q] # "off"
    /\ \A r \in Runs, c \in Coverages : Active(r) => covPc[c] \notin CovWorking
    /\ \A c, d \in Coverages : covPc[c] \in CovWorking /\ covPc[d] \in CovWorking
                                => c = d

(* Behind the slot a run has reached the files are its own, and from there  *)
(* on they are older.                                                       *)
SlotsBehind ==
    \A r \in Runs, s \in Slots :
        /\ pc[r] = "writing" => alone[r] /\ disk[at[r]] = Torn
        /\ pc[r] = "off" => disk[s] < r
        /\ Active(r) /\ s < at[r] => disk[s] = r
        /\ Active(r) /\ s >= at[r] => disk[s] < r

OrderInv == OneAtATime /\ SlotsBehind /\ NewestFirst
            /\ CleanExitIsWholeBundle

(* The one measurement a run works with is of the subject it started with,  *)
(* and a run without a measurement has written nothing of the bundle.       *)
MeasuredInv ==
    \A r \in Runs :
        /\ Active(r) => seen[r] = {subject}
        /\ pc[r] \in {"summary", "load"} => summary = Measured(subject)
        /\ coverage[r] = Pending \/
               \E s \in Subjects : seen[r] = {s} /\ coverage[r] = Measured(s)
        /\ pc[r] = "off" => coverage[r] = Pending
        /\ coverage[r] = Pending =>
               /\ at[r] <= Unified
               /\ at[r] = Unified => pc[r] \notin {"write", "writing"}

(* While tests run there is no taxonomy report: they have cleaned it away.  *)
(* The one that is being written is that of the summary, torn until then.   *)
ReportInv ==
    /\ taxonomy # None => /\ \A r \in Runs : pc[r] # "testing"
                          /\ \A c \in Coverages : covPc[c] # "testing"
    /\ \A c \in Coverages :
           IF covPc[c] = "reporting"
           THEN /\ summary # None
                /\ atClose[c] = {BuildCoverageTaxonomyReport(summary)}
           ELSE atClose[c] = {}
=============================================================================
