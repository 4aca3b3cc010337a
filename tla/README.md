# Formal model of the path coverage platform

The repository measures how completely a small subject (`sample_subject/`) is
covered by its tests and exports the result as a set of JSON documents. It
carries a vendored copy of the typescript-eslint monorepo
(`typescript-eslint/`), whose parser ESLint uses. This directory holds TLA+
modules that model the platform, TLC configurations that check them on small
instances, and proofs, checked by TLAPS, of theorems about them. Paths below are
relative to the root of the repository; `PROJECT.json` maps each definition to
the lines it stands for.

## Inventory

### The platform's own code

| component | source | state | operations |
|---|---|---|---|
| metrics | `src/metrics/pathCoverageMetrics.ts` | `eslint-report.json`, `coverage/coverage-summary.json` | `runEslint`, `runCoverage`, `computeMetrics`, `buildBaseOutput` |
| platform fixup and export | `src/platform/platformFixup.ts`, `exportPlatformBundle.ts` | the six root documents, their copies in `platform/`, one under `artifacts/training` | `applyPlatformFixup`, `verifyPlatformRatios`, `exportPlatformBundle` |
| verify | `src/verify/verifyEslintSonarjsJson.ts`, `verifyCli.ts` | none; reads `eslint_sonarjs.json` | `verifyEslintSonarjsJson` |
| trigger | `src/eslintSonarjsTrigger.ts` | none of its own; drives the above | `runTrigger`, with or without `--skip-verify` |
| coverage taxonomy report | `src/coverage/coverageTaxonomyReport.ts` | `coverage/taxonomy_metrics.json` | `npm run coverage`: Vitest, then `writeCoverageTaxonomyReport` |
| sample subject | `sample_subject/src/*.ts`, `sample_subject/tests` | local variables of its loops | eight functions, two of them with loops |
| entry | `src/index.ts` | none | prints a line |

**How they interact.** Everything goes through files. One trigger run calls
ESLint (a process), writes `eslint-report.json` and parses it, calls Vitest (a
process, which empties `coverage/` when it starts and writes the summary when
it passes), looks for the summary with `existsSync`, reads it, computes the
metrics, lets `verifyPlatformRatios` decide whether to go on, writes the bundle
file by file, copies the root files to `platform/` and one of them to
`artifacts/`, verifies `eslint_sonarjs.json` and reads it once more to decide
its exit status. `npm run coverage` uses the same `coverage/` directory,
`npm run verify` reads the same document, and nothing takes a lock.

**What is hard.** A node process is sequential, so there is nothing to
interleave inside one run; the difficulty is between processes and across
crashes: a run killed between two of its files leaves a bundle of two runs
over the previous one, or over the one that is committed with the code;
`writeFileSync` truncates before it writes; Vitest of
one command deletes what another command is about to read; the summary is tested
for and read in two calls; errors of a child process are told apart only by its
exit status; the subject may be edited between lint, tests and verdict; and the
numbers are rounded, multiplied and defaulted on their way to the verdict.

**What makes the components correct.**

- metrics: the numbers of a run are measured, of a tree there was while it went on;
- export: whatever is interrupted, no copy is ahead of the original, and a
  clean exit means a whole bundle of one run;
- verify: what is accepted has every branch covered;
- taxonomy report: it describes the summary it lies beside, and agrees with the
  verdict of the trigger on the same summary;
- trigger: it comes to its end by itself, and its exit status means something;
- sample subject: its functions return what the tests expect, and the tests
  reach every branch, as the README says.

### The vendored packages

The parts of typescript-eslint with state and control of their own:

| component | state | operations | hard behaviour |
|---|---|---|---|
| typescript-estree: watch programs | caches of watch programs, file lists, hashes and tsconfig times that live as long as the process | a call of `getWatchProgramsForProjects`, `clearWatchCaches` | stale programs after edits to code, files and configurations, in an order nobody tests |
| typescript-estree: parse settings and caches | two expiring caches against the clock, the root directories of the ESLint configs loaded | `createParseSettings`, `clearCaches` | entries renewed without being looked at, climbs of different files that share directories, a lifetime chosen by the first caller |
| typescript-estree: project service session | the service and its time of the last reload, the tsconfig as it was read, the files matched by the default project | `useProgramFromProjectService` | a tsconfig nobody watches, a throttled reload, a limit that counts what it refuses |
| typescript-estree: parser entry | the programs of a single run, how often a file was parsed | `parseAndGenerateServices`, `clearCaches` | programs made once and texts that change in every pass of fixes |
| scope-manager | scopes, each with the references it has to resolve, and what went through it | a walk over the program, then `addGlobals` | names referenced before they are defined, two namespaces in one variable, scopes that share a node |
| rule-tester | the passes over one test case | `runRuleForItem`, `applyFixes` | fixes that overlap, touch or are the wrong way round; rules that undo their own fixes |

**How they interact.** ESLint calls `parseAndGenerateServices` with a text.
It takes the settings from `createParseSettings`, which climbs to or globs for
tsconfigs, and asks the project service, the watch programs or the programs of the
single run for a program that has the file. What comes back is converted to an AST
(a translation without memory) and handed to the scope-manager's `analyze`, whose
result ESLint completes with its globals. Fixes that rules offer are merged pass
by pass, here by the rule-tester, and the fixed text is parsed again. `clearCaches` reaches
into all of the parser's caches, between any two calls.

**What makes the components correct.** The AST is of the text that was given. A file is
refused only if no tsconfig on disk includes it. What was found in a cache is
what would be found without it, for as long as the disk stays as it is, and
stale answers end. A reference is resolved to the nearest variable
it can mean, and none is lost. Fixes merged one by one are the fixes applied
at once, and none is left out without a reason.

The rest is either a function of one syntax tree with no state that outlives it
(`convert.ts`, the rules of eslint-plugin and eslint-plugin-internal), a table
or a type (`types`, `visitor-keys`, `ast-spec`, `utils`), an adapter (`parser`,
`typescript-eslint`, `tsconfig-utils`), TypeScript's own business
(`type-utils`), a code generator or the website. `PROJECT.json` lists all of
them with the reason they are left out.

## Modules

| module | models | role |
|---|---|---|
| `PathCoverageMetrics` | arithmetic of `pathCoverageMetrics.ts`, `platformFixup.ts`, `verifyEslintSonarjsJson.ts`, `coverageTaxonomyReport.ts` | operators only |
| `TriggerPipeline` | the processes and the files they share | the detailed specification |
| `EvidenceRegister` | what `eslint_sonarjs.json` promises its readers | the abstract specification |
| `TriggerPipelineProofs` | | theorems about `TriggerPipeline` and their proofs |
| `SampleSubject` | `sample_subject/src` run by its test files | detailed specification of the subject |
| `WatchPrograms` | `getWatchProgramsForProjects.ts` and what `createProjectProgram.ts` does with its programs | the detailed specification of the vendored parser's programs |
| `ExpiringCache` | `ExpiringCache.ts` | operators only |
| `TsconfigCaches` | `createParseSettings.ts`, `getProjectConfigFiles.ts`, `resolveProjectList.ts`, `candidateTSConfigRootDirs.ts`, `inferSingleRun.ts` | the caches of the settings; uses `ExpiringCache` |
| `ProjectService` | `useProgramFromProjectService.ts`, `createProjectService` | the service's part of a call |
| `ParserEntry` | `parser.ts`, `useProvidedPrograms.ts`, `createIsolatedProgram.ts`, `clear-caches.ts` | composes `ProjectService` with the single run's programs, ESLint's passes and the editor |
| `ScopeAnalysis` | `ScopeManager.ts`, `scope/`, `variable/`, the visitors of `referencer/` | the walk over any program, and ESLint's globals |
| `RuleTesterFixes` | `RuleTester.ts`, `SourceCodeFixer.ts` | passes and fixes |
| `SampleSubjectProofs`, `WatchProgramsProofs`, `TsconfigCachesProofs`, `ParserEntryProofs`, `ScopeAnalysisProofs`, `RuleTesterFixesProofs` | | theorems about the module of the name, and their proofs |
| `LeastNumbers` | | lemmas for proofs by induction: least and greatest members of sets of numbers, and repeating a step |
| `MCTriggerPipeline`, `MCSampleSubject`, `MCWatchPrograms`, `MCTsconfigCaches`, `MCParserEntry`, `MCScopeAnalysis`, `MCRuleTesterFixes` | | subjects, suites, directories, projects, programs and fixes for TLC |

The platform and the parser are modelled apart: the trigger sees ESLint only
through its exit and its report. So are the watch programs and `ParserEntry`: a
session is of one kind for as long as it lives, and one with `project` that is
no single run does nothing but call the watch programs.

### TriggerPipeline: state and code

| variable | in the program |
|---|---|
| `subject` | the tree under `sample_subject/`: its branch counts, split as `isPathDetectionFile` does, and the number of its ESLint errors |
| `summary` | `coverage/coverage-summary.json` |
| `taxonomy` | `coverage/taxonomy_metrics.json`: a whole report, an incomplete one (`TornReport`) or nothing |
| `disk` | for each file of the bundle, whose complete output it holds: that of a run, the commit's (`Committed`), an incomplete one (`Torn`) or nothing (`Absent`) |
| `pc`, `at` | where `runTrigger` is and which file it writes next |
| `lint`, `coverage` | the locals `eslintSummary.error_count` and `coverage` |
| `skip` | the argument `--skip-verify` |
| `alone` | whether another run had the same file open while it was written: then the writes may mix |
| `covPc` | where an `npm run coverage` is |
| `atClose` | what its report may hold once it has closed the file: its own text, a mixture if another command has the file open, and nothing once Vitest has removed the file |
| `seen`, `vouched` | history: the subjects there were during a run, the documents a verify has accepted |

A file is represented by the run it is of; what it says is a function of what
that run computed (`DocumentOf`), so a document is never built character by
character. The files stand in the order the export writes them: 0 is
`eslint-report.json`, then the bundle, its copies in `platform/`, and the copy
in `artifacts/training`. At first the root documents and the copies in `platform/`
are those of the commit (`Checkout`): READY, of 34 covered branches
(`CommittedSummary`); what `.gitignore` keeps out is not there.

| action | code |
|---|---|
| `Start` | `runTrigger` up to the call of ESLint |
| `LintReports`, `LintNotSpawned`, `LintIsCut`, `LintFails` | what `execFileSync` can come back with and what `runEslint` makes of it |
| `BeginWrite`, `EndWrite` | `writeFileSync` and `copyFileSync`, one file at a time; `AfterWrite` is what follows the last one, `JSON.parse` of the report included |
| `TestsStart`, `TestsPass`, `TestsFail` | `runCoverage` |
| `SummaryMissing`, `SummaryFound`, `LoadSummary`, `LoadFails` | `existsSync`, then `readFileSync`, then everything up to `verifyPlatformRatios` (`Gate`) |
| `Verify`, `Final` | `verifyEslintSonarjsJson`, then the last read and the exit status |
| `Kill` | a signal or a write that fails, at any point of a run; in the middle of a write it may tear what another run has completed meanwhile |
| `VerifyCli` | `npm run verify`, on any of the three copies |
| `CovStart`, `CovPass`, `CovFail` | `npm run coverage`: Vitest, and the command cut off anywhere |
| `BeginReport`, `EndReport` | `writeCoverageTaxonomyReport`: the report's file is opened, then closed |
| `Edit` | somebody changes the subject or its tests |

`CONSTANT Overlap` says whether commands and edits happen while another command
is going. Without overlap the files obey strong rules, which are proved; with
overlap some fail (a finding) and others still hold (checked).

ESLint, Vitest and the file system are external. They are modelled by what the
code can see of them: ESLint's exits as `runEslint` tells them apart, Vitest's
cleaning of its reports directory when it starts (the default `coverage.clean`,
which `vitest.config.ts` leaves alone) and its summary when all tests pass, and
files that are truncated when opened and complete when closed, the bundle's and
the taxonomy report alike. Who holds a file that is removed goes on writing what
nobody sees any more.

### SampleSubject: state and code

The test files run in workers of their own, so `at[f]` and `frame[f]` (the call
a file is at, and its locals) belong to a file while `taken`, the branches taken
so far, is shared. A straight-line function is an operator; `sumWhile` and
`flatten` are machines with one step for each pass of a loop. `suite` is what the
files hold and is chosen once: the repository's own tests, or calls of the two
loops on every small input with a reference definition's answers.

### WatchPrograms: state and code

| variable | in the program |
|---|---|
| `disk`, `config`, `mtime` | the files and tsconfigs on disk; a tsconfig is its include and whether it has an error, its time how often it has been written |
| `known` | `knownWatchProgramMap`, in the order of its entries |
| `fileList` | `programFileListCache` |
| `seenHash` | `parsedFilesSeenHash`; a hash is represented by the text it is of |
| `timestamp` | `tsconfigLastModifiedTimestampCache` |
| `level`, `stale` | what the callbacks of `fileWatchCallbackTrackingMap` and `folderWatchCallbackTrackingMap` have told TypeScript: which files have changed, whether root files or the whole tsconfig are to be looked at again |
| `loaded`, `roots`, `text` | a program: the tsconfig it has read, include and error, its root files, its text of each file |
| `cur` | `currentLintOperationState` and the projects of the call |
| `pc`, `at`, `results` | which access to the disk a call comes to next, at which entry of the map or project of the call, and the programs collected |
| `outcome` | what came of the call: the file's text in the program found, `Refused`, `Threw` |
| `calm`, `early` | history: nothing has changed on disk since the call began; the tsconfig was written after its program read it and before the first look at its time |

| action | code |
|---|---|
| `Lint` | a call: `currentLintOperationState`, the hash, the callbacks of the file |
| `FastSkip`, `FastFill`, `FastHit`, `FastMiss` | the first loop, over the programs there are |
| `Create`, `CreateThrows` | `createWatchProgram` and what follows it |
| `Visit`, `CheckConfig`, `Folder`, `FolderSync`, `NoneDeleted`, `Deleted`, `DeletedSync` | `maybeInvalidateProgram`, cut where it goes to the disk |
| `Listing` | what the second loop does with a program that is not null |
| `NoMoreProjects` | the call returns all results |
| `ClearWatchCaches` | `clearWatchCaches`, between calls |
| `Save`, `WriteConfig` | others: a file is saved, created or deleted, a tsconfig is written |

The function is synchronous, but files and tsconfigs belong to others: `Save` and
`WriteConfig` may happen between any two accesses of a call. TypeScript's watch
program is external and is modelled by the use the code makes of it. It does
nothing by itself (`setTimeout` is undefined). When it is asked for (`Sync`), it
reads the tsconfig if told that it changed, looks for the root files if told
that a folder changed or a file was deleted, reads through the host's
`readFile` the files it has been told have changed and those it had not, and
keeps the rest. `afterProgramCreate` throws the error of a tsconfig at every new
program made while the tsconfig last read has one, also when the tsconfig is not
read again (`Throws`): for a new text of a file, a root file that came or went, an
import that is found; TypeScript keeps the program all the same. `getWatchProgramsForProjects` looks for the
folder callbacks by climbing from the file's folder: what counts is whether any
folder above the file is watched, so a constant `Watched[p]` says for which
files that is. The finite sets of includes (`Includes[p]`) and the imports of
a file are constants as well.

### TsconfigCaches: state and code

| variable | in the program |
|---|---|
| `now`, `disk`, `changed` | the clock in seconds; the directories with a `tsconfig.json` and how often that has changed |
| `project`, `cli` | `parserOptions.project`; whether `inferSingleRun` has a reason to say so |
| `candidates` | `candidateTSConfigRootDirs`, which grows as ESLint configs are loaded |
| `matchLifetime`, `match` | `TSCONFIG_MATCH_CACHE`, made with the lifetime of the first caller |
| `globLifetime`, `glob` | `RESOLUTION_CACHE`, likewise |
| `answer` | what the call just made came back with |
| `lastChange`, `lastClimb`, `settled`, `climbRoots` | history, for the properties |

| action | code |
|---|---|
| `CallWithRoot`, `CallInferring` | `createParseSettings` with a `tsconfigRootDir` and without; synchronous, so one step |
| `RootUnknown` | more than one candidate root |
| `NoProject`, `Climbed`, `Globbed` | no project, `project: true` (`getProjectConfigFiles`), a pattern (`resolveProjectList`) |
| `LoadConfig` | `addCandidateTSConfigRootDir` |
| `ClearCaches`, `ClearGlobResolutionCache` | `clearCaches`, which keeps the caches and so their lifetimes; its companion for tests, which does not |
| `Tick`, `ChangeDisk` | time passes; a `tsconfig.json` is written or removed |

Directories are a tree given by `AtOrAbove` and the lengths of their paths,
which the code compares. What a climb found is passed through
`resolveProjectList`, whose cache could only return the same path.

### ProjectService and ParserEntry: state and code

| variable | in the program |
|---|---|
| `config` | the tsconfig on disk: the files it includes, whether it has errors |
| `service` | `TSSERVER_PROJECT_SERVICE`: the extra extensions it was told of, the tsconfig as it has read it, the age of `lastReloadTimestamp` |
| `matched` | `defaultProjectMatchedFiles` |
| `mode`, `singleRun` | the session: `projectService`, `project`, `programs` or none of them |
| `disk`, `linting` | the files; in a single run, the file ESLint is at and the text it has come to |
| `programs` | `existingPrograms`, or the programs given: the texts they were made from |
| `calls` | `parseAndGenerateServicesCalls` |
| `answer`, `foreign`, `served`, `refused` | what the last call came back with; history |

| action | code |
|---|---|
| `LintFile`, `FixPass`, `LintBuffer` | who calls `parseAndGenerateServices`: ESLint on a file, ESLint after a pass of fixes, an editor |
| `ParseIsolated`, `ParseWithService`, `ParseWithPrograms`, `ParseAlone` | the branches of the call: `createIsolatedProgram`, `useProgramFromProjectService`, `useProvidedPrograms`, `createNoProgram` |
| `FinishFile` | ESLint writes the fixed text, or does not |
| `EditFile`, `EditConfig` | somebody else writes a file or the tsconfig |
| `ClearCaches` | `clearCaches`; it leaves the count of calls alone |
| `Tick`, `DropProjects` | the throttle's time passes; TypeScript drops a project without open files |

### ScopeAnalysis: state and code

| variable | in the program |
|---|---|
| `scopes` | the scopes in the order they are made: kind, `upper` and all above it, the node (scopes of one node share it), `isStrict`, whether the walk is in the body of a function |
| `current`, `closing` | `currentScope`; the node whose scopes `close` is popping |
| `definitions` | the `defs` of all variables; a variable is there if it has a definition, or stands for one without an identifier |
| `references` | name, scope, namespaces, `maybeImplicitGlobal`, the functions in whose parameters it stands, `resolved` |
| `left`, `through` | `leftToResolve` and `through` of each scope |
| `implicit` | `implicit` of the global scope |
| `referencedJsx` | `hasReferencedJsxFactory` |

| action | code |
|---|---|
| `NestScope`, `NestFunctionScope`, `NestNamedFunctionScope`, `NestClassScope` | the visitors that open scopes, with what they define |
| `VisitBody` | `visitFunction` comes to the body |
| `DefineIdentifier`, `DefineVar`, `DefineInferred` | declarations, `var` (hoisted to the variable scope), `infer` |
| `ReferenceValue`, `ReferenceType`, `ReferenceDualValueType`, `AssignmentExpression` | the kinds of references |
| `JSXElement` | `referenceJsxPragma` |
| `Close` | one turn of the loop of `Referencer.close` |
| `AddGlobals` | `GlobalScope.addVariables`, called by ESLint after the walk |

The program is not fixed: wherever the walk is, it meets any construct that may
stand there (`Nestable`, `Definable`). That makes every program of the bounded
size one behaviour.

### RuleTesterFixes: state and code

`phase` is where `runRuleForItem` is; `code`, `passNumber` and
`messages` are its locals, `lastPos` and `output` those of `applyFixes`; `todo`
and `applied` are the fixes still to come and those applied. `Verify` is the call of
the linter (any fixes may be offered, or the code cannot be parsed), `AttemptFix`
one turn of the loop over the sorted fixes, `FinishPass` what follows the loop and
the decision about another pass.

## What the runs show

| run | instance | shows |
|---|---|---|
| `sequential` | 2 triggers, 1 coverage command, any verifies, no overlap, each cut off anywhere; 2 bundle files, at first the commit's; 4 subjects, two of them around the point where 99.5 is rounded to 100 | the files stay in order, a clean exit leaves a whole bundle, an accepted document is of a fully covered subject, no run uses assumed numbers, a whole taxonomy report belongs to its summary and its 100 hides at most half a percent of the branches, and `eslint_sonarjs.json` implements `EvidenceRegister` |
| `two_triggers` | 2 triggers, edits and verifies at any moment; 1 bundle file; a full subject and one the gate stops | what a run counts and reads is of a tree there was while it went on, though another run cleans and writes the same summary; after a success no file is missing or the commit's, even when two runs write the same files |
| `coverage_beside` | 1 trigger, 2 coverage commands, edits at any moment | trigger and taxonomy report agree on accepted runs; a run never hangs by itself |
| `suite` | the repository's tests; all lists of up to 2 rows of up to 2 cells in -1..1; n in -1..6 | every branch is taken; the loops return the reference answers |
| `watch` | 2 projects that reach no common file, one watching the other's folder; 2 texts; 1 write of each tsconfig, with and without an error; files saved, created and deleted; all of it at any moment | the program a call finds has the text of the call; a call that gives its file up after its second loop is right to, unless the disk changed during the call or a tsconfig was written before the first look at its time |
| `parse_settings` | 3 directories, one above the others; roots given and inferred; lifetimes of 0 and 2 seconds, and infinite ones; 1 change of the disk; 3 seconds | "no tsconfig" is always true of the disk; entries left by other files' climbs change no answer while the disk is stable; a stale answer ends once nobody has climbed for a lifetime, and a list of globbed files once the disk has been left alone for one |
| `parser_entry` | 3 files (one of a project, two for the default project, one of these with an extension of its own), 2 projects, limit 1, throttle 1, 2 texts; sessions of every kind | every AST is of the text given, through all passes of fixes; a refusal past the throttle is true of the tsconfig on disk; what the limit of the default project does; in an editor an included file comes to be served |
| `scopes` | one name and `arguments`; 8 kinds of nested scopes; up to 6 scopes, definitions and references together | a reference is resolved to the nearest variable it may mean and waits in exactly one scope until then; `through` and `implicit` are right, also after ESLint's globals; the pragma counts as used |
| `fixer` | code of up to 2 letters with and without a byte order mark; up to 3 fixes a pass, of all ranges from before the mark to the end, in any order, insertions where the code is shorter than two letters; 2 passes | merging one by one is applying at once; what is left out touches something applied; the passes end |
| `claim_measured` | violated | a coverage command that starts between a trigger's tests and its look for the summary makes the trigger assume 12 of 12 branches |
| `claim_fresh` | violated: 2 projects, one importing a file of the other | after an undo, the program has the code that was undone: there is one hash of a file for all programs |
| `claim_hidden` | violated: one function | in `function f<x>(a = x) { let x }` the default's `x` is resolved to the function's own, whose only value is in the body, against the comment at `FunctionScope.ts:44` |

The properties, with the hazard each one answers, are named and commented in
the modules; every property of a passing run has a mutant in `PROJECT.json`, a
plausible bug in a modelled definition under which TLC finds it violated.

**Bounds.** `MaxRuns` = 2: the hazards of a bundle need one run to spoil what an
earlier one left (killed half way, or rewritten at the same time), and a third
run meets nothing a second one could not have left. `NFiles` is 6 in the code
and 2 or 1 in the runs: a file has a predecessor and a successor of each kind
(root, copy, artifact) with 2 already, and the export does nothing else with the
others; the proofs hold for every number of runs and files. Subjects are chosen
for the cases the code distinguishes: everything covered, one branch missed,
one in eleven (with an ESLint error, in `two_triggers` only: the gate stops such a
run), no branch at all, branches in one group of files only.
Branch counts are otherwise unbounded naturals in the module. Each coverage
command runs once. The reference inputs of `suite` pass each loop zero, one and
two times at either level, and both outcomes of the test in it.

`watch` has two projects and one folder that both watch, so one project's folder update
reaches the other's program: P always has `a`, Q has `b` or nothing, and each may have an
error. They reach no common file, since `FreshText` is false of two that do
(run `claim_fresh`). Two texts are enough for a text to
be old, and one write of each tsconfig for it to change before or
after the first look at its time. A file may be renamed into the other (deleted and
created between two accesses). Imports, which only widen what a program has, are left
to `claim_fresh` and the proofs.

`GivesUpRightly` is about calls that have gone through their second loop. Of those
that end in the first one it is not true, even if no tsconfig is ever written.
Let P and Q watch one folder, `c` be a root file of Q and Q's list of files be cached: `c`
is deleted; a new file of P is linted, whose folder update tells Q too but clears only P's list; `c` is
linted from the editor, and the first loop, going by the list, has Q's program look
again, which drops `c`; `c` is saved again, and from then on the first loop refuses it
each time, by a list that has it and a program that does not. With an import it also happens to one project: a file that
is in the program only by import has the first loop cache the root files of a
program as it was before its tsconfig was written. Nor is it true of a tsconfig written
between its program's creation and the first look at its time (`early`): that look
has nothing to compare with, and later ones find the time unchanged.

`parse_settings` has two siblings and their parent: the smallest tree in which two
climbs share a directory and a nearer tsconfig may appear below the one that was
found. A lifetime of 2 in a clock of 3 seconds lets an entry be alive, renewed
and expired; one of 0 is that of an entry that must be gone in the same second. The infinite one comes from `singleRun`, which untyped files of the same
session do not have, so either may be the first caller's.
`parser_entry` needs a limit of 1 and two files that the default
project would take to go over it, and a throttle of 1 to be inside and outside
it; only whether a file was parsed more than once matters, so `calls` stops at 2.
One of its files may have the projects reloaded by the throttle, and another reloads them by
the change of its extensions, without setting the throttle's time; two of the first
kind are past what the liveness check can do.
`scopes` follows one reference, since references do not influence each other, of
one name, since only variables of its name concern it; what they have in common
(lists, `implicit`) is covered by the proofs, which hold for any number. Four
scopes hold a function within a class field of a scope; `with`, the
one scope that resolves nothing, two named scopes of one node and the conditional
type are among the kinds. In `fixer` two letters have all relations of ranges
(apart, touching, overlapping, nested, equal, empty, the wrong way round, before the
byte order mark at one end or at both). Fixes insert only into code shorter than
that (`MaxLength`), so that a pass leaves code of bounded length; they remove from any. Three
fixes are needed for one to be measured against one that was left out.

**Fairness.** `FairSpec` assumes weak fairness of `OwnStep(r)`: the steps the
node process of a run takes by itself. They never block (every file operation is
synchronous and returns or throws), so the operating system's scheduling is all
they need. Nothing is assumed of ESLint and Vitest, which are called without a
timeout; of `Kill`; of other commands; or of the person who edits. A run waiting
for a child process may therefore wait for ever, and `AnsweredRunEnds` says what
remains: any other run goes on to its end or to its wait for Vitest.

`ParserEntry`'s `FairSpec` assumes that the clock goes on and that the editor
lints each file again and again, and nothing of who edits the tsconfig.
`IncludedIsServed` is about files that stay included: a refusal must not stick for
ever. `RuleTesterFixes` assumes weak fairness of all its steps, since
`runRuleForItem` and the linter run synchronously to their end.

## What is proved

### The pipeline

`TriggerPipelineProofs` proves, for every number of runs, coverage commands and
bundle files and every set of subjects satisfying `TriggerAssumption` (covered
counts do not exceed totals) and the assumptions that `None`, `Pending` and
`TornReport` are no summaries or reports:

| theorem | statement | needs `~Overlap` |
|---|---|---|
| `TypeInvariant`, `TypeCorrect` | `TypeOK`, with `Progress`: which file a run can be at for each label | no |
| `Success` | `SuccessReplacesEveryFile` | no |
| `NumbersOfTheRun` | `MeasuredDuringRun` | no |
| `BothReportsFull` | `VerifiedIsFullInTaxonomy` | no |
| `Ordered` | `NewestFirst` and `SlotsBehind` | yes |
| `CleanExit` | `CleanExitIsWholeBundle` | yes |
| `NothingAssumed` | `MeasuredNotAssumed` | yes |
| `Verified` | `VerifiedIsCovered` | yes |
| `OneMeasurement` | `TaxonomyMatchesSummary` | yes |
| `HalfAPercent` | `HundredMissesHalfAPercent` | yes |
| `Implements` | `Spec => RegisterSpec` | yes |

`~Overlap` is an assumption about use, not about the code: commands are run one
after the other. Without it `MeasuredNotAssumed` is false (run
`claim_measured`), and so are the others that need it, since two runs may write
one file and two commands share `coverage/`. The first four hold however
commands, edits and crashes cross.

**The argument.** None of the properties is inductive. `TypeOK` needs `Progress`,
because the file a step writes must be one of the slots. What holds with overlap
rests on the code having no way back: `BehindReplaced` says that a file some run has
passed is neither missing nor the commit's, since a write may tear it but nothing removes
it or brings the commit's back (a copy has its root file behind it). `SeenInv` says
that a run has seen the subject as it is, and that the summary between a run's tests
and its read is of a subject it has seen, whoever wrote it: the run's own Vitest has
removed what was there before. `GateInv` says that
a run past `verifyPlatformRatios` has read its coverage, `PublishedInv` that a
file of the bundle with a run's document is of a run past that gate, and `VouchedInv` that
what a verify accepted is of such a run and is accepted for good, since a run's numbers
do not change once read. The rest is arithmetic, proved for counts of any size:
what is accepted is wholly
covered and full counts are rounded to 100 (`AcceptedIsCovered`,
`FullIsHundred`), and nothing below 99.5 percent is (`HundredIsNearlyFull`).
Without overlap, `ReportInv` says that there is no taxonomy report while
tests run, as Vitest has cleaned it away, and that the one being written is
that of the summary; so no new summary comes to lie
beside an old report, and what a command that is cut off leaves is torn. The order of the files
rests on two strengthenings. `OneAtATime`: while one command is going on no other
is, and runs start in the order of their numbers. `SlotsBehind`: the files
behind the one a run has reached are its own, the one it is writing is torn and
nobody else has it open, and from there on the files are of earlier runs. Lemma
`LoneWrite` derives from these what the two halves of a write do, and `Ordered`
then checks each step against pairs of files; `CleanExit` adds that a run that
exits with 0 has passed all of them. For the verdict, `MeasuredInv` says that the
subject cannot change while a run is active, that the summary between the tests
and the read is of that subject, and that a run without a measurement has
written nothing of the bundle; `AcceptedIsCovered` is the arithmetic, from
`VerifyOk` of the exported document back to the branch counts. `Implements` maps
the register's content to `disk[Unified]` and its published runs to those past
that file, and shows each action to be an `Open`, a `Publish`, an `Accept` or a
stutter.

### The watch programs

`WatchProgramsProofs` proves, for every number of projects, files, texts and
tsconfig writes and every `WatchAssumption` (what a project includes lies in
folders it watches; the marks for no text, no entry and no outcome are none of
the values they stand beside):

| theorem | statement | needs |
|---|---|---|
| `TypeCorrect` | `TypeOK` | |
| `FoundIsFresh` | `FreshText` | `Apart`: no two projects can reach one file, be it by import |
| `GivesUp` | `GivesUpRightly` | |

`Apart` always holds of one project; without it `FreshText` is false (run
`claim_fresh`). `GivesUpRightly` asks for nothing: it holds of any projects, imports,
errors and edits.

**The argument.** `TypeOK` is inductive, taken in groups of variables that change
together (lemma `TypeParts`). `FreshText` is not: whether the text found is that
of the call was decided when TypeScript was told, or not told, of it at the start of the
call. `Hashed` is the heart: where a program holds a file and has not been told
of a change, the hash last seen is of the text it holds. `Lint` compares the
call's code with that hash, so after it each program that was not told has the
code already (`Told`), and being asked for makes a program fresh (lemma
`SyncFresh`), which the programs collected stay until the call ends (`Synced`).
`Hashed` survives what other programs read because they read other files: a
program holds only what its project can reach (`Held`, `Loads`), and this is where
`Apart` is used (lemma `HashesApart`).

`GivesUpRightly` is about a whole call, and its invariant says at each label
why the file is not lost. `ConfigRead` says what a program has read of its tsconfig: what is
on disk, unless that was written since its time was looked at, or before the first
look. While nothing changes on disk, the second loop leaves a project either
among the results with a program that has the file (`AtProject`), or rightly
(`Right`): it has compared the time, so the tsconfig read is that on disk, and then the
program looked through the folder again, or does not watch it, which says that the
tsconfig does not include the file (lemma `MissingIsRight`). `Passed` sums this up over the
projects gone past: one of the results has the file, or all were rightly
left. What is asked of one project leaves the programs of the others as they are
(`SyncOthers`), and a call names no project twice (`EarlierIsOther`), so neither is
undone before the end.

### The caches of the settings

`TsconfigCachesProofs` proves, for every tree of directories satisfying
`DirsAssumption` (ancestors form a chain on which paths get shorter), any
callers, lifetimes, clock and changes of the disk:

| theorem | statement |
|---|---|
| `TypeCorrect` | `TypeOK` |
| `NotFoundTrue` | `NotFoundIsTrue` |
| `AnswersAreStable` | `StableAnswers` |
| `FreshAfterIdling` | `IdleMeansFresh` |
| `ListsSettle` | `GlobSettles` |

**The argument.** A climb that fails has looked at the disk in every directory it
passed. For `StableAnswers` the invariant is `CachedIsNearest`: while the disk is as
it was when the caches were empty and one root bounds the climbs, an entry of a
directory is the nearest tsconfig of that directory. A climb that ends at a hit
ends at the longest path with an entry or a tsconfig; lemma `ClimbFromWithin`
says that the climb from there is the rest of the same climb, so what the entry
says is the nearest for everything below. `IdleMeansFresh` rests on
`SeenByClimb` (no entry is younger than the last climb), `GlobSettles` on
`GlobIsOfDisk`: a list that was read since the last change is that of the disk.
The longest of a set of paths exists by lemma `GreatestNumber` of
`LeastNumbers`, which turns the library's well-founded induction into a
statement about sets.

### The parser entry and the project service

`ParserEntryProofs` proves, for any files, texts, projects, limit and throttle:

| theorem | statement |
|---|---|
| `TypeCorrect` | `TypeOK` |
| `TextsAreParsed` | `TextIsCode` |
| `RefusalsAreCurrent` | `RefusalIsCurrent` |
| `ServedIsLimited` | `ServedWithinLimit` |
| `LimitLasts` | `LimitSticks` |

**The argument.** A program of a single run has the texts of the disk when it was
made, and a text that differs is one of a later pass. `UnparsedIsDisk` says that a
file not parsed yet has in every program the text it has on disk; the first
parse is of that text, and later ones are isolated, because `calls` is
incremented before it is looked at. It survives `clearCaches` because that leaves
`calls` alone. `LimitInv` says that served files are matched, and that a refusal
means more than `Limit` are matched; the set only grows between two
`clearCaches`, hence both properties of the limit.

### The scopes

`ScopeAnalysisProofs` proves, for programs of any size, any names and libraries:

| theorem | statement |
|---|---|
| `TypeCorrect` | `TypeOK` |
| `NearestAlways` | `ResolvesToNearest` |
| `LostNever` | `NothingIsLost` |
| `ThroughAlways` | `ThroughIsOutside` |
| `SettledAlways` | `SettledForGood` |
| `ImplicitAlways` | `ImplicitIsUndeclared` |
| `PragmaAlways` | `PragmaIsUsed` |

**The argument.** `Base` makes the scopes a tree in the order of their creation
(`TreeOK`), so that those around a scope form a chain (`ChainIsLinear`) with an
innermost member of every part of it (lemma `GreatestNumber` again). `Resolution`
says of each reference where it is (`IsPlaced`): resolved, to the nearest closed
scope that accepts it (`IsNearest`); or waiting in the innermost open scope around it, while
no closed one accepts it (`IsWaiting`); and in `through` of exactly the closed
scopes it passed (`IsThrough`). Neither `ResolvesToNearest` nor `NothingIsLost`
is inductive without the other. Lemma `StepKinds` sorts the steps into four kinds:
those that add scopes or definitions (`Grows`), that add a reference
(`Collects`), `Close` and `AddGlobals`. The heart is `AcceptsKept`: definitions are
only added to open scopes, so what a closed scope accepts does not change, and a
decision made at its closing stays right. `Undeclared` and `PragmaMade` add what is
needed for the implicit globals and the pragma.

### The fixes

`RuleTesterFixesProofs` proves `TypeCorrect` (`TypeOK`), `NothingLeftOut`
(`LeftOutForAReason`) and `AllReplaced` (`FixedIsAllAtOnce`) for any letters, texts,
ranges, passes and numbers of fixes. For the second, the
invariant `InOrder` says that applied fixes start no later than those to do and end at
or before `lastPos`, where one of them ends. A fix that is left out starts at or before
`lastPos`, and no earlier than the one that ends there: the two touch.

For the third, the reference `AllAtOnce` goes through the text position by position,
as a recursive function: before each letter comes what a fix inserts there, and the
letter is kept unless a fix covers it. The code goes through the fixes instead and
copies the text between them in slices. The invariant `Replaced` relates the
two without speaking of the recursion: there is a function that satisfies its
equations (`Prefixes`), and at every position from `lastPos` on, it has what the
code has put together so far and the text from `lastPos` to there (`Reached`). A fix
that is applied later starts beyond `lastPos` (`AppliedBeyond`), so it leaves
the positions before it as they were, and up to its start the text is copied; then
one fix is one step of `Reached` (`OneMoreReplaced`). Lemma `LastPrefix` identifies
that function with `AllAtOnce` by the least position where they could differ. Fixes
end within the text (`FixesFit`), as the positions a rule reports do.

### The sample subject

`SampleSubjectProofs` proves, for any suites of typed calls, any number of test files
and inputs of any size:

| theorem | statement | needs |
|---|---|---|
| `TypeCorrect` | `TypeOK` | |
| `Answers` | a test has passed so far exactly when each of its calls expects what the reference definition says | |
| `ExpectationsMet` | `ExpectsHold` | every call of a suite expects that |
| `BranchesOfCalls` | when all files have ended, the branches taken are those of their calls | |
| `EveryBranch` | `SuiteTakesEveryBranch` | the calls of a complete suite have every branch between them |

Both hypotheses are about the literal arguments of the tests; the two suites of
run `suite` satisfy them.

**The argument.** `SubjectInv` has the invariants of the loops. `SumOK`: after i
passes of `sumWhile`, twice the total is i(i-1). `FlattenOK`: after j cells of row i,
`flatten` has collected the non-negative ones of the first so many cells of all rows
joined; lemmas `RowsInPlace` and `CellsInPlace` say which cell of the joined rows a pass
is at. What the first k rows or cells give is `Iterated` of `LeastNumbers`, whose
equations are derived there (`IteratedSteps`) from the least index without a
solution, as the library's theorem on recursive functions cannot be instantiated.
A step of a file either goes on in its call or returns what it is to return
(`GoesOn`, `Returns`, lemma `StepOfFile`), and the branches it takes are those by which
the call has come further (`Begun`, `CallBranches`); `AnswerInv` and `TakenInv` sum
that up over calls and files.

**Only model-checked.** Liveness: `AnsweredRunEnds`, `IncludedIsServed`,
`PassesEnd`. Every other property of a passing run is proved, under the hypotheses
named above. The equality of a loop's result with the reference definitions of
`MCSampleSubject` (community modules' folds) is checked on the small inputs; the
proofs use reference definitions of their own.

## What the models say of the code

Beside the findings in `PROJECT.json`, which the runs named `claim_` show, behaviour
that a reader of the code may not expect:

- `METRIC_COVERAGE.md` gives the percentage as covered over total paths; the export
  writes the constant 100. When npx cannot be spawned, a run goes on as if ESLint
  had found no errors. The taxonomy report may show more covered paths than paths.
- The gate stops a run that covers some but less than a tenth of its branches, and
  lets one pass that covers none of up to ten: a count of zero is
  replaced by one first (`platformFixup.ts:42`).
- The commit holds documents that are READY. `npm run verify` accepts them before the
  first run, and again if that run is stopped before it writes.
- A call that finds no program for a file tells every program that watches the
  file's folder to look again, but clears only the cached list of the project it is at. The
  list of another one may then be older than its program, and a file that was
  deleted and made again be refused.
- A tsconfig with an error is reported again at each new text of a file, while a call
  that needs no new program answers from the one that was made in spite of the error.
- A climb writes what it found again on every hit, so an entry in use never
  expires, while the parser's documentation says that cached tsconfigs are
  evicted after a time. Lists of globbed files do expire.
- `clearCaches` keeps the lifetimes of the caches, chosen by the first caller, and the
  count of parse calls.
- A tsconfig that the project service has read with errors is not reloaded by the
  throttled path; one that was mended is noticed once something else
  reloads the projects.
- A file that the default project refused for its limit counts against the limit.
  Until `clearCaches` no file is served by it any more, not even one that was
  before.
- Programs given with `programs` are not updated in the passes of fixes: the AST
  is of the text they were made from.
- An insertion before the byte order mark is lost when a later fix of the pass takes
  the mark away: `SourceCodeFixer.ts:75` empties what has been put together so far.
- A fix that changes nothing may keep a conflicting one from ever being applied. The
  comment on the start and end of a fix in `SourceCodeFixer.ts` is not true of
  ranges that are the wrong way round, which are left out.
- `arguments` in the defaults of a function with a body is not resolved to the
  function's own. A first JSX element under a local variable of the pragma's name
  leaves the import outside unreferenced.

## What is not modelled

- The wording of documents, rule names, evidence strings and the fields no
  reader of the repository looks at.
- `countControlFlowPaths`, a count of keywords in the source text for an
  informational field.
- Half-written summaries: Vitest writes its summary in one call, and the window
  is Vitest's own. Half-written files of the bundle and taxonomy reports are modelled.
- The loss of power: a file that was closed stays as it is, though the code does
  not call `fsync`.
- `npm run lint:json` and the other scripts that only call ESLint.
- Of the watch programs: the compiler's options, extra file extensions, type
  checking, and a tsconfig that does not exist. Names of files are canonical in
  the model, as they are after `getCanonicalFileName`.
- Of the parser entry: parsing itself and its errors, `convert.ts`, warnings about
  versions of TypeScript, and type information of what is in a program.
- Of the settings: options that are only copied, and which reason there is for a
  single run.
- Of the scope-manager: the fragment factory (the same code as the pragma's), the
  table of variables declared by a node, the order of a variable's identifiers,
  members of enums that are written as strings, and how libraries depend on each
  other. Which construct calls what is left open, so a visitor that called the wrong
  operation would not be noticed.
- Of the rule-tester: merging of configurations, validation of tests, comparison of
  messages and suggestions with what is expected, dependency constraints.
- The rules of eslint-plugin and eslint-plugin-internal, more than half of the
  repository's code: about 130 independent functions from one syntax tree
  to reports, which share nothing and keep nothing. The hard part of each is the list
  of shapes of syntax it tells apart; a model of that is the rule again.
- `convert.ts`, a translation node by node from one syntax tree to another; the
  tables under `scope-manager/src/lib`, `visitor-keys`, `ast-spec` and `utils`,
  generated or made of types; `type-utils`, whose answers are TypeScript's; the
  website.

## Plan

1. *(done)* The platform: `PathCoverageMetrics`, `EvidenceRegister`,
   `TriggerPipeline`, its proofs, `SampleSubject`.
2. *(done)* The parser's state: `WatchPrograms`, `ExpiringCache`,
   `TsconfigCaches`, `ProjectService`, `ParserEntry` and their proofs.
3. *(done)* `ScopeAnalysis` and `RuleTesterFixes` and their proofs.
4. *(done)* Theorems for every safety property the runs check.
5. Open: an abstract specification of a pass of fixes as one step, which
   `AllReplaced` and `NothingLeftOut` show `RuleTesterFixes` to implement. The table of
   variables declared by a node is small and could be added to `ScopeAnalysis`.
