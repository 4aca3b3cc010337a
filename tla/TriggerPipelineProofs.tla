----------------------- MODULE TriggerPipelineProofs -----------------------
(* Theorems about TriggerPipeline, for every number of runs, coverage       *)
(* commands, files and every set of subjects.                               *)
EXTENDS TriggerPipeline, TLAPS

-----------------------------------------------------------------------------
(* TypeOK alone is not inductive: that EndWrite leaves at[r] in range rests  *)
(* on where a run can be when it is about to write.                         *)
TypeInv == TypeOK /\ Progress

(* Every variable keeps the type TypeOK gives it, and a run's label says    *)
(* how far it is: no step of a command, overlapping or not, takes a file, a *)
(* slot or a label out of range.                                            *)
THEOREM TypeInvariant == Spec => []TypeInv
<1>1. Init => TypeInv
  BY TriggerAssumption DEF Init, TypeInv, TypeOK, Progress, Slots, Artifact,
                           EslintReport, Working, Runs, Documents
<1>2. TypeInv /\ [Next]_vars => TypeInv'
  <2> SUFFICES ASSUME TypeInv, [Next]_vars PROVE TypeInv'
    OBVIOUS
  <2> USE TriggerAssumption DEF TypeInv
  <2>a. 1 \in 0..Artifact /\ Artifact \in Nat
    BY DEF Artifact
  <2>1. ASSUME NEW r \in Runs, Start(r) PROVE TypeInv'
    BY <2>1 DEF Start, Goto, TypeOK, Progress, files, cov, history, Working
  <2>2. ASSUME NEW r \in Runs, ToolStep(r) PROVE TypeInv'
    <3>1. ASSUME NEW n \in Nat \cup {CutReport}, pc[r] = "lint", Goto(r, "write"),
                 lint' = [lint EXCEPT ![r] = n],
                 UNCHANGED <<subject, files, at, skip, alone, coverage, cov, history>>
          PROVE  TypeInv'
      <4>1. TypeOK'
        BY <3>1 DEF Goto, TypeOK, files, cov, history, Working
      <4>2. Progress'
        BY <3>1, <2>a DEF Goto, TypeOK, Progress, EslintReport, Slots
      <4>3. QED
        BY <4>1, <4>2
    <3>2. CASE LintReports(r) \/ LintNotSpawned(r) \/ LintIsCut(r)
      <4>1. subject.errors \in Nat
        BY DEF TypeOK
      <4>2. QED
        BY <3>1, <3>2, <4>1 DEF LintReports, LintNotSpawned, LintIsCut
    <3>3. CASE LintFails(r) \/ TestsFail(r)
      BY <3>3 DEF LintFails, TestsFail, Goto, TypeOK, Progress, files, run, cov, history, Ended
    <3>4. CASE TestsPass(r)
      BY <3>4 DEF TestsPass, Goto, TypeOK, Progress, run, cov, history, Working, Summaries
    <3>5. QED
      BY <2>2, <3>2, <3>3, <3>4 DEF ToolStep
  <2>3. ASSUME NEW r \in Runs, OwnStep(r) PROVE TypeInv'
    <3>1. CASE BeginWrite(r)
      <4>1. alone' \in [Runs -> BOOLEAN]
        BY <3>1 DEF BeginWrite, TypeOK
      <4>2. pc' \in [Runs -> {"off"} \cup Working \cup Ended]
        BY <3>1 DEF BeginWrite, Goto, TypeOK, Working
      <4>3. disk' \in [Slots -> {Absent, Torn} \cup Documents]
        BY <3>1 DEF BeginWrite, Put, TypeOK
      <4>4. TypeOK'
        BY <3>1, <4>1, <4>2, <4>3 DEF BeginWrite, TypeOK, cov, history
      <4>5. Progress'
        BY <3>1 DEF BeginWrite, Goto, TypeOK, Progress
      <4>6. QED
        BY <4>4, <4>5
    <3>2. CASE EndWrite(r)
      <4>1. AfterWrite(r) \in Working \cup Ended
        BY DEF AfterWrite, Working, Ended
      <4>2. Written(r) \in {Absent, Torn} \cup Documents
        BY DEF Written, TypeOK, Platform, Slots, Artifact, Documents
      <4>3. disk' \in [Slots -> {Absent, Torn} \cup Documents]
        <5>1. PICK x \in {Written(r), Torn} : disk' = [disk EXCEPT ![at[r]] = x]
          BY <3>2 DEF EndWrite, Put
        <5>2. QED
          BY <4>2, <5>1 DEF TypeOK
      <4>4. pc' \in [Runs -> {"off"} \cup Working \cup Ended]
        BY <3>2, <4>1 DEF EndWrite, Goto, TypeOK
      <4>5. at[r] \in Slots /\ at' = [at EXCEPT ![r] = at[r] + 1]
        BY <3>2 DEF EndWrite, Progress
      <4>6. at' \in [Runs -> 0..(Artifact + 1)]
        BY <4>5, <2>a DEF TypeOK, Slots
      <4>7. TypeOK'
        BY <3>2, <4>3, <4>4, <4>6 DEF EndWrite, TypeOK, cov, history
      <4>8. Progress'
        BY <3>2, <4>5, <2>a DEF EndWrite, AfterWrite, Goto, TypeOK, Progress, Slots,
                                EslintReport, Unified
      <4>9. QED
        BY <4>7, <4>8
    <3>3. CASE TestsStart(r)
      BY <3>3 DEF TestsStart, CleanCoverage, Goto, TypeOK, Progress, run, cov, history, Working
    <3>4. CASE SummaryMissing(r) \/ LoadSummary(r)
      <4>1. PICK c \in Summaries \cup {None} : Gate(r, c)
        BY <3>4 DEF SummaryMissing, LoadSummary, TypeOK
      <4>2. coverage' \in [Runs -> Summaries \cup {None, Pending}]
        BY <4>1 DEF Gate, TypeOK
      <4>3. pc' \in [Runs -> {"off"} \cup Working \cup Ended]
        BY <4>1 DEF Gate, Goto, TypeOK, Working, Ended
      <4>4. TypeOK'
        BY <3>4, <4>2, <4>3 DEF SummaryMissing, LoadSummary, TypeOK, files, cov, history
      <4>5. Progress'
        BY <3>4, <4>1, <2>a DEF SummaryMissing, LoadSummary, Gate, Goto, TypeOK, Progress,
                                Unified, Slots
      <4>6. QED
        BY <4>4, <4>5
    <3>5. CASE SummaryFound(r) \/ LoadFails(r)
      BY <3>5 DEF SummaryFound, LoadFails, Goto, TypeOK, Progress, files, run, cov, history,
                  Working, Ended
    <3>6. CASE Verify(r) \/ Final(r)
      BY <3>6 DEF Verify, Final, Accepts, Goto, TypeOK, Progress, files, run, cov, history,
                  Working, Ended
    <3>7. QED
      BY <2>3, <3>1, <3>2, <3>3, <3>4, <3>5, <3>6 DEF OwnStep
  <2>4. ASSUME NEW r \in Runs, Kill(r) PROVE TypeInv'
    <3>1. disk' \in [Slots -> {Absent, Torn} \cup Documents]
      BY <2>4 DEF Kill, Put, TypeOK, Progress
    <3>2. QED
      BY <2>4, <3>1 DEF Kill, Goto, TypeOK, Progress, run, cov, history, Ended
  <2>5. ASSUME NEW c \in Coverages, CovStep(c) PROVE TypeInv'
    <3>1. /\ summary' \in Summaries \cup {None}
          /\ taxonomy' \in Reports \cup {None, TornReport}
          /\ covPc' \in [Coverages -> {"off", "done"} \cup CovWorking]
          /\ atClose' \in [Coverages -> SUBSET (Reports \cup {TornReport})]
      BY <2>5 DEF CovStep, CovStart, CleanCoverage, CovPass, CovFail, BeginReport, EndReport,
                  ReportOpen, TypeOK, CovWorking, Summaries, Reports
    <3>2. UNCHANGED <<subject, disk, pc, run, history>>
      BY <2>5 DEF CovStep, CovStart, CovPass, CovFail, BeginReport, EndReport
    <3>3. QED
      BY <3>1, <3>2 DEF TypeOK, Progress, run, history
  <2>6. CASE VerifyCli
    BY <2>6 DEF VerifyCli, Accepts, TypeOK, Progress, files, run, cov, history
  <2>7. CASE Edit
    BY <2>7 DEF Edit, TypeOK, Progress, files, run, cov, history
  <2>8. CASE UNCHANGED vars
    BY <2>8 DEF TypeOK, Progress, vars, files, run, cov, history
  <2>9. QED
    BY <2>1, <2>2, <2>3, <2>4, <2>5, <2>6, <2>7, <2>8 DEF Next
<1>3. QED
  BY <1>1, <1>2, PTL DEF Spec

(* The part of it the runs check. *)
THEOREM TypeCorrect == Spec => []TypeOK
<1>1. TypeInv => TypeOK
  BY DEF TypeInv
<1>2. QED
  BY <1>1, TypeInvariant, PTL

-----------------------------------------------------------------------------
(* What the steps of one run have in common.                                *)

(* A run that takes a step is under way, stays so or ends, and leaves the   *)
(* coverage commands alone.                                                 *)
LEMMA RunStep ==
    ASSUME NEW r \in Runs, TypeOK, ToolStep(r) \/ OwnStep(r) \/ Kill(r)
    PROVE  /\ Active(r)
           /\ \E l \in Working \cup Ended : pc' = [pc EXCEPT ![r] = l]
           /\ UNCHANGED covPc
<1> USE DEF cov
<1>1. CASE ToolStep(r)
  BY <1>1 DEF ToolStep, LintReports, LintNotSpawned, LintIsCut, LintFails, TestsPass,
              TestsFail, Goto, Active, Working, Ended
<1>2. CASE OwnStep(r)
  <2>1. CASE BeginWrite(r) \/ EndWrite(r)
    BY <2>1 DEF BeginWrite, EndWrite, AfterWrite, Goto, Active, Working, Ended
  <2>2. CASE TestsStart(r) \/ SummaryMissing(r) \/ SummaryFound(r) \/ LoadSummary(r)
             \/ LoadFails(r)
    BY <2>2 DEF TestsStart, CleanCoverage, SummaryMissing, SummaryFound, LoadSummary,
                LoadFails, Gate, Goto, Active, Working, Ended
  <2>3. CASE Verify(r) \/ Final(r)
    BY <2>3 DEF Verify, Final, Goto, Active, Working, Ended
  <2>4. QED
    BY <1>2, <2>1, <2>2, <2>3 DEF OwnStep
<1>3. CASE Kill(r)
  BY <1>3 DEF Kill, Goto, Active, Ended
<1>4. QED
  BY <1>1, <1>2, <1>3

(* Only BeginWrite and EndWrite move the run in the bundle, only they and a *)
(* cut write touch a file, and only Final exits with 0.  A cut write changes*)
(* nothing where the file is torn as long as nobody else has completed it.  *)
LEMMA OtherStep ==
    ASSUME NEW r \in Runs, TypeInv, ToolStep(r) \/ OwnStep(r) \/ Kill(r),
           ~BeginWrite(r), ~EndWrite(r)
    PROVE  /\ UNCHANGED <<at, alone>>
           /\ \A s \in Slots : disk'[s] \in {disk[s], Torn}
           /\ SlotsBehind => UNCHANGED disk
           /\ pc'[r] # "writing"
           /\ pc'[r] = "exit0" => Final(r)
<1> USE DEF TypeInv
<1>1. CASE ToolStep(r)
  BY <1>1 DEF ToolStep, LintReports, LintNotSpawned, LintIsCut, LintFails, TestsPass,
              TestsFail, Goto, TypeOK, files, run
<1>2. CASE OwnStep(r)
  BY <1>2 DEF OwnStep, TestsStart, SummaryMissing, SummaryFound, LoadSummary, LoadFails,
              Gate, Verify, Final, Goto, TypeOK, files, run
<1>3. CASE Kill(r)
  <2>1. UNCHANGED <<at, alone>> /\ pc'[r] = "killed"
    BY <1>3 DEF Kill, Goto, TypeOK, run
  <2>2. CASE pc[r] # "writing"
    BY <1>3, <2>1, <2>2 DEF Kill
  <2>3. CASE pc[r] = "writing"
    <3>1. PICK x \in {disk[at[r]], Torn} : disk' = [disk EXCEPT ![at[r]] = x]
      BY <1>3, <2>3 DEF Kill, Put
    <3>2. \A s \in Slots : disk'[s] \in {disk[s], Torn}
      BY <3>1 DEF TypeOK
    <3>3. SlotsBehind => disk' = disk
      BY <2>3, <3>1 DEF SlotsBehind, TypeOK, Progress
    <3>4. QED
      BY <2>1, <3>2, <3>3
  <2>4. QED
    BY <2>2, <2>3
<1>4. QED
  BY <1>1, <1>2, <1>3

(* A run's step leaves the place, the labels and the data of other runs as  *)
(* they are; once it has written eslint_sonarjs.json what it has counted    *)
(* and read stays as it is.                                                 *)
LEMMA OwnData ==
    ASSUME NEW r \in Runs, TypeInv, ToolStep(r) \/ OwnStep(r) \/ Kill(r)
    PROVE  /\ \A q \in Runs \ {r} : /\ pc'[q] = pc[q] /\ at'[q] = at[q]
                                    /\ lint'[q] = lint[q] /\ coverage'[q] = coverage[q]
           /\ at'[r] = IF EndWrite(r) THEN at[r] + 1 ELSE at[r]
           /\ pc[r] # "lint" => lint'[r] = lint[r]
           /\ pc[r] \notin {"summary", "load"} => coverage'[r] = coverage[r]
<1> USE DEF TypeInv
<1>1. \A q \in Runs \ {r} : pc'[q] = pc[q]
  BY RunStep DEF TypeOK
<1>2. at'[r] = (IF EndWrite(r) THEN at[r] + 1 ELSE at[r]) /\ \A q \in Runs \ {r} : at'[q] = at[q]
  <2>1. CASE EndWrite(r)
    BY <2>1 DEF EndWrite, TypeOK
  <2>2. CASE BeginWrite(r) /\ ~EndWrite(r)
    BY <2>2 DEF BeginWrite
  <2>3. CASE ~EndWrite(r) /\ ~BeginWrite(r)
    BY <2>3, OtherStep
  <2>4. QED
    BY <2>1, <2>2, <2>3
<1>3. /\ pc[r] # "lint" => lint'[r] = lint[r]
      /\ \A q \in Runs \ {r} : lint'[q] = lint[q]
  BY DEF ToolStep, LintReports, LintNotSpawned, LintIsCut, LintFails, TestsPass, TestsFail,
         OwnStep, BeginWrite, EndWrite, TestsStart, CleanCoverage, SummaryMissing, SummaryFound,
         LoadSummary, LoadFails, Verify, Final, Kill, run, cov, history, TypeOK
<1>4. /\ pc[r] \notin {"summary", "load"} => coverage'[r] = coverage[r]
      /\ \A q \in Runs \ {r} : coverage'[q] = coverage[q]
  BY DEF ToolStep, LintReports, LintNotSpawned, LintIsCut, LintFails, TestsPass, TestsFail,
         OwnStep, BeginWrite, EndWrite, TestsStart, CleanCoverage, SummaryMissing, SummaryFound,
         LoadSummary, LoadFails, Gate, Verify, Final, Kill, run, cov, history, TypeOK
<1>5. QED
  BY <1>1, <1>2, <1>3, <1>4

(* Starting a run and the steps that are not a run's leave the data and the *)
(* bundle alone, and take no run back to the start.                         *)
LEMMA NotARunsStep ==
    ASSUME TypeInv,
           \/ \E r \in Runs : Start(r)
           \/ \E c \in Coverages : CovStep(c)
           \/ VerifyCli \/ Edit \/ UNCHANGED vars
    PROVE  /\ UNCHANGED <<disk, at, lint, coverage>>
           /\ \A q \in Runs : pc'[q] = pc[q] \/ (pc[q] = "off" /\ pc'[q] = "lint")
<1>1. ASSUME NEW r \in Runs, Start(r)
      PROVE  /\ UNCHANGED <<disk, at, lint, coverage>>
             /\ \A q \in Runs : pc'[q] = pc[q] \/ (pc[q] = "off" /\ pc'[q] = "lint")
  BY <1>1 DEF Start, Goto, files, TypeInv, TypeOK
<1>2. ASSUME NEW c \in Coverages, CovStep(c)
      PROVE  UNCHANGED <<disk, at, lint, coverage, pc>>
  BY <1>2 DEF CovStep, CovStart, CleanCoverage, CovPass, CovFail, BeginReport, EndReport,
              files, run, cov, history
<1>3. CASE VerifyCli \/ Edit \/ UNCHANGED vars
  BY <1>3 DEF VerifyCli, Edit, vars, files, run, cov, history
<1>4. QED
  BY <1>1, <1>2, <1>3

-----------------------------------------------------------------------------
(* What holds however commands overlap.                                     *)

(* No step takes away a file a run has passed: a write leaves its own       *)
(* output, a copy of a file behind it, or a torn file.                      *)
LEMMA BehindInvariant == Spec => []BehindReplaced
<1>1. Init => BehindReplaced
  BY DEF Init, BehindReplaced, Slots
<1>2. TypeInv /\ BehindReplaced /\ [Next]_vars => BehindReplaced'
  <2> SUFFICES ASSUME TypeInv, BehindReplaced, [Next]_vars PROVE BehindReplaced'
    OBVIOUS
  <2>0. /\ \A q \in Runs : at[q] \in Nat /\ q \notin {Absent, Committed}
        /\ \A s \in Slots : s \in Nat
        /\ Torn \notin {Absent, Committed}
    BY TriggerAssumption
       DEF TypeInv, TypeOK, Runs, Artifact, Slots, Absent, Torn, Committed
  <2>1. ASSUME NEW r \in Runs, ToolStep(r) \/ OwnStep(r) \/ Kill(r) PROVE BehindReplaced'
    <3>1. CASE BeginWrite(r)
      BY <2>0, <3>1 DEF BeginWrite, Put, BehindReplaced, TypeInv, TypeOK
    <3>2. CASE EndWrite(r)
      <4>1. Written(r) \notin {Absent, Committed}
        <5>1. at[r] \in Platform => at[r] - NFiles \in Slots /\ at[r] - NFiles < at[r]
          BY TriggerAssumption DEF Platform, Slots, Artifact
        <5>2. QED
          BY <2>0, <5>1 DEF Written, BehindReplaced
      <4>2. at[r] \in Slots
        BY <3>2 DEF EndWrite, TypeInv, Progress
      <4>3. PICK x \in {Written(r), Torn} : disk' = [disk EXCEPT ![at[r]] = x]
        BY <3>2 DEF EndWrite, Put
      <4>4. \A s \in Slots : disk'[s] = IF s = at[r] THEN x ELSE disk[s]
        BY <4>2, <4>3 DEF TypeInv, TypeOK
      <4>5. /\ \A q \in Runs \ {r} : at'[q] = at[q]
            /\ at'[r] = at[r] + 1
        BY <3>2 DEF EndWrite, TypeInv, TypeOK
      <4>6. QED
        BY <2>0, <4>1, <4>4, <4>5 DEF BehindReplaced
    <3>3. CASE ~BeginWrite(r) /\ ~EndWrite(r)
      BY <2>0, <2>1, <3>3, OtherStep DEF BehindReplaced
    <3>4. QED
      BY <3>1, <3>2, <3>3
  <2>2. CASE ~\E r \in Runs : ToolStep(r) \/ OwnStep(r) \/ Kill(r)
    BY <2>2, NotARunsStep DEF Next, BehindReplaced
  <2>3. QED
    BY <2>1, <2>2
<1>3. QED
  BY <1>1, <1>2, TypeInvariant, PTL DEF Spec

(* Once a run has exited with 0 no file of the bundle is missing or still   *)
(* the commit's, whatever other runs write, tear or copy at the same time.  *)
THEOREM Success == Spec => []SuccessReplacesEveryFile
<1>1. TypeInv /\ BehindReplaced => SuccessReplacesEveryFile
  <2> SUFFICES ASSUME TypeInv, BehindReplaced, NEW r \in Runs, pc[r] = "exit0", NEW s \in Slots
               PROVE  disk[s] \notin {Absent, Committed}
    BY DEF SuccessReplacesEveryFile
  <2>1. at[r] = Artifact + 1
    BY DEF TypeInv, Progress
  <2>2. s < at[r]
    BY <2>1, TriggerAssumption DEF Slots, Artifact
  <2>3. QED
    BY <2>2 DEF BehindReplaced
<1>2. QED
  BY <1>1, TypeInvariant, BehindInvariant, PTL

(* A document in the bundle is of a run that has written eslint_sonarjs.json*)
(* itself: copies are only made of files that are already there.            *)
LEMMA PublishedInvariant == Spec => []PublishedInv
<1>1. Init => PublishedInv
  BY DEF Init, PublishedInv, Runs, Absent, Committed
<1>2. TypeInv /\ PublishedInv /\ [Next]_vars => PublishedInv'
  <2> SUFFICES ASSUME TypeInv, PublishedInv, [Next]_vars PROVE PublishedInv'
    OBVIOUS
  <2> USE DEF TypeInv
  <2>0. /\ \A q \in Runs : at[q] \in Nat
        /\ Torn \notin Runs
        /\ \A s \in Slots \ {EslintReport} : s \in Nat /\ s > 0
    BY TriggerAssumption DEF TypeOK, Runs, Artifact, Torn, Slots, EslintReport
  <2>1. ASSUME NEW r \in Runs, ToolStep(r) \/ OwnStep(r) \/ Kill(r) PROVE PublishedInv'
    <3>1. CASE BeginWrite(r)
      BY <2>0, <3>1 DEF BeginWrite, Put, PublishedInv, TypeOK
    <3>2. CASE EndWrite(r)
      <4>1. /\ at[r] \in Slots
            /\ \A q \in Runs : at'[q] = IF q = r THEN at[q] + 1 ELSE at[q]
        BY <3>2 DEF EndWrite, Progress, TypeOK
      <4>2. PICK x \in {Written(r), Torn} : disk' = [disk EXCEPT ![at[r]] = x]
        BY <3>2 DEF EndWrite, Put
      <4>3. \A s \in Slots : disk'[s] = IF s = at[r] THEN x ELSE disk[s]
        BY <4>1, <4>2 DEF TypeOK
      <4>4. \A s \in Slots \ {EslintReport} : disk[s] \in Runs => at'[disk[s]] > Unified
        BY <2>0, <4>1 DEF PublishedInv, Unified
      <4>5. at[r] # EslintReport /\ x \in Runs => at'[x] > Unified
        <5>1. SUFFICES ASSUME at[r] # EslintReport, x \in Runs PROVE at'[x] > Unified
          OBVIOUS
        <5>2. CASE at[r] \in Platform
          <6>1. at[r] - NFiles \in Slots \ {EslintReport}
            BY <5>2, TriggerAssumption DEF Platform, Slots, Artifact, EslintReport
          <6>2. x = disk[at[r] - NFiles]
            BY <2>0, <4>2, <5>1, <5>2 DEF Written
          <6>3. QED
            BY <4>4, <5>1, <6>1, <6>2
        <5>3. CASE at[r] \notin Platform
          <6>1. x = r
            BY <2>0, <4>2, <5>1, <5>3 DEF Written
          <6>2. QED
            BY <2>0, <4>1, <5>1, <6>1 DEF Unified
        <5>4. QED
          BY <5>2, <5>3
      <4>6. QED
        BY <4>3, <4>4, <4>5 DEF PublishedInv
    <3>3. CASE ~BeginWrite(r) /\ ~EndWrite(r)
      BY <2>0, <2>1, <3>3, OtherStep DEF PublishedInv
    <3>4. QED
      BY <3>1, <3>2, <3>3
  <2>2. CASE ~\E r \in Runs : ToolStep(r) \/ OwnStep(r) \/ Kill(r)
    BY <2>2, NotARunsStep DEF Next, PublishedInv
  <2>3. QED
    BY <2>1, <2>2
<1>3. QED
  BY <1>1, <1>2, TypeInvariant, PTL DEF Spec

(* A run writes eslint_sonarjs.json and what follows only when it has read  *)
(* its coverage.                                                            *)
LEMMA GateInvariant == Spec => []GateInv
<1>1. Init => GateInv
  BY DEF Init, GateInv, PastGate, Unified
<1>2. TypeInv /\ GateInv /\ [Next]_vars => GateInv'
  <2> SUFFICES ASSUME TypeInv, GateInv, [Next]_vars PROVE GateInv'
    OBVIOUS
  <2>0. \A q \in Runs : at[q] \in Nat
    BY TriggerAssumption DEF TypeInv, TypeOK, Artifact
  <2>1. ASSUME NEW r \in Runs, ToolStep(r) \/ OwnStep(r) \/ Kill(r) PROVE GateInv'
    <3>1. SUFFICES ASSUME PastGate(r)' PROVE coverage'[r] # Pending
      BY <2>1, OwnData DEF GateInv, PastGate
    <3>2. CASE PastGate(r)
      <4>1. pc[r] \notin {"lint", "summary", "load"}
        BY <2>0, <3>2 DEF PastGate, TypeInv, Progress, EslintReport, Unified
      <4>2. QED
        BY <2>1, <3>2, <4>1, OwnData DEF GateInv
    <3>3. CASE ~PastGate(r)
      <4>1. CASE SummaryMissing(r) \/ LoadSummary(r)
        <5>1. PICK c \in Summaries \cup {None} : Gate(r, c)
          BY <4>1 DEF SummaryMissing, LoadSummary, TypeInv, TypeOK
        <5>2. QED
          BY <5>1, PendingAssumption DEF Gate, TypeInv, TypeOK
      <4>2. CASE EndWrite(r)
        <5>1. pc[r] = "writing" /\ pc'[r] = AfterWrite(r) /\ at'[r] = at[r] + 1
          BY <4>2 DEF EndWrite, Goto, TypeInv, TypeOK
        <5>2. at[r] = EslintReport
          BY <2>0, <3>3, <5>1 DEF PastGate, Unified, EslintReport
        <5>3. QED
          BY <3>1, <5>1, <5>2 DEF PastGate, AfterWrite, Unified, EslintReport
      <4>3. CASE ToolStep(r)
        BY <2>1, <3>1, <3>3, <4>3, OwnData
           DEF ToolStep, LintReports, LintNotSpawned, LintIsCut, LintFails, TestsPass,
               TestsFail, EndWrite, Goto, PastGate, TypeInv, TypeOK, Progress, EslintReport,
               Unified
      <4>4. CASE BeginWrite(r) \/ TestsStart(r) \/ SummaryFound(r) \/ LoadFails(r)
                 \/ Verify(r) \/ Final(r) \/ Kill(r)
        <5>1. BeginWrite(r) \/ pc'[r] \notin {"write", "writing"}
          BY <4>4 DEF TestsStart, SummaryFound, LoadFails, Verify, Final, Kill, Goto,
                      TypeInv, TypeOK
        <5>2. ~EndWrite(r)
          <6>1. AfterWrite(r) # "killed"
            BY DEF AfterWrite
          <6>2. CASE Kill(r)
            BY <6>1, <6>2 DEF Kill, EndWrite, Goto, TypeInv, TypeOK
          <6>3. CASE ~Kill(r)
            BY <4>4, <6>3 DEF EndWrite, BeginWrite, TestsStart, SummaryFound, LoadFails,
                              Verify, Final
          <6>4. QED
            BY <6>2, <6>3
        <5>3. at'[r] = at[r]
          BY <2>1, <5>2, OwnData
        <5>4. BeginWrite(r) => pc[r] = "write"
          BY DEF BeginWrite
        <5>5. QED
          BY <3>1, <3>3, <5>1, <5>3, <5>4 DEF PastGate
      <4>5. QED
        BY <2>1, <4>1, <4>2, <4>3, <4>4 DEF OwnStep
    <3>4. QED
      BY <3>2, <3>3
  <2>2. CASE ~\E r \in Runs : ToolStep(r) \/ OwnStep(r) \/ Kill(r)
    <3>1. /\ UNCHANGED <<at, coverage>>
          /\ \A q \in Runs : pc'[q] = pc[q] \/ pc'[q] = "lint"
      BY <2>2, NotARunsStep DEF Next
    <3>2. QED
      BY <3>1 DEF GateInv, PastGate
  <2>3. QED
    BY <2>1, <2>2
<1>3. QED
  BY <1>1, <1>2, TypeInvariant, PTL DEF Spec

(* Only Edit changes the subject, and only Start and Edit what runs have    *)
(* seen of it.                                                              *)
LEMMA SubjectKept ==
    ASSUME \/ \E r \in Runs : ToolStep(r) \/ OwnStep(r) \/ Kill(r)
           \/ \E c \in Coverages : CovStep(c)
           \/ VerifyCli \/ UNCHANGED vars
    PROVE  UNCHANGED <<subject, seen>>
<1> USE DEF history
<1>1. ASSUME NEW r \in Runs, ToolStep(r) PROVE UNCHANGED <<subject, seen>>
  BY <1>1 DEF ToolStep, LintReports, LintNotSpawned, LintIsCut, LintFails, TestsPass,
              TestsFail
<1>2. ASSUME NEW r \in Runs, OwnStep(r) PROVE UNCHANGED <<subject, seen>>
  BY <1>2 DEF OwnStep, BeginWrite, EndWrite, TestsStart, SummaryMissing, SummaryFound,
              LoadSummary, LoadFails, Verify, Final
<1>3. ASSUME NEW r \in Runs, Kill(r) PROVE UNCHANGED <<subject, seen>>
  BY <1>3 DEF Kill
<1>4. ASSUME NEW c \in Coverages, CovStep(c) PROVE UNCHANGED <<subject, seen>>
  BY <1>4 DEF CovStep, CovStart, CovPass, CovFail, BeginReport, EndReport
<1>5. CASE VerifyCli \/ UNCHANGED vars
  BY <1>5 DEF VerifyCli, vars
<1>6. QED
  BY <1>1, <1>2, <1>3, <1>4, <1>5

(* Whoever writes the summary writes what it is of the subject at that time,*)
(* and from its own TestsStart on a run has seen that subject.              *)
LEMMA SeenInvariant == Spec => []SeenInv
<1>1. Init => SeenInv
  BY DEF Init, SeenInv, Active, Working
<1>2. TypeInv /\ SeenInv /\ [Next]_vars => SeenInv'
  <2> SUFFICES ASSUME TypeInv, SeenInv, [Next]_vars PROVE SeenInv'
    OBVIOUS
  <2> USE DEF TypeInv
  <2>1. ASSUME NEW r \in Runs, Start(r) PROVE SeenInv'
    BY <2>1 DEF Start, Goto, files, SeenInv, Active, TypeOK
  <2>2. ASSUME UNCHANGED <<subject, seen>>, summary' \in {summary, None, Measured(subject)},
               \A q \in Runs : Active(q)' => Active(q),
               \A q \in Runs : pc'[q] = "off" => pc[q] = "off",
               \A q \in Runs :
                   pc'[q] \in {"testing", "summary", "load"} =>
                       pc[q] \in {"testing", "summary", "load"} \/ summary' = None
        PROVE  SeenInv'
    <3>1. SUFFICES ASSUME NEW q \in Runs, pc'[q] \in {"testing", "summary", "load"}
                   PROVE  summary' \in {None} \cup {Measured(s) : s \in seen[q]}
      BY <2>2 DEF SeenInv, Active
    <3>2. subject \in seen[q]
      BY <2>2, <3>1 DEF SeenInv, Active, Working
    <3>3. QED
      BY <2>2, <3>1, <3>2 DEF SeenInv
  <2>3. ASSUME NEW r \in Runs, ToolStep(r) \/ OwnStep(r) \/ Kill(r) PROVE SeenInv'
    <3>1. UNCHANGED <<subject, seen>>
      BY <2>3, SubjectKept
    <3>2. /\ Active(r) /\ pc'[r] # "off"
          /\ \A q \in Runs \ {r} : pc'[q] = pc[q]
      BY <2>3, RunStep, OwnData DEF Working, Ended, TypeOK
    <3>3. CASE TestsStart(r)
      BY <2>2, <3>1, <3>2, <3>3 DEF TestsStart, CleanCoverage, Active
    <3>4. CASE TestsPass(r)
      BY <2>2, <3>1, <3>2, <3>4 DEF TestsPass, Active
    <3>5. CASE ~TestsStart(r) /\ ~TestsPass(r)
      <4>1. UNCHANGED summary
        BY <2>3, <3>5 DEF ToolStep, LintReports, LintNotSpawned, LintIsCut, LintFails,
           TestsFail, OwnStep, BeginWrite, EndWrite, SummaryMissing, SummaryFound,
           LoadSummary, LoadFails, Verify, Final, Kill, files
      <4>2. pc'[r] \in {"testing", "summary", "load"} => pc[r] \in {"summary"}
        <5>1. CASE ToolStep(r)
          BY <3>5, <5>1 DEF ToolStep, LintReports, LintNotSpawned, LintIsCut, LintFails,
                            TestsFail, Goto, TypeOK
        <5>2. CASE OwnStep(r)
          BY <3>5, <5>2 DEF OwnStep, BeginWrite, EndWrite, AfterWrite, SummaryMissing,
               SummaryFound, LoadSummary, LoadFails, Gate, Verify, Final, Goto, TypeOK
        <5>3. CASE Kill(r)
          BY <5>3 DEF Kill, Goto, TypeOK
        <5>4. QED
          BY <2>3, <5>1, <5>2, <5>3
      <4>3. QED
        BY <2>2, <3>1, <3>2, <4>1, <4>2 DEF Active
    <3>6. QED
      BY <3>3, <3>4, <3>5
  <2>4. ASSUME NEW c \in Coverages, CovStep(c) PROVE SeenInv'
    <3>1. UNCHANGED pc /\ summary' \in {summary, None, Measured(subject)}
      BY <2>4 DEF CovStep, CovStart, CleanCoverage, CovPass, CovFail, BeginReport, EndReport
    <3>2. QED
      BY <2>2, <2>4, <3>1, SubjectKept DEF Active
  <2>5. CASE Edit
    <3>1. /\ UNCHANGED <<pc, summary>>
          /\ \A q \in Runs : seen'[q] = IF Active(q) THEN seen[q] \cup {subject'} ELSE seen[q]
      BY <2>5 DEF Edit, files
    <3>2. QED
      BY <3>1 DEF SeenInv, Active
  <2>6. CASE VerifyCli \/ UNCHANGED vars
    <3>1. UNCHANGED <<pc, summary>>
      BY <2>6 DEF VerifyCli, vars, files
    <3>2. QED
      BY <2>2, <2>6, <3>1, SubjectKept DEF Active
  <2>7. QED
    BY <2>1, <2>3, <2>4, <2>5, <2>6 DEF Next
<1>3. QED
  BY <1>1, <1>2, TypeInvariant, PTL DEF Spec

(* The numbers of a run are of a subject there was during that run, however *)
(* commands and edits cross.                                                *)
THEOREM NumbersOfTheRun == Spec => []MeasuredDuringRun
<1>1. Init => MeasuredDuringRun
  BY DEF Init, MeasuredDuringRun
<1>2. TypeInv /\ SeenInv /\ MeasuredDuringRun /\ [Next]_vars
          => MeasuredDuringRun'
  <2> SUFFICES ASSUME TypeInv, SeenInv, MeasuredDuringRun, [Next]_vars
               PROVE  MeasuredDuringRun'
    OBVIOUS
  <2> USE DEF TypeInv
  <2>1. ASSUME NEW q \in Runs, lint'[q] = lint[q], coverage'[q] = coverage[q],
               seen[q] \subseteq seen'[q]
        PROVE  /\ lint'[q] \in {0, CutReport} \cup {s.errors : s \in seen'[q]}
               /\ coverage'[q] \in {Pending, None} \cup {Measured(s) : s \in seen'[q]}
    BY <2>1 DEF MeasuredDuringRun
  <2>2. ASSUME NEW r \in Runs, Start(r) PROVE MeasuredDuringRun'
    <3>1. seen[r] \subseteq seen'[r]
      BY <2>2 DEF Start, SeenInv
    <3>2. QED
      BY <2>1, <2>2, <3>1 DEF Start, MeasuredDuringRun, TypeOK
  <2>3. ASSUME NEW r \in Runs, ToolStep(r) \/ OwnStep(r) \/ Kill(r)
        PROVE  MeasuredDuringRun'
    <3>1. UNCHANGED seen
      BY <2>3, SubjectKept
    <3>2. SUFFICES /\ lint'[r] \in {0, CutReport} \cup {s.errors : s \in seen[r]}
                   /\ coverage'[r] \in {Pending, None} \cup {Measured(s) : s \in seen[r]}
      BY <2>1, <2>3, <3>1, OwnData DEF MeasuredDuringRun
    <3>3. CASE LintReports(r) \/ LintNotSpawned(r) \/ LintIsCut(r)
      BY <3>3 DEF LintReports, LintNotSpawned, LintIsCut, SeenInv, Active, Working,
                  MeasuredDuringRun, TypeOK
    <3>4. CASE SummaryMissing(r) \/ LoadSummary(r)
      BY <3>4 DEF SummaryMissing, LoadSummary, Gate, SeenInv, MeasuredDuringRun, TypeOK
    <3>5. CASE ~(LintReports(r) \/ LintNotSpawned(r) \/ LintIsCut(r))
               /\ ~(SummaryMissing(r) \/ LoadSummary(r))
      <4>1. UNCHANGED <<lint, coverage>>
        BY <2>3, <3>5 DEF ToolStep, LintFails, TestsPass, TestsFail, OwnStep, BeginWrite,
           EndWrite, TestsStart, SummaryFound, LoadFails, Verify, Final, Kill, run
      <4>2. QED
        BY <4>1 DEF MeasuredDuringRun
    <3>6. QED
      BY <3>3, <3>4, <3>5
  <2>4. CASE (\E c \in Coverages : CovStep(c)) \/ VerifyCli \/ UNCHANGED vars
    BY <2>1, <2>4, NotARunsStep, SubjectKept DEF MeasuredDuringRun
  <2>5. CASE Edit
    BY <2>1, <2>5, NotARunsStep DEF Edit, MeasuredDuringRun
  <2>6. QED
    BY <2>2, <2>3, <2>4, <2>5 DEF Next
<1>3. QED
  BY <1>1, <1>2, TypeInvariant, SeenInvariant, PTL DEF Spec

LEMMA ARunIsNotTheCommit == Committed \notin Runs /\ Torn \notin Documents
BY TriggerAssumption DEF Committed, Torn, Runs, Documents

(* A verify accepts only what is in the bundle, and the run it is of has    *)
(* nothing left to count or to read.                                        *)
LEMMA VouchedInvariant == Spec => []VouchedInv
<1>1. Init => VouchedInv
  BY DEF Init, VouchedInv
<1>2. TypeInv /\ PublishedInv /\ VouchedInv /\ [Next]_vars => VouchedInv'
  <2> SUFFICES ASSUME TypeInv, PublishedInv, VouchedInv, [Next]_vars PROVE VouchedInv'
    OBVIOUS
  <2>0. /\ \A q \in Runs : at[q] \in Nat
        /\ vouched \subseteq Documents
        /\ UnifiedCopies \subseteq Slots \ {EslintReport}
    BY TriggerAssumption DEF TypeInv, TypeOK, Artifact, UnifiedCopies, Slots, Unified,
                             EslintReport
  <2>1. ASSUME NEW q \in Runs, at[q] > Unified, VerifyOk(DocumentOf(q))
        PROVE  at'[q] > Unified /\ VerifyOk(DocumentOf(q))'
    <3>1. SUFFICES at'[q] > Unified /\ lint'[q] = lint[q] /\ coverage'[q] = coverage[q]
      BY <2>1, ARunIsNotTheCommit
         DEF DocumentOf, Document, ApplyPlatformFixup, ComputeMetrics, VerifyOk
    <3>2. ASSUME NEW r \in Runs, ToolStep(r) \/ OwnStep(r) \/ Kill(r)
          PROVE  at'[q] > Unified /\ lint'[q] = lint[q] /\ coverage'[q] = coverage[q]
      <4>1. CASE q # r
        BY <2>1, <3>2, <4>1, OwnData
      <4>2. CASE q = r
        <5>1. pc[r] \notin {"lint", "summary", "load"}
          BY <2>1, <4>2 DEF TypeInv, Progress, EslintReport, Unified
        <5>2. QED
          BY <2>0, <2>1, <3>2, <4>2, <5>1, OwnData DEF Unified
      <4>3. QED
        BY <4>1, <4>2
    <3>3. CASE ~\E r \in Runs : ToolStep(r) \/ OwnStep(r) \/ Kill(r)
      BY <2>1, <3>3, NotARunsStep DEF Next
    <3>4. QED
      BY <3>2, <3>3
  <2>2. \/ UNCHANGED vouched
        \/ \E s \in UnifiedCopies : Accepts(s) /\ vouched' = vouched \cup {disk[s]}
    <3>1. ASSUME NEW r \in Runs, ToolStep(r) \/ OwnStep(r) \/ Kill(r), ~Verify(r)
          PROVE  UNCHANGED vouched
      BY <3>1 DEF ToolStep, LintReports, LintNotSpawned, LintIsCut, LintFails, TestsPass,
                  TestsFail, OwnStep, BeginWrite, EndWrite, TestsStart, SummaryMissing,
                  SummaryFound, LoadSummary, LoadFails, Final, Kill, history
    <3>2. ASSUME NEW r \in Runs, Verify(r)
          PROVE  \/ UNCHANGED vouched
                 \/ \E s \in UnifiedCopies : Accepts(s) /\ vouched' = vouched \cup {disk[s]}
      BY <3>2 DEF Verify, UnifiedCopies
    <3>3. ASSUME NEW r \in Runs, Start(r) PROVE UNCHANGED vouched
      BY <3>3 DEF Start
    <3>4. ASSUME NEW c \in Coverages, CovStep(c) PROVE UNCHANGED vouched
      BY <3>4 DEF CovStep, CovStart, CovPass, CovFail, BeginReport, EndReport, history
    <3>5. CASE VerifyCli \/ Edit \/ UNCHANGED vars
      BY <3>5 DEF VerifyCli, Edit, vars, history
    <3>6. QED
      BY <3>1, <3>2, <3>3, <3>4, <3>5 DEF Next
  <2>3. \A q \in vouched' \cap Runs : at[q] > Unified /\ VerifyOk(DocumentOf(q))
    BY <2>0, <2>2 DEF VouchedInv, PublishedInv, Accepts
  <2>4. QED
    BY <2>1, <2>3 DEF VouchedInv
<1>3. QED
  BY <1>1, <1>2, TypeInvariant, PublishedInvariant, PTL DEF Spec

(* Nothing missing is rounded to 100.                                       *)
LEMMA FullIsHundred ==
    ASSUME NEW t \in Nat
    PROVE  RoundedPct([total |-> t, covered |-> t]) = 100
<1>1. CASE t = 0
  BY <1>1 DEF RoundedPct
<1>2. CASE t > 0
  <2>1. (200 * t + t) \div (2 * t) = 100
    <3>1. 200 * t + t = (2 * t) * 100 + t
      OBVIOUS
    <3>2. t < 2 * t /\ 2 * t > 0 /\ 2 * t \in Nat
      BY <1>2
    <3>3. \A d \in Nat, q \in Nat, n \in Nat : n < d => (d * q + n) \div d = q
      OBVIOUS
    <3>4. QED
      BY <3>1, <3>2, <3>3
  <2>2. QED
    BY <1>2, <2>1 DEF RoundedPct
<1>3. QED
  BY <1>1, <1>2

(* What verifyEslintSonarjsJson accepts is of a subject that has branches   *)
(* and has all of them covered.                                             *)
LEMMA AcceptedIsCovered ==
    ASSUME NEW s \in Subjects, NEW errors \in Int, VerifyOk(Document(errors, Measured(s)))
    PROVE  /\ Branches(Measured(s)).total > 0
           /\ FullyCovered(Branches(Measured(s)))
<1>1. /\ s.path.total \in Nat /\ s.path.covered \in Nat /\ s.path.covered <= s.path.total
      /\ s.rest.total \in Nat /\ s.rest.covered \in Nat /\ s.rest.covered <= s.rest.total
  BY TriggerAssumption DEF Counts
<1> DEFINE m == ComputeMetrics(errors, Measured(s))
<1>2. Measured(s) # None
  BY NoneAssumption DEF Summaries
<1>3. /\ m.covered_paths = s.path.covered + s.rest.covered
      /\ m.total_paths = AtLeastOne(s.path.total + s.rest.total)
  BY <1>2 DEF ComputeMetrics, Branches, Measured
<1>4. Status(m) = "READY"
  BY DEF VerifyOk, Document, ApplyPlatformFixup
<1>5. m.covered_paths >= m.total_paths
  BY <1>4 DEF Status, MeasuredFull
<1>6. QED
  BY <1>1, <1>3, <1>5 DEF AtLeastOne, FullyCovered, Branches, Measured

(* On a document that a verify accepts the taxonomy report of the same      *)
(* summary shows 100 everywhere, whatever has happened to the files since.  *)
THEOREM BothReportsFull == Spec => []VerifiedIsFullInTaxonomy
<1>1. TypeInv /\ VouchedInv /\ GateInv => VerifiedIsFullInTaxonomy
  <2> SUFFICES ASSUME TypeInv, VouchedInv, GateInv, NEW r \in vouched \cap Runs, coverage[r] # None
               PROVE  LET report == BuildCoverageTaxonomyReport(coverage[r])
                      IN  report.path_coverage = 100 /\ report.path_detection = 100
                          /\ report.percent = 100
    BY DEF VerifiedIsFullInTaxonomy
  <2>1. r \in Runs /\ at[r] > Unified /\ VerifyOk(Document(lint[r], coverage[r]))
    BY ARunIsNotTheCommit DEF VouchedInv, DocumentOf
  <2>2. coverage[r] \in Summaries
    BY <2>1 DEF GateInv, PastGate, TypeInv, TypeOK
  <2>3. PICK s \in Subjects : coverage[r] = Measured(s)
    BY <2>2 DEF Summaries
  <2>4. lint[r] \in Int
    BY <2>1 DEF TypeInv, TypeOK, CutReport
  <2>5. FullyCovered(Branches(Measured(s)))
    BY <2>1, <2>3, <2>4, AcceptedIsCovered
  <2>6. /\ s.path \in [total : Nat, covered : Nat] /\ s.rest \in [total : Nat, covered : Nat]
        /\ s.path.covered <= s.path.total /\ s.rest.covered <= s.rest.total
    BY TriggerAssumption DEF Counts
  <2>7. s.path.covered = s.path.total /\ s.rest.covered = s.rest.total
    BY <2>5, <2>6 DEF FullyCovered, Branches, Measured
  <2>8. /\ s.path = [total |-> s.path.total, covered |-> s.path.total]
        /\ Branches(Measured(s)) = [total   |-> s.path.total + s.rest.total,
                                    covered |-> s.path.total + s.rest.total]
    BY <2>6, <2>7 DEF Branches, Measured
  <2>9. RoundedPct(s.path) = 100 /\ RoundedPct(Branches(Measured(s))) = 100
    <3>1. s.path.total \in Nat /\ s.path.total + s.rest.total \in Nat
      BY <2>6
    <3>2. QED
      BY <2>8, <3>1, FullIsHundred
  <2>10. QED
    BY <2>3, <2>9 DEF BuildCoverageTaxonomyReport, Measured
<1>2. QED
  BY <1>1, TypeInvariant, VouchedInvariant, GateInvariant, PTL

-----------------------------------------------------------------------------
(* When commands do not overlap there is at most one of them at a time, and *)
(* the runs are started in the order of their numbers.                      *)
LEMMA OneAtATimeInvariant ==
    ASSUME ~Overlap PROVE Spec => []OneAtATime
<1>1. Init => OneAtATime
  BY DEF Init, OneAtATime, Active, Working, CovWorking
<1>2. TypeOK /\ OneAtATime /\ [Next]_vars => OneAtATime'
  <2> SUFFICES ASSUME TypeOK, OneAtATime, [Next]_vars PROVE OneAtATime'
    OBVIOUS
  <2> USE DEF Runs
  <2>0. MaxRuns \in Nat
    BY TriggerAssumption
  <2>1. ASSUME NEW r \in Runs, Start(r) PROVE OneAtATime'
    BY <2>0, <2>1 DEF Start, Idle, Goto, TypeOK, OneAtATime, Active, Working, cov
  <2>2. ASSUME NEW r \in Runs, ToolStep(r) \/ OwnStep(r) \/ Kill(r) PROVE OneAtATime'
    <3>1. PICK l \in Working \cup Ended : pc' = [pc EXCEPT ![r] = l]
      BY <2>2, RunStep
    <3>2. Active(r) /\ UNCHANGED covPc /\ l # "off"
      BY <2>2, RunStep DEF Working, Ended
    <3>3. pc[r] # "off"
      BY <3>2 DEF Active, Working
    <3>4. QED
      BY <2>0, <3>1, <3>2, <3>3 DEF OneAtATime, Active, TypeOK
  <2>3. ASSUME NEW c \in Coverages, CovStep(c) PROVE OneAtATime'
    BY <2>3 DEF CovStep, CovStart, CleanCoverage, CovPass, CovFail, BeginReport, EndReport,
                Idle, OneAtATime, Active, CovWorking, TypeOK
  <2>4. CASE VerifyCli \/ Edit \/ UNCHANGED vars
    BY <2>4 DEF VerifyCli, Edit, vars, OneAtATime, Active, cov
  <2>5. QED
    BY <2>1, <2>2, <2>3, <2>4 DEF Next
<1>3. QED
  BY <1>1, <1>2, TypeCorrect, PTL DEF Spec

-----------------------------------------------------------------------------
(* What a write does when nobody else is writing: the slot is torn while it *)
(* is open, and then the run's own, or torn again by a report cut short,    *)
(* which also ends the run.                                                 *)
LEMMA LoneWrite ==
    ASSUME NEW r \in Runs, TypeInv, OneAtATime, SlotsBehind
    PROVE  /\ at[r] \in Nat
           /\ BeginWrite(r) =>
                  /\ at[r] \in Slots /\ disk' = [disk EXCEPT ![at[r]] = Torn]
                  /\ alone'[r] /\ \A q \in Runs \ {r} : ~Active(q)
           /\ EndWrite(r) =>
                  /\ at[r] \in Slots /\ at' = [at EXCEPT ![r] = at[r] + 1]
                  /\ \/ disk' = [disk EXCEPT ![at[r]] = r] /\ pc'[r] # "exit0"
                     \/ disk' = [disk EXCEPT ![at[r]] = Torn] /\ pc'[r] = "exit1"
                  /\ pc'[r] # "writing"
                  /\ \A q \in Runs \ {r} : ~Active(q)
<1> USE DEF TypeInv
<1>1. at[r] \in Nat
  BY TriggerAssumption DEF TypeOK, Artifact
<1>2. ASSUME Active(r) PROVE \A q \in Runs \ {r} : ~Active(q)
  BY <1>2 DEF OneAtATime, Active, Working, Runs
<1>3. ASSUME BeginWrite(r)
      PROVE  /\ at[r] \in Slots /\ disk' = [disk EXCEPT ![at[r]] = Torn]
             /\ alone'[r] /\ \A q \in Runs \ {r} : ~Active(q)
  <2>1. Active(r)
    BY <1>3 DEF BeginWrite, Active, Working
  <2>2. \A q \in Runs \ {r} : pc[q] # "writing"
    BY <1>2, <2>1 DEF Active, Working
  <2>3. {q \in Runs \ {r} : pc[q] = "writing"} = {}
    BY <2>2
  <2>4. QED
    BY <1>2, <1>3, <2>1, <2>3 DEF BeginWrite, Put, Progress
<1>4. ASSUME EndWrite(r)
      PROVE  /\ at[r] \in Slots /\ at' = [at EXCEPT ![r] = at[r] + 1]
             /\ \/ disk' = [disk EXCEPT ![at[r]] = r] /\ pc'[r] # "exit0"
                \/ disk' = [disk EXCEPT ![at[r]] = Torn] /\ pc'[r] = "exit1"
             /\ pc'[r] # "writing"
             /\ \A q \in Runs \ {r} : ~Active(q)
  <2>1. Active(r) /\ pc[r] = "writing"
    BY <1>4 DEF EndWrite, Active, Working
  <2>2. at[r] \in Slots
    BY <2>1 DEF Progress
  <2>3. alone[r]
    BY <2>1, <2>2 DEF SlotsBehind
  <2>4. disk' = [disk EXCEPT ![at[r]] = Written(r)]
    BY <1>4, <2>3 DEF EndWrite, Put
  <2>5. pc'[r] = AfterWrite(r)
    BY <1>4 DEF EndWrite, Goto, TypeOK
  <2>6. CASE at[r] = EslintReport /\ lint[r] = CutReport
    BY <1>2, <1>4, <2>1, <2>2, <2>4, <2>5, <2>6 DEF Written, AfterWrite, EndWrite
  <2>7. CASE ~(at[r] = EslintReport /\ lint[r] = CutReport)
    <3>1. at[r] \in Platform => disk[at[r] - NFiles] = r
      <4>1. at[r] \in Platform =>
                at[r] - NFiles \in Slots /\ at[r] - NFiles < at[r]
        BY TriggerAssumption DEF Platform, Slots, Artifact
      <4>2. QED
        BY <2>1, <4>1 DEF SlotsBehind
    <3>2. Written(r) = r
      BY <2>7, <3>1 DEF Written
    <3>3. AfterWrite(r) \notin {"exit0", "writing"}
      BY DEF AfterWrite
    <3>4. QED
      BY <1>2, <1>4, <2>1, <2>2, <2>4, <2>5, <3>2, <3>3 DEF EndWrite
  <2>8. QED
    BY <2>6, <2>7
<1>5. QED
  BY <1>1, <1>3, <1>4

(* The files behind a run's place are its own and those ahead are older, so *)
(* a complete file is never older than one behind it.                       *)
THEOREM Ordered ==
    ASSUME ~Overlap PROVE Spec => [](SlotsBehind /\ NewestFirst)
<1>1. Init => SlotsBehind /\ NewestFirst
  <2>1. \A s \in Slots : Init => disk[s] \in {Absent, Committed}
    BY DEF Init
  <2>2. QED
    BY <2>1, TriggerAssumption
       DEF Init, SlotsBehind, NewestFirst, Runs, Absent, Committed, Active, Working
<1>2. TypeInv /\ OneAtATime /\ SlotsBehind /\ NewestFirst /\ [Next]_vars
          => SlotsBehind' /\ NewestFirst'
  <2> SUFFICES ASSUME TypeInv, OneAtATime, SlotsBehind, NewestFirst, [Next]_vars
               PROVE  SlotsBehind' /\ NewestFirst'
    OBVIOUS
  <2> USE DEF TypeInv
  <2>0. /\ \A s \in Slots : disk[s] \in Int /\ s \in Nat
        /\ \A q \in Runs : q \in Int /\ q > 0 /\ at[q] \in Nat
        /\ Torn \notin Runs
    <3>1. Artifact \in Nat
      BY TriggerAssumption DEF Artifact
    <3>2. \A q \in Runs : q \in Int /\ q > 0 /\ at[q] \in Nat
      BY <3>1 DEF TypeOK, Runs
    <3>3. \A s \in Slots : disk[s] \in Int
      BY <3>2 DEF TypeOK, Documents, Committed, Absent, Torn
    <3>4. QED
      BY <3>1, <3>2, <3>3, ARunIsNotTheCommit DEF Slots, Documents
  <2>1. ASSUME NEW r \in Runs, Start(r) PROVE SlotsBehind' /\ NewestFirst'
    <3>1. /\ pc' = [pc EXCEPT ![r] = "lint"] /\ UNCHANGED <<disk, at, alone>>
          /\ pc[r] = "off" /\ at[r] = 0
      BY <2>1 DEF Start, Goto, files, Progress, EslintReport
    <3>2. SlotsBehind'
      BY <2>0, <3>1 DEF SlotsBehind, Active, TypeOK, Working
    <3>3. QED
      BY <3>1, <3>2 DEF NewestFirst
  <2>2. ASSUME NEW r \in Runs, ToolStep(r) \/ OwnStep(r) \/ Kill(r)
        PROVE SlotsBehind' /\ NewestFirst'
    <3>1. PICK l \in Working \cup Ended : pc' = [pc EXCEPT ![r] = l]
      BY <2>2, RunStep
    <3>2. Active(r) /\ l # "off" /\ pc[r] # "off" /\ pc'[r] = l
      BY <2>2, <3>1, RunStep DEF Working, Ended, Active, TypeOK
    <3>3. \A q \in Runs : pc'[q] = "off" => r < q /\ pc[q] = "off"
      BY <2>0, <3>1, <3>2 DEF OneAtATime, TypeOK
    <3>4. CASE BeginWrite(r)
      <4>1. /\ at[r] \in Slots /\ disk' = [disk EXCEPT ![at[r]] = Torn]
            /\ alone'[r] /\ \A q \in Runs \ {r} : ~Active(q)
        BY <3>4, LoneWrite
      <4>2. UNCHANGED at /\ \A q \in Runs \ {r} : ~Active(q)' /\ pc'[q] # "writing"
        BY <3>1, <3>4, <4>1 DEF BeginWrite, Active, TypeOK, Working
      <4>3. \A s \in Slots : disk'[s] = IF s = at[r] THEN Torn ELSE disk[s]
        BY <4>1 DEF TypeOK
      <4>4. SlotsBehind'
        BY <2>0, <3>2, <3>3, <4>1, <4>2, <4>3 DEF SlotsBehind, Torn
      <4>5. NewestFirst'
        BY <2>0, <4>3 DEF NewestFirst
      <4>6. QED
        BY <4>4, <4>5
    <3>5. CASE EndWrite(r)
      <4>1. /\ at[r] \in Slots /\ at' = [at EXCEPT ![r] = at[r] + 1]
            /\ \A q \in Runs \ {r} : ~Active(q)
            /\ pc'[r] # "writing"
        BY <3>5, LoneWrite
      <4>2. \A q \in Runs \ {r} : ~Active(q)' /\ pc'[q] # "writing"
        BY <3>1, <4>1 DEF Active, TypeOK, Working
      <4>3. CASE disk' = [disk EXCEPT ![at[r]] = r]
        <5>1. \A s \in Slots : disk'[s] = IF s = at[r] THEN r ELSE disk[s]
          BY <4>3 DEF TypeOK
        <5>2. at'[r] = at[r] + 1
          BY <4>1 DEF TypeOK
        <5>3. SlotsBehind'
          BY <2>0, <3>2, <3>3, <4>1, <4>2, <5>1, <5>2 DEF SlotsBehind
        <5>4. NewestFirst'
          BY <2>0, <3>2, <5>1 DEF SlotsBehind, NewestFirst
        <5>5. QED
          BY <5>3, <5>4
      <4>4. CASE disk' = [disk EXCEPT ![at[r]] = Torn] /\ pc'[r] = "exit1"
        <5>1. \A s \in Slots : disk'[s] = IF s = at[r] THEN Torn ELSE disk[s]
          BY <4>4 DEF TypeOK
        <5>2. ~Active(r)' /\ pc'[r] # "off"
          BY <4>4 DEF Active, Working
        <5>3. SlotsBehind'
          BY <2>0, <3>3, <4>2, <5>1, <5>2, <4>4 DEF SlotsBehind, Torn
        <5>4. NewestFirst'
          BY <2>0, <5>1 DEF NewestFirst
        <5>5. QED
          BY <5>3, <5>4
      <4>5. QED
        BY <3>5, <4>3, <4>4, LoneWrite
    <3>6. CASE ~BeginWrite(r) /\ ~EndWrite(r)
      <4>1. UNCHANGED <<disk, at, alone>> /\ pc'[r] # "writing"
        BY <2>2, <3>6, OtherStep
      <4>2. \A q \in Runs : Active(q)' => Active(q)
        BY <3>1, <3>2 DEF Active, TypeOK
      <4>3. \A q \in Runs : pc'[q] = "writing" => pc[q] = "writing"
        BY <3>1, <4>1 DEF TypeOK
      <4>4. SlotsBehind'
        BY <3>3, <4>1, <4>2, <4>3 DEF SlotsBehind
      <4>5. QED
        BY <4>1, <4>4 DEF NewestFirst
    <3>7. QED
      BY <3>4, <3>5, <3>6
  <2>3. ASSUME NEW c \in Coverages, CovStep(c) PROVE SlotsBehind' /\ NewestFirst'
    BY <2>3 DEF CovStep, CovStart, CleanCoverage, CovPass, CovFail, BeginReport, EndReport,
                SlotsBehind, NewestFirst, Active, files, run, cov, history
  <2>4. CASE VerifyCli \/ Edit \/ UNCHANGED vars
    BY <2>4 DEF VerifyCli, Edit, vars, SlotsBehind, NewestFirst, Active, files, run, cov,
                history
  <2>5. QED
    BY <2>1, <2>2, <2>3, <2>4 DEF Next
<1>3. QED
  BY <1>1, <1>2, TypeInvariant, OneAtATimeInvariant, PTL DEF Spec

(* A run that exits with 0 has just read a bundle that is all its own, and  *)
(* nothing changes it before the next run starts.                           *)
THEOREM CleanExit ==
    ASSUME ~Overlap PROVE Spec => []CleanExitIsWholeBundle
<1>1. Init => CleanExitIsWholeBundle
  BY DEF Init, CleanExitIsWholeBundle
<1>2. TypeInv /\ OneAtATime /\ SlotsBehind /\ CleanExitIsWholeBundle /\ [Next]_vars
          => CleanExitIsWholeBundle'
  <2> SUFFICES ASSUME TypeInv, OneAtATime, SlotsBehind, CleanExitIsWholeBundle,
                      [Next]_vars
               PROVE  CleanExitIsWholeBundle'
    OBVIOUS
  <2> USE DEF TypeInv
  <2>0. \A q \in Runs : q \in Int
    BY DEF Runs
  <2>1. ASSUME NEW r \in Runs, Start(r) PROVE CleanExitIsWholeBundle'
    <3>1. /\ pc' = [pc EXCEPT ![r] = "lint"] /\ UNCHANGED disk
          /\ pc[r] = "off" /\ \A q \in Runs : pc[q] = "exit0" => q < r
      BY <2>0, <2>1 DEF Start, Goto, files, OneAtATime
    <3>2. QED
      BY <3>1 DEF CleanExitIsWholeBundle, TypeOK
  <2>2. ASSUME NEW r \in Runs, ToolStep(r) \/ OwnStep(r) \/ Kill(r)
        PROVE CleanExitIsWholeBundle'
    <3>1. PICK l \in Working \cup Ended : pc' = [pc EXCEPT ![r] = l]
      BY <2>2, RunStep
    <3>2. Active(r) /\ pc'[r] # "off"
      BY <2>2, <3>1, RunStep DEF Working, Ended, TypeOK
    <3>3. SUFFICES ASSUME NEW q \in Runs, pc'[q] = "exit0",
                          \A p \in Runs : p > q => pc'[p] = "off"
                   PROVE  \A s \in Slots : disk'[s] = q
      BY DEF CleanExitIsWholeBundle
    <3>4. q = r
      <4>1. CASE q < r
        BY <2>0, <3>2, <3>3, <4>1
      <4>2. CASE r < q
        BY <2>0, <3>1, <3>2, <3>3, <4>2 DEF OneAtATime, TypeOK
      <4>3. QED
        BY <2>0, <4>1, <4>2
    <3>5. ~BeginWrite(r) /\ ~EndWrite(r)
      BY <3>3, <3>4, LoneWrite DEF BeginWrite, Goto, TypeOK
    <3>6. Final(r) /\ UNCHANGED disk
      BY <2>2, <3>3, <3>4, <3>5, OtherStep
    <3>7. at[r] = Artifact + 1
      BY <3>6 DEF Final, Progress
    <3>8. \A s \in Slots : s < at[r]
      BY <3>7, TriggerAssumption DEF Slots, Artifact
    <3>9. QED
      BY <3>2, <3>4, <3>6, <3>8 DEF SlotsBehind
  <2>3. ASSUME NEW c \in Coverages, CovStep(c) PROVE CleanExitIsWholeBundle'
    BY <2>3 DEF CovStep, CovStart, CleanCoverage, CovPass, CovFail, BeginReport, EndReport,
                CleanExitIsWholeBundle, files
  <2>4. CASE VerifyCli \/ Edit \/ UNCHANGED vars
    BY <2>4 DEF VerifyCli, Edit, vars, CleanExitIsWholeBundle, files
  <2>5. QED
    BY <2>1, <2>2, <2>3, <2>4 DEF Next
<1>3. QED
  BY <1>1, <1>2, TypeInvariant, OneAtATimeInvariant, Ordered, PTL DEF Spec

-----------------------------------------------------------------------------
(* The commands implement EvidenceRegister: eslint_sonarjs.json only ever   *)
(* goes from a complete document to a later run's, through a torn one, and  *)
(* no verify accepts a document that has not been complete.                 *)
THEOREM Implements == ASSUME ~Overlap PROVE Spec => RegisterSpec
<1> DEFINE content   == disk[Unified]
           published == {Committed} \cup {r \in Runs : at[r] > Unified}
<1>0. Unified \in Slots \ {EslintReport}
  BY TriggerAssumption DEF Unified, Slots, Artifact, EslintReport
<1>1. Init => Register!Init
  <2>1. Unified \in Checkout
    BY TriggerAssumption DEF Checkout, Unified
  <2>2. QED
    BY <1>0, <2>1 DEF Init, Register!Init, Unified
<1>2. TypeInv /\ OneAtATime /\ SlotsBehind /\ PublishedInv /\ [Next]_vars
          => [Register!Next]_(Register!regvars)
  <2> SUFFICES ASSUME TypeInv, OneAtATime, SlotsBehind, PublishedInv, [Next]_vars
               PROVE  Register!Next \/ UNCHANGED <<content, published, vouched>>
    BY DEF Register!regvars
  <2> USE DEF TypeInv
  <2>0. /\ \A q \in Runs : q \in Nat /\ at[q] \in Nat
        /\ \A q \in Runs : pc[q] = "off" => q \notin published
        /\ \A q \in Runs : Committed < q
    BY TriggerAssumption
       DEF Progress, TypeOK, Runs, Artifact, EslintReport, Unified, Committed
  <2>1. ASSUME NEW r \in Runs, Start(r)
        PROVE  UNCHANGED <<content, published, vouched>>
    BY <2>1 DEF Start, files
  <2>2. ASSUME NEW r \in Runs, BeginWrite(r)
        PROVE  Register!Next \/ UNCHANGED <<content, published, vouched>>
    <3>1. disk' = [disk EXCEPT ![at[r]] = Torn] /\ UNCHANGED <<published, vouched>>
      BY <2>2, LoneWrite DEF BeginWrite, history
    <3>2. content' = Torn \/ UNCHANGED content
      BY <1>0, <3>1 DEF TypeOK
    <3>3. QED
      BY <3>1, <3>2 DEF Register!Next, Register!Open
  <2>3. ASSUME NEW r \in Runs, EndWrite(r)
        PROVE  Register!Next \/ UNCHANGED <<content, published, vouched>>
    <3>1. /\ at[r] \in Slots /\ at' = [at EXCEPT ![r] = at[r] + 1] /\ at'[r] = at[r] + 1
          /\ UNCHANGED vouched
      BY <2>3, LoneWrite DEF EndWrite, TypeOK, history
    <3>2. CASE at[r] # Unified
      <4>1. UNCHANGED content
        BY <1>0, <2>3, <3>1, <3>2, LoneWrite DEF TypeOK
      <4>2. \A q \in Runs : at'[q] > Unified <=> at[q] > Unified
        BY <2>0, <3>1, <3>2 DEF TypeOK, Unified
      <4>3. QED
        BY <3>1, <4>1, <4>2
    <3>3. CASE at[r] = Unified
      <4>1. pc[r] = "writing" /\ Active(r) /\ content = Torn
        BY <1>0, <2>3, <3>3 DEF EndWrite, Active, Working, SlotsBehind
      <4>2. disk' = [disk EXCEPT ![at[r]] = r]
        <5>1. Written(r) = r /\ AfterWrite(r) # "exit1"
          BY <3>3, TriggerAssumption
             DEF Written, AfterWrite, Unified, EslintReport, Platform, Artifact
        <5>2. alone[r]
          BY <1>0, <4>1 DEF SlotsBehind
        <5>3. QED
          BY <2>3, <5>1, <5>2 DEF EndWrite, Put
      <4>3. content' = r
        BY <1>0, <3>3, <4>2 DEF TypeOK
      <4>4. published' = published \cup {r}
        <5>1. \A q \in Runs : at'[q] > Unified <=> at[q] > Unified \/ q = r
          BY <2>0, <3>1, <3>3 DEF TypeOK, Unified
        <5>2. QED
          BY <5>1
      <4>5. \A q \in published : q < r
        <5>1. SUFFICES ASSUME NEW q \in Runs, at[q] > Unified PROVE q < r
          BY <2>0
        <5>2. pc[q] # "off" /\ q # r
          BY <3>3, <5>1 DEF Progress, EslintReport, Unified
        <5>3. ~(q > r)
          BY <4>1, <5>2 DEF OneAtATime
        <5>4. QED
          BY <2>0, <5>2, <5>3
      <4>6. Register!Publish(r)
        BY <3>1, <4>1, <4>3, <4>4, <4>5 DEF Register!Publish
      <4>7. QED
        BY <4>6 DEF Register!Next, Documents
    <3>4. QED
      BY <3>2, <3>3
  <2>4. ASSUME NEW r \in Runs, ToolStep(r) \/ OwnStep(r) \/ Kill(r),
               ~BeginWrite(r), ~EndWrite(r), UNCHANGED vouched
        PROVE  UNCHANGED <<content, published, vouched>>
    BY <2>4, OtherStep
  <2>5. ASSUME NEW s \in Slots \ {EslintReport}, Accepts(s),
               vouched' = vouched \cup {disk[s]}, UNCHANGED <<disk, at>>
        PROVE  Register!Next
    <3>1. disk[s] \in published
      BY <2>5 DEF Accepts, PublishedInv, Documents
    <3>2. Register!Accept(disk[s])
      BY <2>5, <3>1 DEF Register!Accept
    <3>3. QED
      BY <2>5, <3>2 DEF Register!Next, Accepts
  <2>6. ASSUME NEW r \in Runs, Verify(r)
        PROVE  Register!Next \/ UNCHANGED <<content, published, vouched>>
    <3>1. UNCHANGED <<disk, at>>
      BY <2>6 DEF Verify, files, run, cov, history
    <3>2. CASE Accepts(Unified)
      BY <1>0, <2>5, <2>6, <3>1, <3>2 DEF Verify
    <3>3. CASE ~Accepts(Unified)
      BY <2>6, <3>1, <3>3 DEF Verify
    <3>4. QED
      BY <3>2, <3>3
  <2>7. CASE VerifyCli
    <3>1. UnifiedCopies \subseteq Slots \ {EslintReport}
      BY TriggerAssumption DEF UnifiedCopies, Slots, Unified, Artifact, EslintReport
    <3>2. QED
      BY <2>5, <2>7, <3>1 DEF VerifyCli, files, run, cov, history
  <2>8. ASSUME NEW c \in Coverages, CovStep(c)
        PROVE  UNCHANGED <<content, published, vouched>>
    BY <2>8 DEF CovStep, CovStart, CleanCoverage, CovPass, CovFail, BeginReport, EndReport,
                files, run, cov, history
  <2>9. CASE Edit \/ UNCHANGED vars
    BY <2>9 DEF Edit, vars, files, run, cov, history
  <2>10. ASSUME NEW r \in Runs, ToolStep(r) \/ OwnStep(r) \/ Kill(r)
         PROVE  BeginWrite(r) \/ EndWrite(r) \/ Verify(r) \/ UNCHANGED vouched
    BY <2>10 DEF ToolStep, LintReports, LintNotSpawned, LintIsCut, LintFails, TestsPass,
                 TestsFail, OwnStep, TestsStart, SummaryMissing, SummaryFound,
                 LoadSummary, LoadFails, Final, Kill, history
  <2>11. QED
    BY <2>1, <2>2, <2>3, <2>4, <2>6, <2>7, <2>8, <2>9, <2>10 DEF Next
<1>3. QED
  BY <1>1, <1>2, TypeInvariant, OneAtATimeInvariant, Ordered, PublishedInvariant, PTL
     DEF Spec, RegisterSpec, Register!Spec

-----------------------------------------------------------------------------
(* While a run is going on the subject is the only one it has seen, and its *)
(* measurement is of it: a step of its own changes nothing of other runs.   *)
LEMMA MeasuredInvariant ==
    ASSUME ~Overlap PROVE Spec => []MeasuredInv
<1>1. Init => MeasuredInv
  BY DEF Init, MeasuredInv, Active, Working, Unified
<1>2. TypeInv /\ OneAtATime /\ MeasuredInv /\ [Next]_vars => MeasuredInv'
  <2> SUFFICES ASSUME TypeInv, OneAtATime, MeasuredInv, [Next]_vars PROVE MeasuredInv'
    OBVIOUS
  <2> USE DEF TypeInv
  <2>0. /\ \A q \in Runs : at[q] \in Nat
        /\ Measured(subject) \in Summaries
        /\ Measured(subject) # None /\ Measured(subject) # Pending
        /\ subject \in Subjects
    BY TriggerAssumption, NoneAssumption, PendingAssumption
       DEF TypeOK, Runs, Artifact, Summaries
  <2>1. ASSUME NEW r \in Runs, Start(r) PROVE MeasuredInv'
    <3>1. /\ pc[r] = "off" /\ coverage[r] = Pending /\ at[r] = 0
          /\ pc' = [pc EXCEPT ![r] = "lint"] /\ seen' = [seen EXCEPT ![r] = {subject}]
          /\ UNCHANGED <<subject, summary, at, coverage>>
      BY <2>1 DEF Start, Goto, files, MeasuredInv, Progress, EslintReport
    <3>2. QED
      BY <2>0, <3>1 DEF MeasuredInv, TypeOK, Active, Unified
  <2>2. ASSUME NEW r \in Runs, ToolStep(r) \/ OwnStep(r) \/ Kill(r) PROVE MeasuredInv'
    <3>1. PICK l \in Working \cup Ended : pc' = [pc EXCEPT ![r] = l]
      BY <2>2, RunStep
    <3>2. Active(r) /\ l # "off" /\ pc'[r] = l /\ seen[r] = {subject}
      BY <2>2, <3>1, RunStep DEF Working, Ended, TypeOK, MeasuredInv
    <3>3. \A q \in Runs \ {r} : ~Active(q) /\ pc'[q] = pc[q]
      BY <3>1, <3>2 DEF OneAtATime, Active, Working, Runs, TypeOK
    <3>4. UNCHANGED <<subject, seen>>
      BY <2>2, SubjectKept
    <3>5. \A q \in Runs \ {r} :
              /\ pc'[q] \notin Working
              /\ coverage'[q] = coverage[q] /\ at'[q] = at[q]
      BY <2>2, <3>3, OwnData DEF Active
    <3>0. coverage[r] = Pending \/ coverage[r] = Measured(subject)
      BY <3>2 DEF MeasuredInv
    <3>6. SUFFICES
              /\ pc'[r] \in {"summary", "load"} => summary' = Measured(subject)
              /\ coverage'[r] = Pending \/ coverage'[r] = Measured(subject)
              /\ coverage'[r] = Pending =>
                     at'[r] <= Unified /\ (at'[r] = Unified => pc'[r] \notin {"write", "writing"})
      <4>1. ASSUME NEW q \in Runs \ {r}
            PROVE  /\ ~Active(q)'
                   /\ pc'[q] \notin {"summary", "load"}
                   /\ coverage'[q] = Pending \/
                         \E u \in Subjects : seen[q] = {u} /\ coverage'[q] = Measured(u)
                   /\ pc'[q] = "off" => coverage'[q] = Pending
                   /\ coverage'[q] = Pending =>
                         at'[q] <= Unified
                         /\ (at'[q] = Unified => pc'[q] \notin {"write", "writing"})
        BY <3>3, <3>5 DEF MeasuredInv, Active, Working
      <4>2. QED
        BY <2>0, <3>2, <3>4, <4>1 DEF MeasuredInv
    <3>7. CASE BeginWrite(r)
      BY <2>0, <3>0, <3>2, <3>4, <3>7 DEF BeginWrite, Goto, TypeOK, MeasuredInv
    <3>8. CASE EndWrite(r)
      <4>1. at' = [at EXCEPT ![r] = at[r] + 1] /\ pc[r] = "writing" /\ UNCHANGED coverage
            /\ pc'[r] = AfterWrite(r)
        BY <3>8 DEF EndWrite, Goto, TypeOK
      <4>2. coverage[r] = Pending => at[r] = 0
        BY <2>0, <4>1 DEF MeasuredInv, Unified
      <4>3. at[r] = 0 => pc'[r] \in {"exit1", "vitest"}
        BY <4>1 DEF AfterWrite, EslintReport
      <4>4. AfterWrite(r) \notin {"summary", "load"}
        BY DEF AfterWrite
      <4>5. QED
        BY <2>0, <3>0, <3>4, <4>1, <4>2, <4>3, <4>4 DEF MeasuredInv, TypeOK, Unified
    <3>9. CASE ToolStep(r)
      BY <2>0, <3>0, <3>2, <3>4, <3>9 DEF ToolStep, LintReports, LintNotSpawned, LintIsCut,
                                          LintFails, TestsPass, TestsFail, Goto, TypeOK,
                                          MeasuredInv, Progress, run, cov, history,
                                          EslintReport, Unified
    <3>10. CASE SummaryMissing(r) \/ LoadSummary(r)
      <4>1. summary = Measured(subject)
        BY <3>10 DEF SummaryMissing, LoadSummary, MeasuredInv
      <4>2. coverage' = [coverage EXCEPT ![r] = Measured(subject)]
        BY <2>0, <3>10, <4>1 DEF SummaryMissing, LoadSummary, Gate
      <4>3. coverage'[r] = Measured(subject)
        BY <4>2 DEF TypeOK
      <4>4. pc'[r] \in {"write", "exit1"}
        BY <3>10 DEF SummaryMissing, LoadSummary, Gate, Goto, TypeOK
      <4>5. QED
        BY <2>0, <4>3, <4>4
    <3>11. CASE TestsStart(r) \/ SummaryFound(r) \/ LoadFails(r)
      BY <2>0, <3>0, <3>2, <3>4, <3>11 DEF TestsStart, CleanCoverage, SummaryFound,
                                           LoadFails, Goto, TypeOK, MeasuredInv, Progress,
                                           files, run, cov, history
    <3>12. CASE Verify(r) \/ Final(r) \/ Kill(r)
      BY <2>0, <3>0, <3>2, <3>4, <3>12 DEF Verify, Final, Kill, Goto, TypeOK, MeasuredInv,
                                           files, run, cov, history
    <3>13. QED
      BY <2>2, <3>7, <3>8, <3>9, <3>10, <3>11, <3>12 DEF OwnStep
  <2>3. ASSUME NEW c \in Coverages, CovStep(c) PROVE MeasuredInv'
    <3>1. \A r \in Runs : ~Active(r)
      BY <2>3 DEF CovStep, CovStart, CleanCoverage, CovPass, CovFail, BeginReport, EndReport,
                  Idle, OneAtATime, CovWorking
    <3>2. UNCHANGED <<subject, pc, at, coverage, seen>>
      BY <2>3 DEF CovStep, CovStart, CleanCoverage, CovPass, CovFail, BeginReport, EndReport,
                  run, cov, history
    <3>3. QED
      BY <3>1, <3>2 DEF MeasuredInv, Active, Working
  <2>4. CASE Edit
    <3>1. \A r \in Runs : ~Active(r)
      BY <2>4 DEF Edit, Idle
    <3>2. UNCHANGED <<pc, at, coverage, seen>>
      <4>1. seen' = [r \in Runs |-> seen[r]]
        BY <2>4, <3>1 DEF Edit
      <4>2. QED
        BY <2>4, <4>1 DEF Edit, run, TypeOK
    <3>3. QED
      BY <3>1, <3>2 DEF MeasuredInv, Active, Working
  <2>5. CASE VerifyCli \/ UNCHANGED vars
    BY <2>5 DEF VerifyCli, vars, files, run, cov, history, MeasuredInv, Active
  <2>6. QED
    BY <2>1, <2>2, <2>3, <2>4, <2>5 DEF Next
<1>3. QED
  BY <1>1, <1>2, TypeInvariant, OneAtATimeInvariant, PTL DEF Spec

(* No run falls back on the assumed branch counts.                          *)
THEOREM NothingAssumed ==
    ASSUME ~Overlap PROVE Spec => []MeasuredNotAssumed
<1>1. TypeInv /\ MeasuredInv => MeasuredNotAssumed
  <2> SUFFICES ASSUME TypeInv, MeasuredInv, NEW r \in Runs PROVE coverage[r] # None
    BY DEF MeasuredNotAssumed
  <2>1. \A s \in Subjects : Measured(s) # None
    BY NoneAssumption DEF Summaries
  <2>2. QED
    BY <2>1, PendingAssumption DEF MeasuredInv
<1>2. QED
  BY <1>1, TypeInvariant, MeasuredInvariant, PTL

-----------------------------------------------------------------------------
VerifiedInv == VerifiedIsCovered /\ \A r \in vouched \cap Runs : pc[r] # "off"

(* An accepted document of a run is of a subject that was wholly covered.   *)
THEOREM Verified ==
    ASSUME ~Overlap PROVE Spec => []VerifiedIsCovered
<1>1. Init => VerifiedInv
  BY DEF Init, VerifiedInv, VerifiedIsCovered
<1>2. TypeInv /\ OneAtATime /\ SlotsBehind /\ PublishedInv /\ MeasuredInv /\ VerifiedInv
          /\ [Next]_vars => VerifiedInv'
  <2> SUFFICES ASSUME TypeInv, OneAtATime, SlotsBehind, PublishedInv, MeasuredInv,
                      VerifiedInv, [Next]_vars
               PROVE  VerifiedInv'
    OBVIOUS
  <2> USE DEF TypeInv
  <2>1. ASSUME NEW s \in Slots \ {EslintReport}, Accepts(s), disk[s] \in Runs
        PROVE  LET r == disk[s]
               IN  /\ pc[r] # "off"
                   /\ \A u \in seen[r] : LET b == Branches(Measured(u))
                                          IN  b.total > 0 /\ FullyCovered(b)
    <3> DEFINE r == disk[s]
    <3>1. r \in Runs /\ at[r] > Unified /\ at[r] \in Nat
      BY <2>1, TriggerAssumption DEF PublishedInv, TypeOK, Artifact
    <3>2. PICK u \in Subjects : seen[r] = {u} /\ coverage[r] = Measured(u)
      BY <3>1 DEF MeasuredInv, Unified
    <3>3. pc[r] # "off"
      BY <3>1 DEF Progress, EslintReport, Unified
    <3>4. lint[r] \in Int
      BY <3>1 DEF TypeOK, CutReport
    <3>5. VerifyOk(Document(lint[r], Measured(u)))
      BY <2>1, <3>2, ARunIsNotTheCommit DEF Accepts, DocumentOf
    <3>6. QED
      BY <3>2, <3>3, <3>4, <3>5, AcceptedIsCovered
  <2>2. ASSUME NEW s \in Slots \ {EslintReport}, Accepts(s), UNCHANGED seen,
               vouched' = vouched \cup {disk[s]}, \A r \in Runs : pc[r] # "off" => pc'[r] # "off"
        PROVE  VerifiedInv'
    BY <2>1, <2>2 DEF VerifiedInv, VerifiedIsCovered, TypeOK
  <2>3. ASSUME UNCHANGED <<seen, vouched>>, \A r \in Runs : pc[r] # "off" => pc'[r] # "off"
        PROVE  VerifiedInv'
    BY <2>3 DEF VerifiedInv, VerifiedIsCovered, TypeOK
  <2>4. Unified \in Slots \ {EslintReport} /\ UnifiedCopies \subseteq Slots \ {EslintReport}
    BY TriggerAssumption DEF UnifiedCopies, Slots, Unified, Artifact, EslintReport
  <2>5. ASSUME NEW r \in Runs, Start(r) PROVE VerifiedInv'
    BY <2>5 DEF Start, Goto, VerifiedInv, VerifiedIsCovered, TypeOK
  <2>6. ASSUME NEW r \in Runs, ToolStep(r) \/ OwnStep(r) \/ Kill(r) PROVE VerifiedInv'
    <3>1. \A q \in Runs : pc[q] # "off" => pc'[q] # "off"
      BY <2>6, RunStep DEF Working, Ended, TypeOK
    <3>2. UNCHANGED seen
      BY <2>6, SubjectKept
    <3>3. CASE Verify(r) /\ Accepts(Unified)
      BY <2>2, <2>4, <3>1, <3>2, <3>3 DEF Verify
    <3>4. CASE ~(Verify(r) /\ Accepts(Unified))
      <4>1. UNCHANGED vouched
        BY <2>6, <3>4 DEF ToolStep, LintReports, LintNotSpawned, LintIsCut, LintFails,
                 TestsPass, TestsFail, OwnStep, BeginWrite, EndWrite, TestsStart,
                 SummaryMissing, SummaryFound, LoadSummary, LoadFails, Verify, Final, Kill, history
      <4>2. QED
        BY <2>3, <3>1, <3>2, <4>1
    <3>5. QED
      BY <3>3, <3>4
  <2>7. CASE VerifyCli
    BY <2>2, <2>4, <2>7 DEF VerifyCli, run, cov, history
  <2>8. ASSUME NEW c \in Coverages, CovStep(c) PROVE VerifiedInv'
    BY <2>3, <2>8 DEF CovStep, CovStart, CleanCoverage, CovPass, CovFail, BeginReport,
                      EndReport, run, cov, history
  <2>9. CASE Edit
    <3>1. UNCHANGED <<pc, vouched>> /\ \A r \in Runs : ~Active(r) /\ seen'[r] = seen[r]
      BY <2>9 DEF Edit, Idle, TypeOK
    <3>2. seen' = seen
      BY <2>9, <3>1 DEF Edit, TypeOK
    <3>3. QED
      BY <2>3, <3>1, <3>2
  <2>10. CASE UNCHANGED vars
    BY <2>3, <2>10 DEF vars, history
  <2>11. QED
    BY <2>5, <2>6, <2>7, <2>8, <2>9, <2>10 DEF Next
<1>3. VerifiedInv => VerifiedIsCovered
  BY DEF VerifiedInv
<1>4. QED
  BY <1>1, <1>2, <1>3, TypeInvariant, OneAtATimeInvariant, Ordered, PublishedInvariant,
     MeasuredInvariant, PTL DEF Spec

-----------------------------------------------------------------------------
(* When commands do not overlap there is no taxonomy report while tests run,*)
(* so no new summary comes to lie beside an old report, and what a command  *)
(* is writing is of the summary that is there.                              *)
LEMMA TaxonomyInvariant ==
    ASSUME ~Overlap PROVE Spec => [](ReportInv /\ TaxonomyMatchesSummary)
<1>1. Init => ReportInv /\ TaxonomyMatchesSummary
  BY NoneAssumption DEF Init, ReportInv, TaxonomyMatchesSummary
<1>2. TypeInv /\ OneAtATime /\ ReportInv /\ TaxonomyMatchesSummary /\ [Next]_vars
          => ReportInv' /\ TaxonomyMatchesSummary'
  <2> SUFFICES ASSUME TypeInv, OneAtATime, ReportInv, TaxonomyMatchesSummary, [Next]_vars
               PROVE  ReportInv' /\ TaxonomyMatchesSummary'
    OBVIOUS
  <2> USE DEF TypeInv
  <2>0. \A s \in Subjects : Measured(s) # None
    BY NoneAssumption DEF Summaries
  <2>1. ASSUME taxonomy' = None, \A c \in Coverages : covPc'[c] # "reporting",
               \A c \in Coverages : atClose'[c] = {}
        PROVE  ReportInv' /\ TaxonomyMatchesSummary'
    BY <2>1, NoneAssumption DEF ReportInv, TaxonomyMatchesSummary
  <2>2. ASSUME UNCHANGED <<summary, taxonomy, covPc, atClose>>,
               \A r \in Runs : pc'[r] = "testing" => pc[r] = "testing"
        PROVE  ReportInv' /\ TaxonomyMatchesSummary'
    <3>1. ReportInv'
      BY <2>2 DEF ReportInv
    <3>2. TaxonomyMatchesSummary'
      BY <2>2 DEF TaxonomyMatchesSummary
    <3>3. QED
      BY <3>1, <3>2
  <2>3. ASSUME NEW r \in Runs, Start(r) PROVE ReportInv' /\ TaxonomyMatchesSummary'
    BY <2>2, <2>3 DEF Start, Goto, files, cov, TypeOK
  <2>4. ASSUME NEW r \in Runs, ToolStep(r) \/ OwnStep(r) \/ Kill(r)
        PROVE  ReportInv' /\ TaxonomyMatchesSummary'
    <3>1. \A c \in Coverages : covPc[c] \notin CovWorking /\ covPc'[c] = covPc[c]
      BY <2>4, RunStep DEF OneAtATime
    <3>2. \A c \in Coverages : covPc[c] # "reporting" /\ atClose[c] = {}
      BY <3>1 DEF ReportInv, CovWorking
    <3>3. CASE TestsStart(r)
      BY <2>1, <3>1, <3>2, <3>3 DEF TestsStart, CleanCoverage
    <3>4. CASE TestsPass(r)
      <4>1. taxonomy = None
        BY <3>4 DEF TestsPass, ReportInv
      <4>2. QED
        BY <2>1, <3>1, <3>2, <3>4, <4>1 DEF TestsPass, cov
    <3>5. CASE ~TestsStart(r) /\ ~TestsPass(r)
      <4>1. UNCHANGED <<summary, taxonomy, covPc, atClose>>
        BY <2>4, <3>5 DEF ToolStep, LintReports, LintNotSpawned, LintIsCut, LintFails,
             TestsFail, OwnStep, BeginWrite, EndWrite, SummaryMissing, SummaryFound,
             LoadSummary, LoadFails, Verify, Final, Kill, files, cov
      <4>2. pc'[r] # "testing"
        <5>1. CASE ToolStep(r)
          BY <3>5, <5>1 DEF ToolStep, LintReports, LintNotSpawned, LintIsCut, LintFails,
                            TestsFail, Goto, TypeOK
        <5>2. CASE OwnStep(r)
          BY <3>5, <5>2 DEF OwnStep, BeginWrite, EndWrite, AfterWrite, SummaryMissing,
               SummaryFound, LoadSummary, LoadFails, Gate, Verify, Final, Goto, TypeOK
        <5>3. CASE Kill(r)
          BY <5>3 DEF Kill, Goto, TypeOK
        <5>4. QED
          BY <2>4, <5>1, <5>2, <5>3
      <4>3. QED
        BY <2>2, <2>4, <4>1, <4>2, OwnData
    <3>6. QED
      BY <3>3, <3>4, <3>5
  <2>5. ASSUME NEW c \in Coverages, CovStep(c)
        PROVE  ReportInv' /\ TaxonomyMatchesSummary'
    <3>0. \A r \in Runs : ~Active(r) /\ pc'[r] = pc[r] /\ pc[r] # "testing"
      BY <2>5 DEF CovStep, CovStart, CovPass, CovFail, BeginReport, EndReport, Idle,
                  OneAtATime, CovWorking, Active, Working
    <3>1. \A d \in Coverages \ {c} : covPc[d] \notin CovWorking /\ atClose[d] = {}
      <4>1. \A d \in Coverages \ {c} : covPc[d] \notin CovWorking
        BY <2>5 DEF CovStep, CovStart, CovPass, CovFail, BeginReport, EndReport, Idle,
                    OneAtATime, CovWorking
      <4>2. QED
        BY <4>1 DEF ReportInv, CovWorking
    <3>2. CASE CovStart(c)
      BY <2>1, <3>1, <3>2 DEF CovStart, CleanCoverage, CovWorking, TypeOK
    <3>3. CASE CovPass(c)
      <4>1. taxonomy = None /\ atClose[c] = {}
        BY <3>3 DEF CovPass, ReportInv
      <4>2. QED
        BY <2>1, <3>1, <3>3, <4>1 DEF CovPass, CovWorking, TypeOK
    <3>4. CASE CovFail(c)
      <4>1. /\ taxonomy' \in {taxonomy, TornReport} /\ UNCHANGED summary
            /\ covPc' = [covPc EXCEPT ![c] = "done"]
            /\ atClose' = [atClose EXCEPT ![c] = {}]
            /\ covPc[c] = "testing" => taxonomy' = taxonomy
        BY <3>4 DEF CovFail, ReportOpen, ReportInv
      <4>2. ReportInv'
        BY <3>0, <3>1, <4>1 DEF ReportInv, TypeOK, CovWorking
      <4>3. TaxonomyMatchesSummary'
        BY <4>1, TornAssumption DEF TaxonomyMatchesSummary
      <4>4. QED
        BY <4>2, <4>3
    <3>5. CASE BeginReport(c)
      <4>1. ReportOpen = {}
        BY <3>1, <3>5 DEF ReportOpen, ReportInv, BeginReport
      <4>2. /\ summary # None /\ UNCHANGED summary /\ taxonomy' = TornReport
            /\ covPc' = [covPc EXCEPT ![c] = "reporting"]
            /\ atClose' = [d \in Coverages |->
                              IF d = c THEN {BuildCoverageTaxonomyReport(summary)} ELSE {}]
        BY <3>5, <4>1 DEF BeginReport
      <4>3. ReportInv'
        BY <3>0, <3>1, <4>2 DEF ReportInv, TypeOK, CovWorking
      <4>4. TaxonomyMatchesSummary'
        BY <4>2, TornAssumption DEF TaxonomyMatchesSummary
      <4>5. QED
        BY <4>3, <4>4
    <3>6. CASE EndReport(c)
      <4>1. /\ summary # None /\ UNCHANGED summary
            /\ taxonomy' = BuildCoverageTaxonomyReport(summary)
            /\ covPc' = [covPc EXCEPT ![c] = "done"]
            /\ atClose' = [atClose EXCEPT ![c] = {}]
        BY <3>6 DEF EndReport, ReportOpen, ReportInv
      <4>2. ReportInv'
        BY <3>0, <3>1, <4>1 DEF ReportInv, TypeOK, CovWorking
      <4>3. TaxonomyMatchesSummary'
        BY <4>1 DEF TaxonomyMatchesSummary
      <4>4. QED
        BY <4>2, <4>3
    <3>7. QED
      BY <2>5, <3>2, <3>3, <3>4, <3>5, <3>6 DEF CovStep
  <2>6. CASE VerifyCli \/ Edit \/ UNCHANGED vars
    BY <2>2, <2>6 DEF VerifyCli, Edit, vars, files, cov
  <2>7. QED
    BY <2>3, <2>4, <2>5, <2>6 DEF Next
<1>3. QED
  BY <1>1, <1>2, TypeInvariant, OneAtATimeInvariant, PTL DEF Spec

(* A complete taxonomy report and the summary beside it are of one          *)
(* measurement, whichever run or coverage command is cut off.               *)
THEOREM OneMeasurement == ASSUME ~Overlap PROVE Spec => []TaxonomyMatchesSummary
BY TaxonomyInvariant, PTL

(* Math.round gives 100 or more only from 99.5 percent on.                  *)
LEMMA HundredIsNearlyFull ==
    ASSUME NEW counts \in Counts, RoundedPct(counts) >= 100
    PROVE  200 * counts.covered >= 199 * counts.total
<1> DEFINE t == counts.total  c == counts.covered
<1>1. t \in Nat /\ c \in Nat
  BY DEF Counts
<1>2. CASE t = 0
  BY <1>1, <1>2
<1>3. CASE t > 0
  <2> DEFINE n == 200 * c + t  d == 2 * t
  <2>1. n \div d >= 100
    BY <1>1, <1>3 DEF RoundedPct
  <2>2. \A x \in Nat, y \in Nat \ {0} : x \div y >= 100 => x >= 100 * y
    OBVIOUS
  <2>3. n \in Nat /\ d \in Nat \ {0}
    BY <1>1, <1>3
  <2>4. n >= 100 * d
    BY <2>1, <2>2, <2>3
  <2>5. QED
    BY <1>1, <2>4
<1>4. QED
  BY <1>1, <1>2, <1>3

(* A taxonomy report of 100 is of a summary that misses at most half a      *)
(* percent of all branches, and of those in the path detection files.       *)
THEOREM HalfAPercent == ASSUME ~Overlap PROVE Spec => []HundredMissesHalfAPercent
<1>1. TypeInv /\ TaxonomyMatchesSummary => HundredMissesHalfAPercent
  <2> SUFFICES ASSUME TypeInv, TaxonomyMatchesSummary, taxonomy \in Reports,
                      taxonomy.percent = 100,
                      NEW counts \in {Branches(summary), summary.path}
               PROVE  200 * counts.covered >= 199 * counts.total
    BY DEF HundredMissesHalfAPercent
  <2>1. summary \in Summaries /\ taxonomy = BuildCoverageTaxonomyReport(summary)
    BY DEF TaxonomyMatchesSummary, TypeInv, TypeOK
  <2>2. Branches(summary) \in Counts /\ summary.path \in Counts
    BY <2>1, TriggerAssumption DEF Summaries, Measured, Branches, Counts
  <2>3. \A k \in Counts : RoundedPct(k) \in Int
    <3>1. \A x \in Int, y \in Int : y > 0 => x \div y \in Int
      OBVIOUS
    <3>2. SUFFICES ASSUME NEW k \in Counts, k.total > 0
                   PROVE  (200 * k.covered + k.total) \div (2 * k.total) \in Int
      BY DEF RoundedPct, Counts
    <3>3. 200 * k.covered + k.total \in Int /\ 2 * k.total \in Int /\ 2 * k.total > 0
      BY <3>2 DEF Counts
    <3>4. QED
      BY <3>1, <3>3
  <2>4. RoundedPct(Branches(summary)) >= 100 /\ RoundedPct(summary.path) >= 100
    <3> DEFINE a == RoundedPct(Branches(summary))  b == RoundedPct(summary.path)
    <3>1. a \in Int /\ b \in Int
      BY <2>2, <2>3
    <3>2. (IF a >= 100 /\ b >= 100 THEN 100 ELSE IF a < b THEN a ELSE b) = 100
      BY <2>1 DEF BuildCoverageTaxonomyReport
    <3> HIDE DEF a, b
    <3>3. a >= 100 /\ b >= 100
      BY <3>1, <3>2
    <3>4. QED
      BY <3>3 DEF a, b
  <2>5. QED
    BY <2>2, <2>4, HundredIsNearlyFull
<1>2. QED
  BY <1>1, TypeInvariant, OneMeasurement, PTL
=============================================================================
