---------------------------- MODULE BenchmarksProofs ----------------------------
(***************************************************************************)
(* Proofs about Benchmarks, for every choice of models, thread counts and  *)
(* sweep rungs, and every number of suites and mishaps.                    *)
(***************************************************************************)
EXTENDS Benchmarks, FiniteSetTheorems, FunctionTheorems, SequenceTheorems,
    WellFoundedInduction, TLAPS

USE BenchmarksAssumption

-----------------------------------------------------------------------------
(* Rows *)

IsList(rows) == \E S : rows \in Seq(S)

LEMMA AppendRow ==
    ASSUME NEW rows, IsList(rows), NEW row
    PROVE  /\ IsList(Append(rows, row))
           /\ DOMAIN Append(rows, row) = DOMAIN rows \cup {Len(rows) + 1}
           /\ \A n \in DOMAIN rows : Append(rows, row)[n] = rows[n]
           /\ Append(rows, row)[Len(rows) + 1] = row
           /\ Len(rows) + 1 \notin DOMAIN rows
  <1>1. PICK S : rows \in Seq(S)  BY DEF IsList
  <1>2. rows \in Seq(S \cup {row}) /\ row \in S \cup {row}  BY <1>1
  <1>3. DOMAIN rows = 1 .. Len(rows) /\ Len(rows) \in Nat  BY <1>1
  <1>4. /\ Append(rows, row) \in Seq(S \cup {row})
        /\ Len(Append(rows, row)) = Len(rows) + 1
        /\ \A n \in 1 .. Len(rows) : Append(rows, row)[n] = rows[n]
        /\ Append(rows, row)[Len(rows) + 1] = row
    BY <1>2, AppendProperties
  <1>5. DOMAIN Append(rows, row) = 1 .. (Len(rows) + 1)  BY <1>4, <1>3
  <1>6. 1 .. (Len(rows) + 1) = (1 .. Len(rows)) \cup {Len(rows) + 1}  BY <1>3
  <1> QED  BY <1>3, <1>4, <1>5, <1>6 DEF IsList

LEMMA NoRows == IsList(<<>>) /\ DOMAIN <<>> = {}
  <1>1. <<>> \in Seq({})  OBVIOUS
  <1> QED  BY <1>1 DEF IsList

LEMMA RowsAreFinite ==
    ASSUME NEW rows, IsList(rows)
    PROVE  IsFiniteSet(DOMAIN rows)
  <1>1. DOMAIN rows = 1 .. Len(rows) /\ Len(rows) \in Nat  BY DEF IsList
  <1> QED  BY <1>1, FS_Interval

-----------------------------------------------------------------------------
(* The suite in progress *)

Pcs == {"case", "loaded", "compiled", "prepared", "save", "docs", "readme", "aborted"}
Running == {"pc", "next", "threads", "smoke", "render", "archive", "cases"}

\* A suite that is not idle has its arguments, and only one that runs cases has rows.
Suite ==
    /\ suite.pc \in Pcs \cup {"idle"}
    /\ suite.pc \in Pcs => suite = [f \in Running |-> suite[f]]
    /\ IsList(results)
    /\ suite.pc \in {"idle", "docs", "readme", "aborted"} => results = <<>>

\* Between loading and the measurement the process has the threads of the case.
ThreadsApplied ==
    suite.pc \in {"loaded", "compiled", "prepared"} =>
        torch_threads = Effective(CaseThreads(Current))

\* Random weights are never scored.
Honest(rows) == \A n \in DOMAIN rows : rows[n].scored => ~rows[n].case.random

\* With a count given, every row outside the sweep was measured at it.
Wide(rows, threads) ==
    threads > 0 => \A n \in DOMAIN rows :
        rows[n].status = "ok" /\ ~IsThreadSweep(rows[n]) => rows[n].threads = threads

Measured ==
    /\ Suite /\ ThreadsApplied /\ ThreadsAreTheCases
    /\ Honest(results) /\ Wide(results, suite.threads)

LEMMA StepKeeps ==
    ASSUME Suite, suite.pc \in Pcs, NEW pc \in Pcs, Step(pc)
    PROVE  /\ suite'.pc = pc /\ suite' = [f \in Running |-> suite'[f]]
           /\ \A f \in Running \ {"pc"} : suite'[f] = suite[f]
  <1>1. suite = [f \in Running |-> suite[f]] /\ suite' = [suite EXCEPT !.pc = pc]
    BY DEF Suite, Step
  <1>2. DOMAIN suite = Running  BY <1>1
  <1> QED  BY <1>1, <1>2 DEF Running

LEMMA NextCaseKeeps ==
    ASSUME Suite, suite.pc \in Pcs, suite' = NextCase
    PROVE  /\ suite'.pc \in {"case", "save"} /\ suite' = [f \in Running |-> suite'[f]]
           /\ \A f \in Running \ {"pc", "next"} : suite'[f] = suite[f]
  <1>1. suite = [f \in Running |-> suite[f]]  BY DEF Suite
  <1>2. DOMAIN suite = Running  BY <1>1
  <1> QED  BY <1>1, <1>2 DEF Running, NextCase

LEMMA StartedSuite ==
    ASSUME NEW s, NEW t, NEW given, NEW quick, NEW archived,
           suite' = Arguments(s, t, given, quick, archived)
    PROVE  suite'.pc = "case" /\ suite' = [f \in Running |-> suite'[f]] /\ suite'.smoke = quick
  <1>1. \E c : suite' = [pc |-> "case", next |-> 1, threads |-> t, smoke |-> quick,
             render |-> "no_render" \notin given, archive |-> archived, cases |-> c]
    BY Zenon DEF Arguments
  <1> QED  BY <1>1 DEF Running

\* The threads that a case is measured with.
ThreadsOf(c) ==
    IF CaseThreads(c) > 0 THEN CaseThreads(c)
    ELSE IF c.runtime = "onnxruntime" THEN Cores.onnx ELSE Cores.torch

LEMMA RowRecorded ==
    ASSUME Measured, NEW row, results' = Recorded(results, row),
           suite'.threads = suite.threads,
           row.scored => ~row.case.random,
           row.status = "ok" /\ ~IsThreadSweep(row) /\ suite.threads > 0 => row.threads = suite.threads,
           row.status = "ok" => row.threads = ThreadsOf(row.case)
    PROVE  IsList(results') /\ ThreadsAreTheCases' /\ Honest(results)' /\ Wide(results, suite.threads)'
  <1>1. /\ IsList(results') /\ DOMAIN results' = DOMAIN results \cup {Len(results) + 1}
        /\ \A n \in DOMAIN results : results'[n] = results[n]
        /\ results'[Len(results) + 1] = row
    BY AppendRow DEF Recorded, Measured, Suite
  <1> DEFINE AsAsked(r) == r.status = "ok" => r.threads = ThreadsOf(r.case)
  <1>2. \A n \in DOMAIN results : AsAsked(results[n])
    BY DEF Measured, ThreadsAreTheCases, ThreadsOf
  <1>4. AsAsked(row)  OBVIOUS
  <1> HIDE DEF AsAsked
  <1>5. \A n \in DOMAIN results' : AsAsked(results'[n])  BY <1>1, <1>2, <1>4
  <1>6. ThreadsAreTheCases'
    BY <1>5 DEF AsAsked, ThreadsAreTheCases, CaseThreads, ThreadsOf
  <1>3. Honest(results)'  BY <1>1 DEF Measured, Honest
  <1>7. Wide(results, suite.threads)'  BY <1>1 DEF Measured, Wide, IsThreadSweep
  <1> QED  BY <1>1, <1>3, <1>6, <1>7

LEMMA NothingMeasured ==
    ASSUME results' = <<>>
    PROVE  IsList(results') /\ ThreadsAreTheCases' /\ Honest(results)' /\ Wide(results, suite.threads)'
  BY NoRows DEF ThreadsAreTheCases, Honest, Wide

LEMMA RowsKept ==
    ASSUME Measured, results' = results, suite'.threads = suite.threads
    PROVE  IsList(results') /\ ThreadsAreTheCases' /\ Honest(results)' /\ Wide(results, suite.threads)'
  BY Zenon DEF Measured, Suite, ThreadsAreTheCases, CaseThreads, Honest, Wide

LEMMA MeasuredInit == Init => Measured
  BY NoRows DEF Init, Idle, Measured, Suite, Pcs, ThreadsApplied, ThreadsAreTheCases, Honest, Wide

LEMMA MeasuredStep == Measured /\ [Next]_vars => Measured'
  <1> SUFFICES ASSUME Measured, [Next]_vars PROVE Measured'  OBVIOUS
  <1>0. Suite /\ ThreadsApplied  BY DEF Measured
  <1>1. CASE \E s \in Subsets, t \in ThreadArgs, g \in Switches, quick, archived \in BOOLEAN :
                 Starts(s, t, g, quick, archived)
    <2>1. PICK s \in Subsets, t \in ThreadArgs, g \in Switches, quick \in BOOLEAN, archived \in BOOLEAN :
            Starts(s, t, g, quick, archived)
      BY <1>1
    <2>2. results' = <<>> /\ (suite' = suite \/ suite' = Arguments(s, t, Given(g, quick), quick, archived))
          /\ suite.pc = "idle"
      BY <2>1 DEF Starts
    <2>3. (suite'.pc = "case" /\ suite' = [f \in Running |-> suite'[f]]) \/ suite'.pc = "idle"
      BY <2>2, StartedSuite
    <2> QED  BY <2>2, <2>3, NothingMeasured DEF Measured, Suite, ThreadsApplied, Pcs
  <1>2. CASE LoadModel
    <2>1. suite.pc = "case" /\ Step("loaded") /\ results' = results
          /\ torch_threads' = Effective(CaseThreads(Current))
      BY <1>2 DEF LoadModel, ApplyThreads
    <2>2. /\ suite'.pc = "loaded" /\ suite' = [f \in Running |-> suite'[f]]
          /\ \A f \in Running \ {"pc"} : suite'[f] = suite[f]
      BY <2>1, <1>0, StepKeeps DEF Pcs
    <2>3. suite'.threads = suite.threads /\ suite'.next = suite.next /\ suite'.cases = suite.cases
      BY <2>2 DEF Running
    <2>4. torch_threads' = Effective(CaseThreads(Current))'
      BY <2>1, <2>3, Zenon DEF CaseThreads, Current, Effective
    <2> QED  BY <2>1, <2>2, <2>3, <2>4, RowsKept DEF Measured, Suite, ThreadsApplied, Pcs
  <1>3. ASSUME NEW status \in {"skipped", "failed"}, LoadFails(status) PROVE Measured'
    <2> DEFINE row == Unmeasured(Current, status)
    <2>1. suite.pc = "case" /\ suite' = NextCase /\ results' = Recorded(results, row)
      BY <1>3 DEF LoadFails
    <2>2. /\ suite'.pc \in {"case", "save"} /\ suite' = [f \in Running |-> suite'[f]]
          /\ suite'.threads = suite.threads
      BY <2>1, <1>0, NextCaseKeeps DEF Pcs, Running
    <2>3. row.status # "ok" /\ ~row.scored  BY DEF Unmeasured
    <2> HIDE DEF row
    <2>4. IsList(results') /\ ThreadsAreTheCases' /\ Honest(results)' /\ Wide(results, suite.threads)'
      BY <2>1, <2>2, <2>3, RowRecorded
    <2> QED  BY <2>2, <2>4 DEF Measured, Suite, ThreadsApplied, Pcs
  <1>4. CASE MaybeCompile \/ SampleLoad
    <2>1. PICK pc \in {"compiled", "prepared"} : Step(pc)
      BY <1>4 DEF MaybeCompile, SampleLoad
    <2>2. suite.pc \in {"loaded", "compiled"} /\ results' = results /\ torch_threads' = torch_threads
      BY <1>4 DEF MaybeCompile, SampleLoad
    <2>3. /\ suite'.pc = pc /\ suite' = [f \in Running |-> suite'[f]]
          /\ \A f \in Running \ {"pc"} : suite'[f] = suite[f]
      BY <2>1, <2>2, <1>0, StepKeeps DEF Pcs
    <2>4. suite'.threads = suite.threads /\ suite'.next = suite.next /\ suite'.cases = suite.cases
      BY <2>3 DEF Running
    <2>5. torch_threads' = Effective(CaseThreads(Current))'
      BY <1>0, <2>2, <2>4, Zenon DEF ThreadsApplied, CaseThreads, Current, Effective
    <2> QED  BY <2>2, <2>3, <2>4, <2>5, RowsKept DEF Measured, Suite, ThreadsApplied, Pcs
  <1>5. CASE Measure
    <2>1. PICK row : /\ results' = Recorded(results, row)
                     /\ row = [case |-> Current, status |-> "ok",
                               threads |-> EffectiveThreads(Current),
                               scored |-> AccuracyValid(Current),
                               label |-> RuntimeLabel(Current, model.compiled), load |-> model.load]
      BY <1>5 DEF Measure
    <2>2. suite.pc = "prepared" /\ suite' = NextCase  BY <1>5 DEF Measure
    <2>3. /\ suite'.pc \in {"case", "save"} /\ suite' = [f \in Running |-> suite'[f]]
          /\ suite'.threads = suite.threads
      BY <2>2, <1>0, NextCaseKeeps DEF Pcs, Running
    <2>4. row.case = Current /\ row.threads = EffectiveThreads(Current)
          /\ row.scored = AccuracyValid(Current)
      BY <2>1
    <2>5. row.scored => ~row.case.random  BY <2>4 DEF AccuracyValid
    <2>6. row.threads = ThreadsOf(row.case)
      BY <1>0, <2>2, <2>4 DEF EffectiveThreads, ThreadsApplied, Effective, HandedOver, ThreadsOf
    <2>7. ~IsThreadSweep(row) /\ suite.threads > 0 => row.threads = suite.threads
      BY <1>0, <2>2, <2>4
      DEF IsThreadSweep, EffectiveThreads, HandedOver, CaseThreads, Effective, ThreadsApplied
    <2>8. IsList(results') /\ ThreadsAreTheCases' /\ Honest(results)' /\ Wide(results, suite.threads)'
      BY <2>1, <2>3, <2>5, <2>6, <2>7, RowRecorded
    <2> QED  BY <2>3, <2>8 DEF Measured, Suite, ThreadsApplied, Pcs
  <1>6. CASE MeasureRaises
    <2>1. results' = <<>> /\ Step("aborted") /\ suite.pc \in {"loaded", "compiled", "prepared"}
      BY <1>6 DEF MeasureRaises
    <2>2. suite'.pc = "aborted" /\ suite' = [f \in Running |-> suite'[f]]
      BY <2>1, <1>0, StepKeeps DEF Pcs
    <2> QED  BY <2>1, <2>2, NothingMeasured DEF Measured, Suite, ThreadsApplied, Pcs
  <1>7. CASE Exits \/ Dies \/ RenderReadme
    <2>1. suite' = Idle /\ (results' = <<>> \/ (results' = results /\ suite.pc \in {"aborted", "readme"}))
      <3>1. CASE Exits  BY <3>1 DEF Exits
      <3>2. CASE Dies  BY <3>2 DEF Dies
      <3>3. CASE RenderReadme  BY <3>3 DEF RenderReadme
      <3> QED  BY <1>7, <3>1, <3>2, <3>3
    <2>2. results' = <<>>  BY <2>1, <1>0 DEF Suite
    <2> QED  BY <2>1, <2>2, NothingMeasured DEF Measured, Suite, ThreadsApplied, Pcs, Idle
  <1>8. CASE SaveReport
    <2>1. results' = <<>> /\ suite.pc = "save" /\ (suite' = Idle \/ Step("docs"))
      BY <1>8 DEF SaveReport, Step
    <2>2. suite'.pc = "idle" \/ (suite'.pc = "docs" /\ suite' = [f \in Running |-> suite'[f]])
      BY <2>1, <1>0, StepKeeps DEF Pcs, Idle
    <2> QED  BY <2>1, <2>2, NothingMeasured DEF Measured, Suite, ThreadsApplied, Pcs
  <1>9. CASE RenderDocs
    <2>1. results' = results /\ Step("readme") /\ suite.pc = "docs"  BY <1>9 DEF RenderDocs
    <2>2. results' = <<>>  BY <2>1, <1>0 DEF Suite
    <2>3. suite'.pc = "readme" /\ suite' = [f \in Running |-> suite'[f]]
      BY <2>1, <1>0, StepKeeps DEF Pcs
    <2> QED  BY <2>2, <2>3, NothingMeasured DEF Measured, Suite, ThreadsApplied, Pcs
  <1>10. CASE Renders \/ UNCHANGED vars
    <2>1. suite' = suite /\ results' = results /\ torch_threads' = torch_threads
      BY <1>10 DEF Renders, measuring, vars
    <2> QED
      BY <2>1, <1>0, RowsKept, Zenon
      DEF Measured, Suite, ThreadsApplied, CaseThreads, Current, Effective
  <1> QED
    BY <1>1, <1>2, <1>3, <1>4, <1>5, <1>6, <1>7, <1>8, <1>9, <1>10 DEF Next

\* A row has the threads of its own case, whatever the cases before it did.
THEOREM ThreadsAreApplied == Spec => []ThreadsAreTheCases
  <1>1. Measured => ThreadsAreTheCases  BY DEF Measured
  <1> QED  BY MeasuredInit, MeasuredStep, <1>1, PTL DEF Spec

-----------------------------------------------------------------------------
(* The reports and what is made of them *)

\* What a report says of itself is what its rows say.
Truthful(report) ==
    /\ IsList(report.rows) /\ Honest(report.rows) /\ Wide(report.rows, report.threads)
    /\ report.best = Scored(report.rows)
    /\ report.contended = Cardinality(Contentions(report.rows))

\* Every report is that of an earlier suite, or of this one once it is saved.
Numbered ==
    /\ runs \in Nat /\ DOMAIN files \subseteq 1 .. runs
    /\ suite.pc # "idle" => runs > 0
    /\ suite.pc \in {"case", "loaded", "compiled", "prepared", "save"} => runs \notin DOMAIN files
    /\ suite.pc \in {"docs", "readme"} => runs \in DOMAIN files

Published ==
    /\ suite.pc = "readme" => Publishable(runs)
    /\ \A d \in {docs, readme} \ {None} : d \in DOMAIN files /\ Publishable(d)

Reports == Numbered /\ (\A n \in DOMAIN files : Truthful(files[n])) /\ Published

LEMMA LatestIsArchived ==
    ASSUME Numbered, Archived # {}
    PROVE  LatestReport \in Archived
  <1> DEFINE Later == {runs - n : n \in Archived}
             Before == OpToRel(<, Nat)
  <1>1. /\ Archived \subseteq Nat /\ runs \in Nat
        /\ \A n \in Archived : n \in 1 .. runs
    BY DEF Archived, Numbered
  <1>2. Later \subseteq Nat /\ Later # {}  BY <1>1
  <1>3. PICK first \in Later : \A k \in Later : <<k, first>> \notin Before
    BY <1>2, NatLessThanWellFounded, WFMin, Zenon
  <1>4. \A k \in Later : ~(k < first)  BY <1>2, <1>3 DEF OpToRel
  <1>5. PICK n \in Archived : first = runs - n  OBVIOUS
  <1>6. \A k \in Archived : k <= n
    <2> TAKE k \in Archived
    <2>1. runs - k \in Later  OBVIOUS
    <2>2. ~(runs - k < runs - n)  BY <1>4, <1>5, <2>1
    <2> HIDE DEF Later
    <2> QED  BY <1>1, <2>2
  <1> QED  BY <1>6 DEF LatestReport

LEMMA ReportsInit == Init => Reports
  BY DEF Init, Idle, Reports, Numbered, Published

\* Every action but four leaves the reports and the documents as they are.
LEMMA ReportsKept ==
    ASSUME Reports, suite.pc \in Pcs, UNCHANGED <<runs, files, docs, readme>>,
           \/ suite'.pc \in {"idle", "aborted"}
           \/ /\ suite'.pc \in {"case", "loaded", "compiled", "prepared", "save"}
              /\ suite.pc \in {"case", "loaded", "compiled", "prepared", "save"}
    PROVE  Reports'
  BY DEF Pcs, Reports, Numbered, Published, Publishable

LEMMA ReportsStep == Measured /\ Reports /\ [Next]_vars => Reports'
  <1> SUFFICES ASSUME Measured, Reports, [Next]_vars PROVE Reports'  OBVIOUS
  <1>0. Suite /\ Numbered /\ Published  BY DEF Measured, Reports
  <1>1. CASE \E s \in Subsets, t \in ThreadArgs, g \in Switches, quick, archived \in BOOLEAN :
                 Starts(s, t, g, quick, archived)
    <2>1. PICK s \in Subsets, t \in ThreadArgs, g \in Switches, quick \in BOOLEAN, archived \in BOOLEAN :
            Starts(s, t, g, quick, archived)
      BY <1>1
    <2>2. /\ runs' = runs + 1 /\ UNCHANGED <<files, docs, readme>> /\ suite.pc = "idle"
          /\ suite' = suite \/ suite' = Arguments(s, t, Given(g, quick), quick, archived)
      BY <2>1 DEF Starts, published
    <2>3. suite'.pc \in {"case", "idle"}  BY <2>2, StartedSuite
    <2>4. Numbered'  BY <2>2, <2>3, <1>0 DEF Numbered
    <2>5. Published'  BY <2>2, <2>3, <1>0 DEF Published, Publishable
    <2> QED  BY <2>2, <2>4, <2>5 DEF Reports
  <1>2. CASE LoadModel \/ MaybeCompile \/ SampleLoad
    <2>1. PICK pc \in {"loaded", "compiled", "prepared"} : Step(pc)
      BY <1>2 DEF LoadModel, MaybeCompile, SampleLoad
    <2>2. UNCHANGED <<runs, files, docs, readme>> /\ suite.pc \in {"case", "loaded", "compiled"}
      BY <1>2 DEF LoadModel, MaybeCompile, SampleLoad, published
    <2>3. suite'.pc = pc  BY <2>1, <2>2, <1>0, StepKeeps DEF Pcs
    <2> QED  BY <2>2, <2>3, ReportsKept DEF Pcs
  <1>3. CASE LoadFails("skipped") \/ LoadFails("failed") \/ Measure
    <2>1. UNCHANGED <<runs, files, docs, readme>> /\ suite' = NextCase
          /\ suite.pc \in {"case", "prepared"}
      BY <1>3 DEF LoadFails, Measure, published
    <2>2. suite'.pc \in {"case", "save"}  BY <2>1, <1>0, NextCaseKeeps DEF Pcs
    <2> QED  BY <2>1, <2>2, ReportsKept DEF Pcs
  <1>4. CASE MeasureRaises \/ Exits \/ Dies
    <2>1. UNCHANGED <<runs, files, docs, readme>> /\ suite.pc \in Pcs
          /\ (suite' = Idle \/ Step("aborted"))
      BY <1>4, <1>0 DEF MeasureRaises, Exits, Dies, published, Suite, Pcs
    <2>2. suite'.pc \in {"idle", "aborted"}  BY <2>1, <1>0, StepKeeps DEF Idle, Pcs
    <2> QED  BY <2>1, <2>2, ReportsKept DEF Pcs
  <1>5. CASE SaveReport
    <2> DEFINE report == [rows |-> results, archive |-> suite.archive, smoke |-> suite.smoke,
                          threads |-> suite.threads, best |-> Scored(results), cases |-> suite.cases,
                          contended |-> Cardinality(Contentions(results))]
    <2>1. /\ files' = [n \in DOMAIN files \cup {runs} |-> IF n # runs THEN files[n] ELSE report]
          /\ suite.pc = "save" /\ UNCHANGED <<runs, docs, readme>>
          /\ (suite' = Idle \/ Step("docs"))
      BY <1>5 DEF SaveReport, Step
    <2>2. suite'.pc \in {"idle", "docs"}  BY <2>1, <1>0, StepKeeps DEF Idle, Pcs
    <2>3. Truthful(report)  BY DEF Truthful, Measured, Suite
    <2> HIDE DEF report
    <2>4. /\ DOMAIN files' = DOMAIN files \cup {runs} /\ files'[runs] = report
          /\ \A n \in DOMAIN files : files'[n] = files[n]
      BY <2>1, <1>0 DEF Numbered
    <2>5. Numbered'
      <3>1. runs >= 1  BY <1>0, <2>1 DEF Numbered
      <3> QED  BY <2>1, <2>2, <2>4, <3>1, <1>0 DEF Numbered
    <2>6. Published'  BY <2>1, <2>2, <2>4, <1>0 DEF Published, Publishable
    <2>7. \A n \in DOMAIN files' : Truthful(files'[n])  BY <2>3, <2>4 DEF Reports
    <2> QED  BY <2>5, <2>6, <2>7, Zenon DEF Reports, Truthful, Honest, Wide, Scored, Contentions, IsList
  <1>6. CASE RenderDocs
    <2>1. /\ suite.pc = "docs" /\ Publishable(runs) /\ docs' = runs /\ Step("readme")
          /\ UNCHANGED <<runs, files, readme>>
      BY <1>6 DEF RenderDocs
    <2>2. suite'.pc = "readme"  BY <2>1, <1>0, StepKeeps DEF Pcs
    <2> QED  BY <2>1, <2>2, <1>0 DEF Reports, Numbered, Published, Publishable
  <1>7. CASE RenderReadme
    <2>1. /\ suite.pc = "readme" /\ readme' = runs /\ suite' = Idle /\ UNCHANGED <<runs, files, docs>>
      BY <1>7 DEF RenderReadme
    <2> QED  BY <2>1, <1>0 DEF Idle, Reports, Numbered, Published, Publishable
  <1>8. CASE Renders
    <2>1. /\ LatestReport \in Archived /\ Publishable(LatestReport)
          /\ docs' = LatestReport /\ readme' = LatestReport
          /\ UNCHANGED <<suite, runs, files>>
      BY <1>8, <1>0, LatestIsArchived DEF Renders, measuring
    <2>2. LatestReport \in DOMAIN files  BY <2>1 DEF Archived
    <2> HIDE DEF LatestReport
    <2> QED  BY <2>1, <2>2, <1>0 DEF Reports, Numbered, Published, Publishable
  <1>9. CASE UNCHANGED vars
    BY <1>9, <1>0, Zenon DEF vars, measuring, published, Reports, Numbered, Published, Publishable
  <1> QED
    BY <1>1, <1>2, <1>3, <1>4, <1>5, <1>6, <1>7, <1>8, <1>9 DEF Next

LEMMA ReportsHold == Spec => [](Measured /\ Reports)
  <1>1. Init => Measured /\ Reports  BY MeasuredInit, ReportsInit
  <1>2. Measured /\ Reports /\ [Next]_vars => (Measured /\ Reports)'
    BY MeasuredStep, ReportsStep
  <1> QED  BY <1>1, <1>2, PTL DEF Spec

\* No quick run is ever in the documents, by either way of rendering.
THEOREM QuickRunsStayOut == Spec => []SmokeNeverPublished
  <1>1. Reports => SmokeNeverPublished  BY DEF Reports, Published, Publishable, SmokeNeverPublished
  <1> QED  BY ReportsHold, <1>1, PTL

\* Accuracy is only claimed of weights that were trained.
THEOREM NoScoreOfRandomWeights == Spec => []BestIsMeasured
  <1>1. Reports => BestIsMeasured
    BY DEF Reports, Truthful, Honest, BestIsMeasured, Scored, accuracy_detail_table, MainTable, Timed
  <1> QED  BY ReportsHold, <1>1, PTL

\* With a count given, what a runtime comparison sets side by side had that count.
THEOREM ComparisonsAreFair == Spec => []ComparesLikeWithLike
  <1>1. ASSUME NEW report, Truthful(report), report.threads > 0, NEW pair \in Compared(report.rows)
        PROVE  report.rows[pair[1]].threads = report.rows[pair[2]].threads
    <2>1. pair[1] \in MainTable(report.rows) /\ pair[2] \in MainTable(report.rows)
      BY <1>1 DEF Compared
    <2> QED  BY <1>1, <2>1 DEF Truthful, Wide, MainTable, Timed
  <1>2. Reports => ComparesLikeWithLike  BY <1>1 DEF Reports, ComparesLikeWithLike
  <1> QED  BY ReportsHold, <1>2, PTL

\* A report's rows were measured as they say, and only what was measured alike is set
\* side by side.
THEOREM RowsAreTrue == Spec => []RowsAreAsMeasured
  BY ThreadsAreApplied, ComparisonsAreFair, NoScoreOfRandomWeights, QuickRunsStayOut, PTL
  DEF RowsAreAsMeasured

-----------------------------------------------------------------------------
(* The cases *)

Names == {"trivial-ones", "trivial-center", "classical-saliency", "classical",
          "classical-saliency-grabcut", "cutoutnet-tiny", "cutoutnet", "cutoutnet-base",
          "u2net-lite", "cutoutnet-onnx", "u2netp", "u2netp-onnx", "u2net", "u2net-onnx",
          "birefnet"}

\* A case is compiled under PyTorch and with the run's own threads only, and only the
\* sweep leaves accuracy out.
Planned ==
    {c \in [model : Names, runtime : {"numpy", "onnxruntime", "pytorch"}, batch : Nat,
            random : BOOLEAN, compile : BOOLEAN, threads : (Nat \ {0}) \cup {RunWide},
            accuracy : BOOLEAN] :
        /\ c.compile => c.runtime = "pytorch"
        /\ c.accuracy <=> c.threads = RunWide}

\* A row claims what its case is: its label is of the runtime it ran, it was scored
\* unless the case says otherwise, and it has a load sample exactly if it was measured.
Faithful(row) ==
    /\ row \in Row
    /\ row.load = "none" <=> row.status # "ok"
    /\ row.status = "ok" => /\ \E compiled \in BOOLEAN : row.label = RuntimeLabel(row.case, compiled)
                            /\ row.scored = AccuracyValid(row.case)

\* The rows are those of the first cases, in their order.
Reported(rows, cases) ==
    /\ rows \in Seq(Row) /\ cases \in Seq(Cases) /\ Len(rows) <= Len(cases)
    /\ \A k \in 1 .. Len(rows) : Faithful(rows[k]) /\ rows[k].case = cases[k]

Busy == {"case", "loaded", "compiled", "prepared"}

InOrder ==
    /\ Reported(results, suite.cases)
    /\ suite.pc \in Pcs => suite.threads \in Nat
    /\ suite.pc \in Busy => suite.next \in 1 .. Len(suite.cases) /\ Len(results) = suite.next - 1
    /\ suite.pc = "save" => Len(results) = Len(suite.cases)

Loaded ==
    /\ torch_threads \in Nat \ {0} /\ mishaps \in 0 .. MaxMishaps /\ runs \in 0 .. MaxRuns
    /\ model.case \in Cases \cup {None}
    /\ suite.pc \in {"compiled", "prepared"} => model.compiled \in BOOLEAN
    /\ suite.pc = "prepared" => model.load \in {"quiet", "contended"}

Complete ==
    \A n \in DOMAIN files :
        /\ Reported(files[n].rows, files[n].cases)
        /\ Len(files[n].rows) = Len(files[n].cases)

Kept == InOrder /\ Loaded /\ Complete

LEMMA RankIsOneToOne ==
    ASSUME NEW kept \in SUBSET Nat, IsFiniteSet(kept)
    PROVE  \A p \in 1 .. Cardinality(kept) :
               \E n \in kept : Cardinality({k \in kept : k <= n}) = p
  <1> DEFINE upto(n) == {k \in kept : k <= n}
             place == [n \in kept |-> Cardinality(upto(n))]
             c == Cardinality(kept)
  <1>1. c \in Nat  BY FS_CardinalityType
  <1>2. \A n \in kept : IsFiniteSet(upto(n)) /\ Cardinality(upto(n)) \in Nat
                        /\ Cardinality(upto(n)) <= c /\ Cardinality(upto(n)) # 0
    <2> TAKE n \in kept
    <2>1. upto(n) \in SUBSET kept /\ n \in upto(n)  OBVIOUS
    <2> HIDE DEF upto
    <2>2. IsFiniteSet(upto(n)) /\ Cardinality(upto(n)) <= c  BY <2>1, FS_Subset
    <2>3. Cardinality(upto(n)) \in Nat  BY <2>2, FS_CardinalityType
    <2> QED  BY <2>1, <2>2, <2>3, FS_EmptySet
  <1>3. place \in [kept -> 1 .. c]
    <2> HIDE DEF upto, c
    <2> QED  BY <1>1, <1>2
  <1>4. ASSUME NEW m \in kept, NEW n \in kept, m < n PROVE place[m] # place[n]
    <2>0. m \in Nat /\ n \in Nat /\ \A k \in kept : k \in Nat  OBVIOUS
    <2>1. upto(m) \in SUBSET upto(n)
      <3> SUFFICES ASSUME NEW k \in upto(m) PROVE k \in upto(n)  OBVIOUS
      <3>1. k \in kept /\ k <= m  OBVIOUS
      <3>2. k <= n  BY <1>4, <2>0, <3>1
      <3> QED  BY <3>1, <3>2
    <2>2. n \in upto(n) /\ n \notin upto(m)  BY <1>4, <2>0
    <2> HIDE DEF upto
    <2>3. Cardinality(upto(n)) # Cardinality(upto(m))  BY <1>2, <2>1, <2>2, FS_Subset
    <2> QED  BY <2>3
  <1>5. \A m, n \in kept : place[m] = place[n] => m = n
    <2> TAKE m, n \in kept
    <2>1. m < n \/ n < m \/ m = n  OBVIOUS
    <2> HIDE DEF place
    <2> QED  BY <2>1, <1>4
  <1> HIDE DEF place
  <1>6. place \in Injection(kept, 1 .. c)  BY <1>3, <1>5, Fun_IsInj, Zenon
  <1>7. IsFiniteSet(1 .. c) /\ Cardinality(1 .. c) = c  BY <1>1, FS_Interval
  <1>8. place \in Surjection(kept, 1 .. c)  BY <1>6, <1>7, FS_Injection
  <1> HIDE DEF c
  <1>9. \A p \in 1 .. c : \E n \in kept : place[n] = p
    BY <1>8 DEF Surjection
  <1> QED  BY <1>9 DEF place, c

\* The cases asked for are cases of the suite.
LEMMA WantedCases ==
    ASSUME NEW S, NEW cases \in Seq(S), NEW asked
    PROVE  Wanted(cases, asked) \in Seq(S)
  <1> DEFINE kept == {n \in DOMAIN cases : cases[n].model \in asked.models \/ cases[n] \in asked.labels}
             nth(p) == CHOOSE n \in kept : Cardinality({k \in kept : k <= n}) = p
  <1>1. DOMAIN cases = 1 .. Len(cases) /\ Len(cases) \in Nat  OBVIOUS
  <1>2. kept \in SUBSET (1 .. Len(cases))  BY <1>1
  <1>3. Wanted(cases, asked) = [p \in 1 .. Cardinality(kept) |-> cases[nth(p)]]
    BY Zenon DEF Wanted
  <1> HIDE DEF kept
  <1>4. IsFiniteSet(1 .. Len(cases))  BY <1>1, FS_Interval
  <1>5. IsFiniteSet(kept)  BY <1>2, <1>4, FS_Subset
  <1>6. kept \in SUBSET Nat  BY <1>1, <1>2
  <1>7. Cardinality(kept) \in Nat  BY <1>5, FS_CardinalityType
  <1>8. \A p \in 1 .. Cardinality(kept) : nth(p) \in kept  BY <1>5, <1>6, RankIsOneToOne, Zenon
  <1> HIDE DEF nth
  <1>9. \A n \in 1 .. Len(cases) : cases[n] \in S  OBVIOUS
  <1>10. \A p \in 1 .. Cardinality(kept) : cases[nth(p)] \in S  BY <1>2, <1>8, <1>9
  <1> DEFINE f == [p \in 1 .. Cardinality(kept) |-> cases[nth(p)]]
  <1>11. f \in [1 .. Cardinality(kept) -> S]  BY <1>10
  <1> HIDE DEF f
  <1>12. f \in Seq(S)  BY <1>7, <1>11, SeqDef
  <1> QED  BY <1>3, <1>12 DEF f

LEMMA CasesArePlanned ==
    /\ EveryModel \in Seq(Planned) /\ Compiled \in Seq(Planned) /\ Batches \in Seq(Planned)
    /\ thread_scaling_cases \in Seq(Planned)
  <1> HIDE BenchmarksAssumption
  <1>1. /\ \A m \in Names : Of(m) \in Planned
        /\ \A m \in Names : Onnx(m) \in Planned
        /\ \A m \in Names : Numpy(m) \in Planned
    BY DEF Of, Onnx, Numpy, Case, Planned, RunWide
  <1>2. /\ \A m \in Names : [Of(m) EXCEPT !.random = TRUE] \in Planned
        /\ \A m \in Names : [Of(m) EXCEPT !.compile = TRUE] \in Planned
        /\ \A m \in Names, b \in Nat : [Of(m) EXCEPT !.compile = TRUE, !.batch = b] \in Planned
        /\ \A m \in Names, b \in Nat : [Of(m) EXCEPT !.batch = b] \in Planned
        /\ \A m \in Names, b \in Nat : [Onnx(m) EXCEPT !.batch = b] \in Planned
    BY DEF Of, Onnx, Case, Planned, RunWide
  <1>3. ASSUME NEW c \in {Of("cutoutnet"), Onnx("cutoutnet-onnx")}
        PROVE  [n \in DOMAIN Rungs |-> [c EXCEPT !.threads = Rungs[n], !.accuracy = FALSE]] \in Seq(Planned)
    <2>1. c \in Planned /\ ~c.compile
      <3>1. Of("cutoutnet") \in Planned /\ Onnx("cutoutnet-onnx") \in Planned
        BY <1>1 DEF Names
      <3>2. ~Of("cutoutnet").compile /\ ~Onnx("cutoutnet-onnx").compile  BY DEF Of, Onnx, Case
      <3> QED  BY <1>3, <3>1, <3>2
    <2>2. DOMAIN Rungs = 1 .. Len(Rungs) /\ Len(Rungs) \in Nat /\ \A n \in DOMAIN Rungs : Rungs[n] \in Nat \ {0}
      BY BenchmarksAssumption
    <2> DEFINE rung(t) == [c EXCEPT !.threads = t, !.accuracy = FALSE]
    <2>3. ASSUME NEW t \in Nat \ {0} PROVE rung(t) \in Planned
      <3>1. rung(t) \in [model : Names, runtime : {"numpy", "onnxruntime", "pytorch"}, batch : Nat,
                         random : BOOLEAN, compile : BOOLEAN, threads : (Nat \ {0}) \cup {RunWide},
                         accuracy : BOOLEAN]
        BY <2>1, <2>3 DEF Planned
      <3>2. rung(t).compile = c.compile /\ rung(t).threads = t /\ rung(t).accuracy = FALSE
        BY <2>1 DEF Planned
      <3>3. t # RunWide  BY <2>3 DEF RunWide
      <3> HIDE DEF rung
      <3> QED  BY <2>1, <3>1, <3>2, <3>3 DEF Planned
    <2> DEFINE f == [n \in 1 .. Len(Rungs) |-> rung(Rungs[n])]
    <2> HIDE DEF rung
    <2>4. f \in [1 .. Len(Rungs) -> Planned]  BY <2>2, <2>3
    <2> HIDE DEF f
    <2>5. f \in Seq(Planned)  BY <2>2, <2>4, SeqDef
    <2> QED  BY <2>2, <2>5 DEF f, rung
  <1>4. EveryModel \in Seq(Planned)
    <2>1. /\ Numpy("trivial-ones") \in Planned /\ Numpy("trivial-center") \in Planned
          /\ Numpy("classical-saliency") \in Planned /\ Numpy("classical") \in Planned
          /\ Numpy("classical-saliency-grabcut") \in Planned
      BY <1>1 DEF Names
    <2>2. /\ Of("cutoutnet-tiny") \in Planned /\ Of("cutoutnet") \in Planned
          /\ Of("cutoutnet-base") \in Planned /\ Of("u2net-lite") \in Planned
          /\ Of("u2netp") \in Planned /\ Of("u2net") \in Planned
      BY <1>1 DEF Names
    <2>3. /\ Onnx("cutoutnet-onnx") \in Planned /\ Onnx("u2netp-onnx") \in Planned
          /\ Onnx("u2net-onnx") \in Planned
      BY <1>1 DEF Names
    <2>4. [Of("birefnet") EXCEPT !.random = TRUE] \in Planned  BY <1>2 DEF Names
    <2> QED  BY <2>1, <2>2, <2>3, <2>4 DEF EveryModel
  <1>5. Compiled \in Seq(Planned)
    <2>1. [Of("cutoutnet") EXCEPT !.compile = TRUE] \in Planned  BY <1>2 DEF Names
    <2>2. [Of("cutoutnet") EXCEPT !.compile = TRUE, !.batch = 8] \in Planned  BY <1>2 DEF Names
    <2> QED  BY <2>1, <2>2 DEF Compiled
  <1>6. Batches \in Seq(Planned)
    <2>1. /\ [Of("cutoutnet") EXCEPT !.batch = 4] \in Planned
          /\ [Of("cutoutnet") EXCEPT !.batch = 8] \in Planned
      BY <1>2 DEF Names
    <2>2. [Onnx("cutoutnet-onnx") EXCEPT !.batch = 8] \in Planned  BY <1>2 DEF Names
    <2> QED  BY <2>1, <2>2 DEF Batches
  <1>7. thread_scaling_cases \in Seq(Planned)
    <2> DEFINE sweep(c) == [n \in DOMAIN Rungs |-> [c EXCEPT !.threads = Rungs[n], !.accuracy = FALSE]]
    <2>1. sweep(Of("cutoutnet")) \in Seq(Planned) /\ sweep(Onnx("cutoutnet-onnx")) \in Seq(Planned)
      BY <1>3
    <2>2. thread_scaling_cases = sweep(Of("cutoutnet")) \o sweep(Onnx("cutoutnet-onnx"))
      BY DEF thread_scaling_cases
    <2> HIDE DEF sweep
    <2> QED  BY <2>1, <2>2, ConcatProperties
  <1> QED  BY <1>4, <1>5, <1>6, <1>7

LEMMA DefaultCases ==
    ASSUME NEW compile \in BOOLEAN, NEW batches \in BOOLEAN, NEW threads \in BOOLEAN
    PROVE  default_cases(compile, batches, threads) \in Seq(Cases)
  <1>1. /\ EveryModel \in Seq(Planned) /\ Compiled \in Seq(Planned) /\ Batches \in Seq(Planned)
        /\ thread_scaling_cases \in Seq(Planned) /\ <<>> \in Seq(Planned)
    BY CasesArePlanned
  <1>2. Cases = (Range(EveryModel) \cup Range(Compiled)) \cup Range(Batches) \cup Range(thread_scaling_cases)
    <2>1. EveryModel \o Compiled \in Seq(Planned) /\ (EveryModel \o Compiled) \o Batches \in Seq(Planned)
      BY <1>1, ConcatProperties
    <2>2. Range(EveryModel \o Compiled) = Range(EveryModel) \cup Range(Compiled)
      BY <1>1, RangeConcatenation
    <2> HIDE BenchmarksAssumption
    <2>3. Range((EveryModel \o Compiled) \o Batches) = Range(EveryModel \o Compiled) \cup Range(Batches)
      BY <1>1, <2>1, RangeConcatenation
    <2>4. Range(((EveryModel \o Compiled) \o Batches) \o thread_scaling_cases)
            = Range((EveryModel \o Compiled) \o Batches) \cup Range(thread_scaling_cases)
      BY <1>1, <2>1, RangeConcatenation
    <2>5. Cases = Range(((EveryModel \o Compiled) \o Batches) \o thread_scaling_cases)
      BY DEF Cases, default_cases
    <2> QED  BY <2>2, <2>3, <2>4, <2>5, Zenon
  <1>3. /\ EveryModel \in Seq(Cases) /\ Compiled \in Seq(Cases) /\ Batches \in Seq(Cases)
        /\ thread_scaling_cases \in Seq(Cases)
    <2>1. ASSUME NEW s \in Seq(Planned), Range(s) \subseteq Cases PROVE s \in Seq(Cases)
      <3>1. s \in Seq(Range(s))  BY SeqOfRange
      <3> QED  BY <3>1, <2>1
    <2> QED  BY <1>1, <1>2, <2>1
  <1> DEFINE a == IF compile THEN Compiled ELSE <<>>
             b == IF batches THEN Batches ELSE <<>>
             c == IF threads THEN thread_scaling_cases ELSE <<>>
  <1>4. a \in Seq(Cases) /\ b \in Seq(Cases) /\ c \in Seq(Cases)
    <2>1. <<>> \in Seq(Cases)  BY EmptySeq
    <2> QED  BY <1>3, <2>1
  <1>5. default_cases(compile, batches, threads) = ((EveryModel \o a) \o b) \o c
    BY Zenon DEF default_cases
  <1> HIDE DEF a, b, c
  <1>6. EveryModel \o a \in Seq(Cases)  BY <1>3, <1>4, ConcatProperties
  <1>7. (EveryModel \o a) \o b \in Seq(Cases)  BY <1>4, <1>6, ConcatProperties
  <1> QED  BY <1>4, <1>5, <1>7, ConcatProperties

LEMMA EachCase == Cases \subseteq Planned
  <1>1. EveryModel \o Compiled \in Seq(Planned)  BY CasesArePlanned, ConcatProperties
  <1>2. (EveryModel \o Compiled) \o Batches \in Seq(Planned)  BY <1>1, CasesArePlanned, ConcatProperties
  <1>3. ((EveryModel \o Compiled) \o Batches) \o thread_scaling_cases \in Seq(Planned)
    BY <1>2, CasesArePlanned, ConcatProperties
  <1>4. default_cases(TRUE, TRUE, TRUE) \in Seq(Planned)  BY <1>3 DEF default_cases
  <1> QED  BY <1>4, RangeOfSeq DEF Cases

-----------------------------------------------------------------------------
(* Every case has its row *)

LEMMA NothingReported ==
    ASSUME NEW cases \in Seq(Cases)
    PROVE  Reported(<<>>, cases) /\ Len(<<>>) = 0
  BY DEF Reported

LEMMA AppendReported ==
    ASSUME NEW rows, NEW cases, NEW row, Reported(rows, cases), Len(rows) < Len(cases),
           Faithful(row), row.case = cases[Len(rows) + 1]
    PROVE  Reported(Append(rows, row), cases) /\ Len(Append(rows, row)) = Len(rows) + 1
  <1>1. rows \in Seq(Row) /\ row \in Row /\ cases \in Seq(Cases)  BY DEF Reported, Faithful
  <1>2. /\ Append(rows, row) \in Seq(Row) /\ Len(Append(rows, row)) = Len(rows) + 1
        /\ \A n \in 1 .. Len(rows) : Append(rows, row)[n] = rows[n]
        /\ Append(rows, row)[Len(rows) + 1] = row
    BY <1>1, AppendProperties
  <1>3. Len(rows) \in Nat /\ Len(cases) \in Nat  BY <1>1
  <1>4. ASSUME NEW k \in 1 .. Len(Append(rows, row))
        PROVE  Faithful(Append(rows, row)[k]) /\ Append(rows, row)[k].case = cases[k]
    <2>1. k \in 1 .. Len(rows) \/ k = Len(rows) + 1  BY <1>2, <1>3
    <2> QED  BY <1>2, <2>1 DEF Reported
  <1> QED  BY <1>1, <1>2, <1>3, <1>4 DEF Reported

LEMMA UnmeasuredIsFaithful ==
    ASSUME NEW c \in Cases, NEW status \in {"skipped", "failed"}
    PROVE  Faithful(Unmeasured(c, status)) /\ Unmeasured(c, status).case = c
  BY DEF Unmeasured, Faithful, Row

LEMMA MeasuredIsFaithful ==
    ASSUME NEW c \in Cases, NEW compiled \in BOOLEAN, NEW threads \in Nat,
           NEW load \in {"quiet", "contended"}, NEW row,
           row = [case |-> c, status |-> "ok", threads |-> threads, scored |-> AccuracyValid(c),
                  label |-> RuntimeLabel(c, compiled), load |-> load]
    PROVE  Faithful(row) /\ row.case = c
  <1>1. c.runtime \in {"numpy", "onnxruntime", "pytorch"}  BY EachCase DEF Planned
  <1>2. RuntimeLabel(c, compiled) \in {"none", "numpy", "onnxruntime", "pytorch-eager",
                                       "pytorch-compile", "pytorch-eager (compile failed)"}
    BY <1>1 DEF RuntimeLabel
  <1>3. AccuracyValid(c) \in BOOLEAN  BY DEF AccuracyValid
  <1>4. row \in Row  BY <1>2, <1>3 DEF Row
  <1>5. row.case = c /\ row.label = RuntimeLabel(c, compiled) /\ row.scored = AccuracyValid(c)
    OBVIOUS
  <1> QED  BY <1>4, <1>5 DEF Faithful

LEMMA NextCaseMoves ==
    ASSUME Suite, suite.pc \in Pcs, suite' = NextCase
    PROVE  /\ suite'.cases = suite.cases /\ suite'.threads = suite.threads
           /\ \/ suite'.pc = "case" /\ suite.next < Len(suite.cases) /\ suite'.next = suite.next + 1
              \/ suite'.pc = "save" /\ ~(suite.next < Len(suite.cases))
  <1>1. suite = [f \in Running |-> suite[f]]  BY DEF Suite
  <1>2. DOMAIN suite = Running  BY <1>1
  <1> QED  BY <1>1, <1>2 DEF Running, NextCase

LEMMA CurrentCase ==
    ASSUME InOrder, suite.pc \in Busy
    PROVE  Current \in Cases /\ Current = suite.cases[Len(results) + 1] /\ Len(results) < Len(suite.cases)
  <1>1. suite.cases \in Seq(Cases) /\ results \in Seq(Row)  BY DEF InOrder, Reported
  <1>2. suite.next \in 1 .. Len(suite.cases) /\ Len(results) = suite.next - 1  BY DEF InOrder
  <1>3. Len(suite.cases) \in Nat  BY <1>1
  <1>4. suite.cases[suite.next] \in Cases  BY <1>1, <1>2
  <1> QED  BY <1>2, <1>3, <1>4 DEF Current

\* A row is added and the suite goes to its next case.
LEMMA RowInOrder ==
    ASSUME Suite, InOrder, suite.pc \in Busy, suite' = NextCase, NEW row,
           results' = Recorded(results, row), Faithful(row), row.case = Current
    PROVE  InOrder'
  <1>1. Current = suite.cases[Len(results) + 1] /\ Len(results) < Len(suite.cases)  BY CurrentCase
  <1>2. Reported(results, suite.cases)  BY DEF InOrder
  <1>3. Reported(results', suite.cases) /\ Len(results') = Len(results) + 1
    BY <1>1, <1>2, AppendReported DEF Recorded
  <1>4. /\ suite'.cases = suite.cases /\ suite'.threads = suite.threads
        /\ \/ suite'.pc = "case" /\ suite.next < Len(suite.cases) /\ suite'.next = suite.next + 1
           \/ suite'.pc = "save" /\ ~(suite.next < Len(suite.cases))
    BY NextCaseMoves DEF Busy, Pcs
  <1>5. /\ suite.next \in 1 .. Len(suite.cases) /\ Len(results) = suite.next - 1
        /\ suite.threads \in Nat
    BY DEF InOrder, Busy, Pcs
  <1>6. Len(suite.cases) \in Nat  BY <1>2 DEF Reported
  <1>7. Reported(results, suite.cases)'  BY <1>3, <1>4, Zenon DEF Reported, Faithful
  <1>8. suite'.pc \in Busy => suite'.next \in 1 .. Len(suite'.cases) /\ Len(results') = suite'.next - 1
    <2> SUFFICES ASSUME suite'.pc \in Busy
                 PROVE  suite'.next \in 1 .. Len(suite'.cases) /\ Len(results') = suite'.next - 1
      OBVIOUS
    <2>1. suite.next < Len(suite.cases) /\ suite'.next = suite.next + 1 /\ suite'.cases = suite.cases
      BY <1>4 DEF Busy
    <2>2. suite'.next \in 1 .. Len(suite.cases)  BY <2>1, <1>5, <1>6
    <2>3. Len(results') = suite'.next - 1  BY <2>1, <1>3, <1>5
    <2> QED  BY <2>1, <2>2, <2>3
  <1>9. suite'.pc = "save" => Len(results') = Len(suite'.cases)  BY <1>3, <1>4, <1>5, <1>6
  <1> QED  BY <1>4, <1>5, <1>7, <1>8, <1>9 DEF InOrder

\* The suite moves on within a case, or leaves the cases behind.
LEMMA StaysInOrder ==
    ASSUME Suite, InOrder, suite.pc \in Pcs, NEW pc \in Pcs, Step(pc),
           \/ pc \in Busy /\ suite.pc \in Busy /\ results' = results
           \/ pc \in {"docs", "readme", "aborted"} /\ results' = <<>>
    PROVE  InOrder'
  <1>1. /\ suite'.pc = pc /\ suite'.cases = suite.cases /\ suite'.threads = suite.threads
        /\ suite'.next = suite.next
    BY StepKeeps DEF Running
  <1>2. Reported(results, suite.cases) /\ suite.cases \in Seq(Cases) /\ suite.threads \in Nat
    BY DEF InOrder, Reported
  <1>3. CASE pc \in Busy /\ suite.pc \in Busy /\ results' = results
    <2>1. Reported(results, suite.cases)'  BY <1>1, <1>2, <1>3, Zenon
    <2>2. suite'.pc # "save"  BY <1>1, <1>3 DEF Busy
    <2> QED  BY <1>1, <1>2, <1>3, <2>1, <2>2 DEF InOrder
  <1>4. CASE pc \in {"docs", "readme", "aborted"} /\ results' = <<>>
    <2>1. Reported(results, suite.cases)'  BY <1>1, <1>2, <1>4, NothingReported
    <2>2. suite'.pc \notin Busy \cup {"save"}  BY <1>1, <1>4 DEF Busy
    <2> QED  BY <1>1, <1>2, <2>1, <2>2 DEF InOrder
  <1> QED  BY <1>3, <1>4

LEMMA IdleIsInOrder ==
    ASSUME suite' = Idle, results' = <<>>
    PROVE  InOrder'
  <1>1. suite'.pc = "idle" /\ suite'.cases = <<>>  BY DEF Idle
  <1>2. <<>> \in Seq(Cases)  BY EmptySeq
  <1>3. Reported(results, suite.cases)'  BY <1>1, <1>2, NothingReported
  <1> QED  BY <1>1, <1>3 DEF InOrder, Pcs, Busy

LEMMA InOrderInit == Init => InOrder
  <1> SUFFICES ASSUME Init PROVE InOrder  OBVIOUS
  <1>1. suite.pc = "idle" /\ suite.cases = <<>> /\ results = <<>>  BY DEF Init, Idle
  <1>2. <<>> \in Seq(Cases)  BY EmptySeq
  <1>3. Reported(results, suite.cases)  BY <1>1, <1>2, NothingReported
  <1> QED  BY <1>1, <1>3 DEF InOrder, Pcs, Busy

LEMMA StartsInOrder ==
    ASSUME Suite, InOrder, NEW s, NEW t \in ThreadArgs, NEW g, NEW quick \in BOOLEAN,
           NEW archived \in BOOLEAN, Starts(s, t, g, quick, archived)
    PROVE  InOrder'
  <1> DEFINE given == Given(g, quick)
             cases == Wanted(default_cases("no_compile" \notin given, "no_batches" \notin given,
                                           "no_threads" \notin given), s)
             args == Arguments(s, t, given, quick, archived)
  <1>1. cases \in Seq(Cases)
    <2>1. default_cases("no_compile" \notin given, "no_batches" \notin given,
                        "no_threads" \notin given) \in Seq(Cases)
      BY DefaultCases
    <2> QED  BY <2>1, WantedCases
  <1>2. args.cases = cases /\ args.pc = "case" /\ args.next = 1 /\ args.threads = t
    BY DEF Arguments
  <1>3. results' = <<>> /\ suite.pc = "idle"
        /\ IF args.cases = <<>> THEN UNCHANGED suite ELSE suite' = args
    BY DEF Starts
  <1> HIDE DEF cases, args
  <1>4. CASE args.cases = <<>>
    <2>1. suite' = suite  BY <1>3, <1>4
    <2>2. Reported(results, suite.cases)'
      BY <1>3, <2>1, NothingReported DEF InOrder, Reported
    <2> QED  BY <1>3, <2>1, <2>2 DEF InOrder, Pcs, Busy
  <1>5. CASE args.cases # <<>>
    <2>1. suite' = args  BY <1>3, <1>5
    <2>2. Len(cases) \in Nat \ {0}  BY <1>1, <1>2, <1>5, EmptySeq
    <2>3. Reported(results, suite.cases)' /\ Len(results') = 0
      BY <1>1, <1>2, <1>3, <2>1, NothingReported
    <2>4. t \in Nat  OBVIOUS
    <2> QED  BY <1>2, <2>1, <2>2, <2>3, <2>4 DEF InOrder, Busy
  <1> QED  BY <1>4, <1>5

LEMMA LoadedInit == Init => Loaded
  BY DEF Init, Idle, Loaded, Unloaded

\* An action that starts nothing and loads no model.
LEMMA LoadedKept ==
    ASSUME Loaded, torch_threads' = torch_threads, runs' = runs,
           mishaps' = mishaps \/ Mishap,
           model' = model \/ model' = Unloaded,
           suite'.pc \notin {"compiled", "prepared"} \/ (suite'.pc = suite.pc /\ model' = model)
    PROVE  Loaded'
  <1>1. mishaps' \in 0 .. MaxMishaps
    BY DEF Loaded, Mishap
  <1>2. model'.case \in Cases \cup {None}  BY DEF Loaded, Unloaded
  <1> QED  BY <1>1, <1>2 DEF Loaded

LEMMA ThreadsInEffect ==
    ASSUME Loaded, InOrder, suite.pc \in Busy
    PROVE  /\ CaseThreads(Current) \in Nat
           /\ Effective(CaseThreads(Current)) \in Nat \ {0}
           /\ EffectiveThreads(Current) \in Nat
  <1>1. Current \in Planned /\ suite.threads \in Nat
    BY CurrentCase, EachCase DEF InOrder, Busy, Pcs
  <1>2. Cores.torch \in Nat \ {0} /\ Cores.onnx \in Nat \ {0}  OBVIOUS
  <1>3. Current.threads \in (Nat \ {0}) \cup {RunWide}  BY <1>1 DEF Planned
  <1>4. CaseThreads(Current) \in Nat  BY <1>1, <1>3 DEF CaseThreads
  <1>5. torch_threads \in Nat  BY DEF Loaded
  <1> QED  BY <1>2, <1>4, <1>5 DEF Effective, EffectiveThreads, HandedOver

LEMMA LoadedStep == Suite /\ InOrder /\ Loaded /\ [Next]_vars => Loaded'
  <1> SUFFICES ASSUME Suite, InOrder, Loaded, [Next]_vars PROVE Loaded'  OBVIOUS
  <1>0. Cores.torch \in Nat \ {0} /\ MaxRuns \in Nat /\ MaxMishaps \in Nat  OBVIOUS
  <1>1. CASE \E s \in Subsets, t \in ThreadArgs, g \in Switches, quick, archived \in BOOLEAN :
                 Starts(s, t, g, quick, archived)
    <2>1. PICK s \in Subsets, t \in ThreadArgs, g \in Switches, quick \in BOOLEAN, archived \in BOOLEAN :
            Starts(s, t, g, quick, archived)
      BY <1>1
    <2>2. /\ runs' = runs + 1 /\ runs < MaxRuns /\ torch_threads' = Effective(t) /\ suite.pc = "idle"
          /\ suite' = suite \/ suite' = Arguments(s, t, Given(g, quick), quick, archived)
          /\ model' = model /\ mishaps' = mishaps
      BY <2>1 DEF Starts
    <2>3. suite'.pc \in {"case", "idle"}  BY <2>2, StartedSuite
    <2>4. t \in Nat  OBVIOUS
    <2>5. torch_threads' \in Nat \ {0}  BY <1>0, <2>2, <2>4 DEF Effective
    <2>6. runs' \in 0 .. MaxRuns  BY <1>0, <2>2 DEF Loaded
    <2> QED  BY <2>2, <2>3, <2>5, <2>6 DEF Loaded
  <1>2. CASE LoadModel
    <2>1. /\ suite.pc = "case" /\ Step("loaded") /\ runs' = runs /\ mishaps' = mishaps
          /\ torch_threads' = Effective(CaseThreads(Current)) /\ model' = [case |-> Current]
      BY <1>2 DEF LoadModel, ApplyThreads
    <2>2. suite'.pc = "loaded"  BY <2>1, StepKeeps DEF Pcs
    <2>3. torch_threads' \in Nat \ {0} /\ Current \in Cases
      BY <2>1, ThreadsInEffect, CurrentCase DEF Busy
    <2>4. model'.case = Current  BY <2>1
    <2> QED  BY <2>1, <2>2, <2>3, <2>4 DEF Loaded
  <1>3. ASSUME NEW status \in {"skipped", "failed"}, LoadFails(status) PROVE Loaded'
    <2>1. /\ suite.pc = "case" /\ suite' = NextCase /\ runs' = runs /\ model' = model /\ Mishap
          /\ torch_threads' = Effective(CaseThreads(Current))
      BY <1>3 DEF LoadFails, ApplyThreads
    <2>2. suite'.pc \in {"case", "save"}  BY <2>1, NextCaseKeeps DEF Pcs
    <2>3. torch_threads' \in Nat \ {0}  BY <2>1, ThreadsInEffect DEF Busy
    <2>4. mishaps' \in 0 .. MaxMishaps  BY <1>0, <2>1 DEF Mishap, Loaded
    <2> QED  BY <2>1, <2>2, <2>3, <2>4 DEF Loaded
  <1>4. CASE MaybeCompile
    <2>1. PICK compiled \in CompileOutcomes(Current) :
            /\ model' = [case |-> Current, compiled |-> compiled]
            /\ IF Current.compile => compiled THEN UNCHANGED mishaps ELSE Mishap
      BY <1>4 DEF MaybeCompile
    <2>2. /\ suite.pc = "loaded" /\ Step("compiled") /\ runs' = runs
          /\ torch_threads' = torch_threads
      BY <1>4 DEF MaybeCompile
    <2>3. compiled \in BOOLEAN  BY <2>1 DEF CompileOutcomes
    <2>4. suite'.pc = "compiled"  BY <2>2, StepKeeps DEF Pcs
    <2>5. mishaps' \in 0 .. MaxMishaps  BY <1>0, <2>1 DEF Mishap, Loaded
    <2>6. Current \in Cases  BY <2>2, CurrentCase DEF Busy
    <2>7. model'.case = Current /\ model'.compiled = compiled  BY <2>1
    <2> QED  BY <2>2, <2>3, <2>4, <2>5, <2>6, <2>7 DEF Loaded
  <1>5. CASE SampleLoad
    <2>1. PICK load \in {"quiet", "contended"} :
            /\ model' = [case |-> model.case, compiled |-> model.compiled, load |-> load]
            /\ IF load = "quiet" THEN UNCHANGED mishaps ELSE Mishap
      BY <1>5 DEF SampleLoad
    <2>2. /\ suite.pc = "compiled" /\ Step("prepared") /\ runs' = runs
          /\ torch_threads' = torch_threads
      BY <1>5 DEF SampleLoad
    <2>3. suite'.pc = "prepared"  BY <2>2, StepKeeps DEF Pcs
    <2>4. mishaps' \in 0 .. MaxMishaps  BY <1>0, <2>1 DEF Mishap, Loaded
    <2>5. model'.case = model.case /\ model'.compiled = model.compiled /\ model'.load = load
      BY <2>1
    <2> QED  BY <2>2, <2>3, <2>4, <2>5 DEF Loaded
  <1>6. CASE Measure
    <2>1. /\ suite.pc = "prepared" /\ suite' = NextCase /\ model' = Unloaded
          /\ torch_threads' = torch_threads /\ runs' = runs /\ mishaps' = mishaps
      BY <1>6 DEF Measure
    <2>2. suite'.pc \in {"case", "save"}  BY <2>1, NextCaseKeeps DEF Pcs
    <2> QED  BY <2>1, <2>2, LoadedKept
  <1>7. CASE MeasureRaises
    <2>1. /\ suite.pc \in {"loaded", "compiled", "prepared"} /\ Step("aborted")
          /\ model' = Unloaded /\ torch_threads' = torch_threads /\ runs' = runs /\ Mishap
      BY <1>7 DEF MeasureRaises
    <2>2. suite'.pc = "aborted"  BY <2>1, StepKeeps DEF Pcs
    <2> QED  BY <2>1, <2>2, LoadedKept
  <1>8. CASE Exits \/ Dies \/ RenderReadme
    <2>1. /\ suite' = Idle /\ torch_threads' = torch_threads /\ runs' = runs
          /\ mishaps' = mishaps /\ (model' = model \/ model' = Unloaded)
      <3>1. CASE Exits  BY <3>1 DEF Exits
      <3>2. CASE Dies  BY <3>2 DEF Dies
      <3>3. CASE RenderReadme  BY <3>3 DEF RenderReadme
      <3> QED  BY <1>8, <3>1, <3>2, <3>3
    <2>2. suite'.pc = "idle"  BY <2>1 DEF Idle
    <2> QED  BY <2>1, <2>2, LoadedKept
  <1>9. CASE SaveReport
    <2>1. /\ suite.pc = "save" /\ (suite' = Idle \/ Step("docs"))
          /\ torch_threads' = torch_threads /\ runs' = runs /\ mishaps' = mishaps /\ model' = model
      BY <1>9 DEF SaveReport, Step
    <2>2. suite'.pc \in {"idle", "docs"}  BY <2>1, StepKeeps DEF Idle, Pcs
    <2> QED  BY <2>1, <2>2, LoadedKept
  <1>10. CASE RenderDocs
    <2>1. /\ suite.pc = "docs" /\ Step("readme") /\ torch_threads' = torch_threads
          /\ runs' = runs /\ mishaps' = mishaps /\ model' = model
      BY <1>10 DEF RenderDocs
    <2>2. suite'.pc = "readme"  BY <2>1, StepKeeps DEF Pcs
    <2> QED  BY <2>1, <2>2, LoadedKept
  <1>11. CASE Renders \/ UNCHANGED vars
    <2>1. /\ suite' = suite /\ torch_threads' = torch_threads /\ runs' = runs
          /\ mishaps' = mishaps /\ model' = model
      BY <1>11 DEF Renders, measuring, vars
    <2> QED  BY <2>1, LoadedKept
  <1> QED
    BY <1>1, <1>2, <1>3, <1>4, <1>5, <1>6, <1>7, <1>8, <1>9, <1>10, <1>11 DEF Next

LEMMA InOrderStep == Measured /\ InOrder /\ Loaded /\ [Next]_vars => InOrder'
  <1> SUFFICES ASSUME Measured, InOrder, Loaded, [Next]_vars PROVE InOrder'  OBVIOUS
  <1>0. Suite  BY DEF Measured
  <1>1. CASE \E s \in Subsets, t \in ThreadArgs, g \in Switches, quick, archived \in BOOLEAN :
                 Starts(s, t, g, quick, archived)
    BY <1>0, <1>1, StartsInOrder
  <1>2. CASE LoadModel \/ MaybeCompile \/ SampleLoad
    <2>1. PICK pc \in {"loaded", "compiled", "prepared"} : Step(pc)
      BY <1>2 DEF LoadModel, MaybeCompile, SampleLoad
    <2>2. suite.pc \in {"case", "loaded", "compiled"} /\ results' = results
      BY <1>2 DEF LoadModel, MaybeCompile, SampleLoad
    <2>3. suite.pc \in Pcs /\ suite.pc \in Busy /\ pc \in Pcs /\ pc \in Busy
      BY <2>1, <2>2 DEF Pcs, Busy
    <2> QED  BY <2>1, <2>2, <2>3, <1>0, StaysInOrder
  <1>3. ASSUME NEW status \in {"skipped", "failed"}, LoadFails(status) PROVE InOrder'
    <2>1. /\ suite.pc = "case" /\ suite' = NextCase
          /\ results' = Recorded(results, Unmeasured(Current, status))
      BY <1>3 DEF LoadFails
    <2>2. suite.pc \in Busy  BY <2>1 DEF Busy
    <2>3. Current \in Cases  BY <2>2, CurrentCase
    <2>4. Faithful(Unmeasured(Current, status)) /\ Unmeasured(Current, status).case = Current
      BY <2>3, UnmeasuredIsFaithful
    <2> QED  BY <2>1, <2>2, <2>4, <1>0, RowInOrder
  <1>4. CASE Measure
    <2>1. PICK row : /\ results' = Recorded(results, row)
                     /\ row = [case |-> Current, status |-> "ok",
                               threads |-> EffectiveThreads(Current),
                               scored |-> AccuracyValid(Current),
                               label |-> RuntimeLabel(Current, model.compiled), load |-> model.load]
      BY <1>4 DEF Measure
    <2>2. suite.pc = "prepared" /\ suite' = NextCase  BY <1>4 DEF Measure
    <2>3. suite.pc \in Busy  BY <2>2 DEF Busy
    <2>4. Current \in Cases /\ EffectiveThreads(Current) \in Nat
      BY <2>3, CurrentCase, ThreadsInEffect
    <2>5. model.compiled \in BOOLEAN /\ model.load \in {"quiet", "contended"}
      BY <2>2 DEF Loaded
    <2>6. Faithful(row) /\ row.case = Current
      BY <2>1, <2>4, <2>5, MeasuredIsFaithful
    <2> QED  BY <2>1, <2>2, <2>3, <2>6, <1>0, RowInOrder
  <1>5. CASE MeasureRaises
    <2>1. results' = <<>> /\ Step("aborted") /\ suite.pc \in {"loaded", "compiled", "prepared"}
      BY <1>5 DEF MeasureRaises
    <2>2. suite.pc \in Pcs /\ "aborted" \in Pcs  BY <2>1 DEF Pcs
    <2> QED  BY <2>1, <2>2, <1>0, StaysInOrder
  <1>6. CASE Exits \/ Dies \/ RenderReadme
    <2>1. suite' = Idle /\ (results' = <<>> \/ (results' = results /\ suite.pc \in {"aborted", "readme"}))
      <3>1. CASE Exits  BY <3>1 DEF Exits
      <3>2. CASE Dies  BY <3>2 DEF Dies
      <3>3. CASE RenderReadme  BY <3>3 DEF RenderReadme
      <3> QED  BY <1>6, <3>1, <3>2, <3>3
    <2>2. results' = <<>>  BY <2>1, <1>0 DEF Suite
    <2> QED  BY <2>1, <2>2, IdleIsInOrder
  <1>7. CASE SaveReport
    <2>1. results' = <<>> /\ suite.pc = "save" /\ (suite' = Idle \/ Step("docs"))
      BY <1>7 DEF SaveReport, Step
    <2>2. suite.pc \in Pcs /\ "docs" \in Pcs  BY <2>1 DEF Pcs
    <2> QED  BY <2>1, <2>2, <1>0, StaysInOrder, IdleIsInOrder
  <1>8. CASE RenderDocs
    <2>1. results' = results /\ Step("readme") /\ suite.pc = "docs"  BY <1>8 DEF RenderDocs
    <2>2. results' = <<>>  BY <2>1, <1>0 DEF Suite
    <2>3. suite.pc \in Pcs /\ "readme" \in Pcs  BY <2>1 DEF Pcs
    <2> QED  BY <2>1, <2>2, <2>3, <1>0, StaysInOrder
  <1>9. CASE Renders \/ UNCHANGED vars
    <2>1. suite' = suite /\ results' = results  BY <1>9 DEF Renders, measuring, vars
    <2>2. Reported(results, suite.cases)'  BY <2>1, Zenon DEF InOrder
    <2> QED  BY <2>1, <2>2 DEF InOrder
  <1> QED
    BY <1>1, <1>2, <1>3, <1>4, <1>5, <1>6, <1>7, <1>8, <1>9 DEF Next

LEMMA CompleteStep == Numbered /\ Suite /\ InOrder /\ Complete /\ [Next]_vars => Complete'
  <1> SUFFICES ASSUME Numbered, Suite, InOrder, Complete, [Next]_vars PROVE Complete'  OBVIOUS
  <1>1. CASE SaveReport
    <2> DEFINE report == [rows |-> results, archive |-> suite.archive, smoke |-> suite.smoke,
                          threads |-> suite.threads, best |-> Scored(results), cases |-> suite.cases,
                          contended |-> Cardinality(Contentions(results))]
    <2>1. /\ files' = [n \in DOMAIN files \cup {runs} |-> IF n # runs THEN files[n] ELSE report]
          /\ suite.pc = "save"
      BY <1>1 DEF SaveReport
    <2>2. report.rows = results /\ report.cases = suite.cases  OBVIOUS
    <2>3. Reported(results, suite.cases) /\ Len(results) = Len(suite.cases)
      BY <2>1 DEF InOrder
    <2>4. Reported(report.rows, report.cases) /\ Len(report.rows) = Len(report.cases)
      BY <2>2, <2>3, Zenon
    <2> HIDE DEF report
    <2>5. /\ DOMAIN files' = DOMAIN files \cup {runs} /\ files'[runs] = report
          /\ \A n \in DOMAIN files : n # runs => files'[n] = files[n]
      BY <2>1
    <2>6. \A n \in DOMAIN files' : /\ Reported(files'[n].rows, files'[n].cases)
                                   /\ Len(files'[n].rows) = Len(files'[n].cases)
      BY <2>4, <2>5 DEF Complete
    <2> QED  BY <2>6, Zenon DEF Complete, Reported, Faithful
  <1>2. CASE files' = files
    BY <1>2 DEF Complete
  <1>3. SaveReport \/ files' = files
    BY DEF Next, Starts, LoadModel, LoadFails, MaybeCompile, SampleLoad, Measure, MeasureRaises,
           Exits, Dies, RenderDocs, RenderReadme, Renders, vars, published
  <1> QED  BY <1>1, <1>2, <1>3

LEMMA KeptHolds == Spec => [](Measured /\ Reports /\ Kept)
  <1>1. Init => Measured /\ Reports /\ Kept
    BY MeasuredInit, ReportsInit, InOrderInit, LoadedInit DEF Kept, Complete, Init
  <1>2. Measured /\ Reports /\ Kept /\ [Next]_vars => (Measured /\ Reports /\ Kept)'
    <2>1. Measured /\ Kept => Suite /\ InOrder /\ Loaded /\ Complete  BY DEF Measured, Kept
    <2>2. Reports => Numbered  BY DEF Reports
    <2>3. InOrder' /\ Loaded' /\ Complete' => Kept'  BY DEF Kept
    <2> QED  BY <2>1, <2>2, <2>3, MeasuredStep, ReportsStep, InOrderStep, LoadedStep, CompleteStep
  <1> QED  BY <1>1, <1>2, PTL DEF Spec

\* What a report with the rows of its cases says of contention is what was sampled, for
\* both documents.
LEMMA OneStory ==
    ASSUME NEW report, Truthful(report),
           \A n \in DOMAIN report.rows : Faithful(report.rows[n])
    PROVE  \A said \in {DocsDisclose(report), ReadmeDiscloses(report)} :
               LET rows == report.rows
                   contended == {k \in DOMAIN rows : rows[k].load = "contended"} IN
               /\ said.shown \cap contended \subseteq said.marked \cup said.listed
               /\ said.marked \subseteq contended
               /\ said.legends = {contended # {}}
               /\ said.says = "quiet" => Timed(rows) # {} /\ contended = {}
               /\ said.says = "predates" => Timed(rows) = {}
  <1> DEFINE rows == report.rows
             contended == {k \in DOMAIN rows : rows[k].load = "contended"}
             says == contention_block(rows)
             compared == UNION {{p[1], p[2]} : p \in Compared(rows)}
  <1>1. \A n \in DOMAIN rows : /\ rows[n].load \in {"none", "quiet", "contended"}
                               /\ rows[n].load = "none" <=> rows[n].status # "ok"
    BY DEF Faithful, Row
  <1>2. Sampled(rows) = Timed(rows) /\ contended \subseteq Timed(rows)
    BY <1>1 DEF Sampled, Timed
  <1>3. contended = Contentions(rows)  BY <1>1 DEF Contentions
  <1>4. contention_limitation(report) <=> contended # {}
    <2>1. contended \subseteq DOMAIN rows /\ IsFiniteSet(DOMAIN rows)
      BY RowsAreFinite DEF Truthful
    <2> HIDE DEF contended
    <2>2. IsFiniteSet(contended)  BY <2>1, FS_Subset
    <2>3. Cardinality(contended) \in Nat /\ (Cardinality(contended) = 0 <=> contended = {})
      BY <2>2, FS_CardinalityType, FS_EmptySet
    <2>4. report.contended = Cardinality(contended)  BY <1>3 DEF Truthful
    <2> QED  BY <2>3, <2>4 DEF contention_limitation
  <1>5. (\E n \in DOMAIN rows : WasContended(rows[n])) <=> contended # {}
    BY DEF WasContended
  <1>6. \A n \in DOMAIN rows : WasContended(rows[n]) <=> n \in contended
    BY DEF WasContended
  <1>7. /\ says \in {"predates", "quiet", "table"}
        /\ says = "quiet" => Timed(rows) # {} /\ contended = {}
        /\ says = "predates" => Timed(rows) = {}
    BY <1>2 DEF contention_block
  <1>8. MainTable(rows) \subseteq Timed(rows) /\ Timed(rows) \subseteq DOMAIN rows
        /\ ReadmeTable(rows) \subseteq MainTable(rows)
    BY DEF MainTable, Timed, ReadmeTable
  <1>9. contended # {} => says = "table"
    BY <1>2, <1>7
  <1>10. /\ DocsDisclose(report).shown = MainTable(rows) \cup SweepTable(rows) \cup compared
         /\ DocsDisclose(report).marked = {n \in MainTable(rows) : WasContended(rows[n])}
         /\ DocsDisclose(report).listed = IF says = "table" THEN Sampled(rows) ELSE {}
         /\ DocsDisclose(report).says = says
         /\ DocsDisclose(report).legends = {\E n \in DOMAIN rows : WasContended(rows[n]),
                                           contention_limitation(report)}
    BY Zenon DEF DocsDisclose
  <1>11. /\ ReadmeDiscloses(report).shown = ReadmeTable(rows)
         /\ ReadmeDiscloses(report).marked = {n \in ReadmeTable(rows) : WasContended(rows[n])}
         /\ ReadmeDiscloses(report).says = "nothing"
         /\ ReadmeDiscloses(report).legends = {contention_limitation(report)}
    BY Zenon DEF ReadmeDiscloses, contention_limitation
  <1>12. DocsDisclose(report).legends = {contended # {}}
         /\ ReadmeDiscloses(report).legends = {contended # {}}
    <2> DEFINE explained == \E n \in DOMAIN rows : WasContended(rows[n])
               limited == report.contended > 0
               any == contended # {}
    <2>1. explained = any /\ limited = any
      <3>1. explained \in BOOLEAN /\ limited \in BOOLEAN /\ any \in BOOLEAN  OBVIOUS
      <3>2. (explained <=> any) /\ (limited <=> any)  BY <1>4, <1>5 DEF contention_limitation
      <3> HIDE DEF explained, limited, any
      <3> QED  BY <3>1, <3>2
    <2>2. DocsDisclose(report).legends = {explained, limited} /\ ReadmeDiscloses(report).legends = {limited}
      BY <1>10, <1>11, Zenon DEF contention_limitation
    <2> HIDE DEF explained, limited
    <2>3. {explained, limited} = {any} /\ {limited} = {any}  BY <2>1
    <2> QED  BY <2>2, <2>3
  <1> HIDE DEF contended, says, compared
  <1>13. ASSUME NEW said, said = DocsDisclose(report)
         PROVE  /\ said.shown \cap contended \subseteq said.marked \cup said.listed
                /\ said.marked \subseteq contended
                /\ said.says = "quiet" => Timed(rows) # {} /\ contended = {}
                /\ said.says = "predates" => Timed(rows) = {}
    <2>1. contended \subseteq said.listed  BY <1>2, <1>9, <1>10, <1>13
    <2>2. said.marked \subseteq contended  BY <1>6, <1>8, <1>10, <1>13
    <2> QED  BY <1>7, <1>10, <1>13, <2>1, <2>2
  <1>14. ASSUME NEW said, said = ReadmeDiscloses(report)
         PROVE  /\ said.shown \cap contended \subseteq said.marked \cup said.listed
                /\ said.marked \subseteq contended
                /\ said.says # "quiet" /\ said.says # "predates"
    <2>1. said.shown \cap contended \subseteq said.marked /\ said.marked \subseteq contended
      BY <1>6, <1>8, <1>11, <1>14
    <2> QED  BY <1>11, <1>14, <2>1
  <1> QED  BY <1>12, <1>13, <1>14, Zenon DEF contended

\* What both documents say of contention is what was sampled of the report's rows.
THEOREM ContentionIsTold == Spec => []ContentionIsDisclosed
  <1>1. Measured /\ Reports /\ Kept => ContentionIsDisclosed
    <2> SUFFICES ASSUME Reports, Kept PROVE ContentionIsDisclosed  OBVIOUS
    <2>1. ASSUME NEW n \in DOMAIN files
          PROVE  Truthful(files[n]) /\ \A k \in DOMAIN files[n].rows : Faithful(files[n].rows[k])
      <3>1. Reported(files[n].rows, files[n].cases)  BY DEF Kept, Complete
      <3>2. Truthful(files[n])  BY DEF Reports
      <3>3. DOMAIN files[n].rows = 1 .. Len(files[n].rows)  BY <3>1 DEF Reported
      <3> QED  BY <3>1, <3>2, <3>3 DEF Reported
    <2> QED  BY <2>1, OneStory, Zenon DEF ContentionIsDisclosed
  <1> QED  BY KeptHolds, <1>1, PTL

\* A row is in the table of what was not measured, in the sweep's or in the main one.
LEMMA OneTable ==
    ASSUME NEW rows \in Seq(Row), NEW k \in DOMAIN rows
    PROVE  Cardinality({t \in 1 .. 3 : k \in <<MainTable(rows), SweepTable(rows),
                                              skipped_table(rows)>>[t]}) = 1
  <1> DEFINE tables == <<MainTable(rows), SweepTable(rows), skipped_table(rows)>>
             holding == {t \in 1 .. 3 : k \in tables[t]}
  <1>1. tables[1] = MainTable(rows) /\ tables[2] = SweepTable(rows) /\ tables[3] = skipped_table(rows)
    OBVIOUS
  <1>2. /\ k \in MainTable(rows) <=> rows[k].status = "ok" /\ ~IsThreadSweep(rows[k])
        /\ k \in SweepTable(rows) <=> rows[k].status = "ok" /\ IsThreadSweep(rows[k])
        /\ k \in skipped_table(rows) <=> rows[k].status # "ok"
    BY DEF MainTable, SweepTable, skipped_table, Timed
  <1>3. 1 .. 3 = {1, 2, 3}  OBVIOUS
  <1> HIDE DEF tables
  <1>4. holding = {1} \/ holding = {2} \/ holding = {3}
    <2>1. CASE rows[k].status # "ok"
      <3>1. k \notin tables[1] /\ k \notin tables[2] /\ k \in tables[3]  BY <1>1, <1>2, <2>1
      <3> QED  BY <3>1, <1>3
    <2>2. CASE rows[k].status = "ok" /\ IsThreadSweep(rows[k])
      <3>1. k \notin tables[1] /\ k \in tables[2] /\ k \notin tables[3]  BY <1>1, <1>2, <2>2
      <3> QED  BY <3>1, <1>3
    <2>3. CASE rows[k].status = "ok" /\ ~IsThreadSweep(rows[k])
      <3>1. k \in tables[1] /\ k \notin tables[2] /\ k \notin tables[3]  BY <1>1, <1>2, <2>3
      <3> QED  BY <3>1, <1>3
    <2> QED  BY <2>1, <2>2, <2>3
  <1> HIDE DEF holding
  <1>5. Cardinality(holding) = 1  BY <1>4, FS_Singleton
  <1> QED  BY <1>5 DEF holding, tables

\* Of a sweep row and one of the main table with its label, both were compiled or neither.
LEMMA LabelsTell ==
    ASSUME NEW a, NEW b, Faithful(a), Faithful(b), a.status = "ok", b.status = "ok",
           a.label = b.label
    PROVE  a.case.compile = b.case.compile
  <1>1. a.case \in Planned /\ b.case \in Planned  BY EachCase DEF Faithful, Row
  <1>2. ASSUME NEW c \in Planned, NEW compiled \in BOOLEAN
        PROVE  c.compile <=> RuntimeLabel(c, compiled) \in {"pytorch-compile", "pytorch-eager (compile failed)"}
    BY <1>2 DEF Planned, RuntimeLabel
  <1>3. PICK x \in BOOLEAN : a.label = RuntimeLabel(a.case, x)  BY DEF Faithful
  <1>4. PICK y \in BOOLEAN : b.label = RuntimeLabel(b.case, y)  BY DEF Faithful
  <1>5. a.case.compile \in BOOLEAN /\ b.case.compile \in BOOLEAN  BY <1>1 DEF Planned
  <1> DEFINE says(label) == label \in {"pytorch-compile", "pytorch-eager (compile failed)"}
  <1>6. a.case.compile <=> says(a.label)  BY <1>1, <1>2, <1>3
  <1>7. b.case.compile <=> says(b.label)  BY <1>1, <1>2, <1>4
  <1>8. a.case.compile <=> b.case.compile  BY <1>6, <1>7
  <1> QED  BY <1>5, <1>8

LEMMA SoundFromKept == Measured /\ Reports /\ Kept => ReportsAreSound
  <1> SUFFICES ASSUME Measured, Reports, Kept PROVE ReportsAreSound  OBVIOUS
  <1>1. Suite /\ Numbered /\ Published /\ InOrder /\ Loaded /\ Complete
    BY DEF Measured, Reports, Kept
  <1>2. TypeOK
    BY <1>1 DEF TypeOK, Suite, Pcs, Numbered, Published, InOrder, Reported, Loaded
  <1>3. RowPerCase
    <2> SUFFICES ASSUME NEW n \in DOMAIN files
                 PROVE  LET rows == files[n].rows IN
                          /\ Len(rows) = Len(files[n].cases)
                          /\ \A k \in DOMAIN rows :
                               /\ rows[k].case = files[n].cases[k]
                               /\ Cardinality({t \in 1 .. 3 : k \in <<MainTable(rows), SweepTable(rows),
                                                                     skipped_table(rows)>>[t]}) = 1
      BY Zenon DEF RowPerCase
    <2>1. Reported(files[n].rows, files[n].cases) /\ Len(files[n].rows) = Len(files[n].cases)
      BY <1>1 DEF Complete
    <2> DEFINE rows == files[n].rows
    <2> HIDE DEF rows
    <2>2. rows \in Seq(Row) /\ Len(rows) = Len(files[n].cases)
          /\ \A k \in 1 .. Len(rows) : rows[k].case = files[n].cases[k]
      BY <2>1 DEF Reported, rows
    <2>3. DOMAIN rows = 1 .. Len(rows)  BY <2>2
    <2> QED  BY <2>2, <2>3, OneTable, Zenon DEF rows
  <1>4. ASSUME NEW rows \in AllRows
        PROVE  \A k \in DOMAIN rows : Faithful(rows[k])
    <2>1. \E cases : Reported(rows, cases)  BY <1>1, <1>4 DEF AllRows, InOrder, Complete
    <2> QED  BY <2>1 DEF Reported
  <1>5. PairsAreRepeats
    <2> SUFFICES ASSUME NEW rows \in AllRows, NEW pair \in Pairs(rows)
                 PROVE  rows[pair[1]].case.compile = rows[pair[2]].case.compile
      BY DEF PairsAreRepeats
    <2>1. /\ pair[1] \in Timed(rows) /\ pair[2] \in Timed(rows)
          /\ PairKey(rows[pair[1]]) = PairKey(rows[pair[2]])
      BY DEF Pairs, MainTable
    <2>2. rows[pair[1]].label = rows[pair[2]].label  BY <2>1 DEF PairKey
    <2>3. /\ pair[1] \in DOMAIN rows /\ rows[pair[1]].status = "ok"
          /\ pair[2] \in DOMAIN rows /\ rows[pair[2]].status = "ok"
      BY <2>1 DEF Timed
    <2> QED  BY <2>2, <2>3, <1>4, LabelsTell
  <1>6. UnscoredMeansRandom
    <2> SUFFICES ASSUME NEW n \in DOMAIN files, NEW k \in MainTable(files[n].rows)
                 PROVE  files[n].rows[k].scored \/ files[n].rows[k].case.random
      BY DEF UnscoredMeansRandom
    <2> DEFINE row == files[n].rows[k]
    <2>1. k \in DOMAIN files[n].rows /\ row.status = "ok" /\ row.case.threads = RunWide
      BY DEF MainTable, Timed, IsThreadSweep
    <2>2. Faithful(row)  BY <1>4, <2>1 DEF AllRows
    <2> HIDE DEF row
    <2>3. row.scored = AccuracyValid(row.case) /\ row.case \in Planned
      BY <2>1, <2>2, EachCase DEF Faithful, Row
    <2>4. row.case.accuracy  BY <2>1, <2>3 DEF Planned
    <2>5. row.scored \/ row.case.random  BY <2>3, <2>4 DEF AccuracyValid
    <2> QED  BY <2>5 DEF row
  <1> QED  BY <1>2, <1>3, <1>5, <1>6 DEF ReportsAreSound

\* Every case of a saved report has one row, in one table, a sweep row is held against
\* its repeat only, a missing score is one of random weights, and all of it has its shape.
THEOREM ReportsStaySound == Spec => []ReportsAreSound
  BY KeptHolds, SoundFromKept, PTL
=============================================================================
