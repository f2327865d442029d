------------------------------ MODULE Benchmarks ------------------------------
(***************************************************************************)
(* The benchmark suite: one process runs the cases one after the other,    *)
(* writes a report, and the report is rendered into docs/benchmarks.md and *)
(* the README.  Another process may render the archive's newest report.    *)
(*                                                                         *)
(* Timings and scores are left out; what is kept is what a row claims      *)
(* about how it was measured, and which rows are set beside one another.   *)
(***************************************************************************)
EXTENDS Integers, Sequences, SequencesExt, FiniteSets

CONSTANTS
    None,
    Subsets,        \* values of --models: names of models, and the cases whose labels it lists
    Switches,       \* --no-batches, --no-threads, --no-compile, --no-render: those given
    ThreadArgs,     \* values of --threads
    Rungs,          \* thread counts of the sweep
    Cores,          \* threads the runtimes take by default: [torch, onnx]
    MaxRuns,        \* bound: suites started
    MaxMishaps      \* bound: cases that are not measured as planned

ASSUME BenchmarksAssumption ==
    /\ ThreadArgs \subseteq Nat /\ Rungs \in Seq(Nat \ {0}) /\ MaxRuns \in Nat /\ MaxMishaps \in Nat
    /\ Cores \in [torch : Nat \ {0}, onnx : Nat \ {0}]

VARIABLES
    suite,          \* the run in progress: its arguments, its cases and the next one
    results,        \* the rows so far
    torch_threads,  \* torch.get_num_threads() of the process
    model,          \* the case whose model is loaded, its compile outcome and its load sample
    runs, mishaps,
    files,          \* reports on disk: run -> report
    docs, readme    \* the report each was last rendered from

measuring == <<suite, results, torch_threads, model, runs, mishaps>>
published == <<files, docs, readme>>
vars == <<measuring, published>>

-----------------------------------------------------------------------------
(* benchmarks/run.py *)

RunWide == -1
Case == [model |-> None, runtime |-> "pytorch", batch |-> 1, random |-> FALSE, compile |-> FALSE,
         threads |-> RunWide, accuracy |-> TRUE]
Of(m) == [Case EXCEPT !.model = m]
Onnx(m) == [Case EXCEPT !.model = m, !.runtime = "onnxruntime"]
Numpy(m) == [Case EXCEPT !.model = m, !.runtime = "numpy"]

thread_scaling_cases ==
    LET sweep(c) == [n \in DOMAIN Rungs |-> [c EXCEPT !.threads = Rungs[n], !.accuracy = FALSE]] IN
    sweep(Of("cutoutnet")) \o sweep(Onnx("cutoutnet-onnx"))

EveryModel ==
    << Numpy("trivial-ones"), Numpy("trivial-center"), Numpy("classical-saliency"),
       Numpy("classical"), Numpy("classical-saliency-grabcut"),
       Of("cutoutnet-tiny"), Of("cutoutnet"), Of("cutoutnet-base"), Of("u2net-lite"),
       Onnx("cutoutnet-onnx"), Of("u2netp"), Onnx("u2netp-onnx"), Of("u2net"), Onnx("u2net-onnx"),
       [Of("birefnet") EXCEPT !.random = TRUE] >>
Compiled == << [Of("cutoutnet") EXCEPT !.compile = TRUE],
               [Of("cutoutnet") EXCEPT !.compile = TRUE, !.batch = 8] >>
Batches == << [Of("cutoutnet") EXCEPT !.batch = 4], [Of("cutoutnet") EXCEPT !.batch = 8],
              [Onnx("cutoutnet-onnx") EXCEPT !.batch = 8] >>

default_cases(include_compile, include_batches, include_threads) ==
    EveryModel \o (IF include_compile THEN Compiled ELSE <<>>)
    \o (IF include_batches THEN Batches ELSE <<>>)
    \o (IF include_threads THEN thread_scaling_cases ELSE <<>>)

\* The cases asked for by model or by label, in their order: the p-th of those kept.
\* No two cases share a label, so a label is the case it names.
Wanted(cases, asked) ==
    LET kept == {n \in DOMAIN cases : cases[n].model \in asked.models \/ cases[n] \in asked.labels}
        place(n) == Cardinality({k \in kept : k <= n}) IN
    [p \in 1 .. Cardinality(kept) |-> cases[CHOOSE n \in kept : place(n) = p]]

\* What --quick implies: no compile cases, no sweep, no rendering.
Given(switches, quick) ==
    switches \cup (IF quick THEN {"no_compile", "no_threads", "no_render"} ELSE {})

Arguments(asked, threads, given, quick, archived) ==
    [pc |-> "case", next |-> 1, threads |-> threads, smoke |-> quick,
     render |-> "no_render" \notin given, archive |-> archived,
     cases |-> Wanted(default_cases("no_compile" \notin given, "no_batches" \notin given,
                                    "no_threads" \notin given), asked)]

-----------------------------------------------------------------------------
(* BenchmarkHarness *)

Idle == [pc |-> "idle", cases |-> <<>>]
Unloaded == [case |-> None]
Cases == Range(default_cases(TRUE, TRUE, TRUE))
Row == [case : Cases,
        status : {"ok", "skipped", "failed"}, threads : Nat, scored : BOOLEAN,
        label : {"none", "numpy", "onnxruntime", "pytorch-eager", "pytorch-compile",
                 "pytorch-eager (compile failed)"}, load : {"none", "quiet", "contended"}]

TypeOK ==
    /\ suite.pc \in {"idle", "case", "loaded", "compiled", "prepared", "save", "docs", "readme",
                    "aborted"}
    /\ results \in Seq(Row) /\ Len(results) <= Len(suite.cases)
    /\ torch_threads \in Nat \ {0}
    /\ model.case \in Cases \cup {None}
    /\ runs \in 0 .. MaxRuns /\ mishaps \in 0 .. MaxMishaps
    /\ DOMAIN files \subseteq 1 .. runs
    /\ {docs, readme} \subseteq DOMAIN files \cup {None}

Init ==
    /\ suite = Idle /\ results = <<>> /\ torch_threads = Cores.torch /\ model = Unloaded
    /\ runs = 0 /\ mishaps = 0
    /\ files = [n \in {} |-> None] /\ docs = None /\ readme = None

Effective(threads) == IF threads > 0 THEN threads ELSE Cores.torch
LeaveThreads(threads) == torch_threads' = torch_threads
ApplyThreads(threads) == torch_threads' = Effective(threads)

CaseThreads(c) == IF c.threads = RunWide THEN suite.threads ELSE c.threads
Current == suite.cases[suite.next]
Step(pc) == suite' = [suite EXCEPT !.pc = pc]
Mishap == mishaps < MaxMishaps /\ mishaps' = mishaps + 1

\* Every start is a new process: torch has its own count, the harness applies that of
\* --threads.  The report goes to the archive, or where --output-dir says.
Starts(asked, threads, switches, quick, archived) ==
    /\ suite.pc = "idle" /\ runs < MaxRuns /\ runs' = runs + 1
    /\ LET args == Arguments(asked, threads, Given(switches, quick), quick, archived) IN
       IF args.cases = <<>> THEN UNCHANGED suite ELSE suite' = args
    /\ results' = <<>>
    /\ torch_threads' = Effective(threads)
    /\ UNCHANGED <<model, mishaps, published>>

NextCase == IF suite.next < Len(suite.cases)
            THEN [suite EXCEPT !.pc = "case", !.next = @ + 1]
            ELSE [suite EXCEPT !.pc = "save"]

Unmeasured(c, status) == [case |-> c, status |-> status, threads |-> 0, scored |-> FALSE,
                          label |-> "none", load |-> "none"]

Recorded(rows, row) == Append(rows, row)

LoadModel ==
    /\ suite.pc = "case"
    /\ ApplyThreads(CaseThreads(Current))
    /\ model' = [case |-> Current] /\ Step("loaded")
    /\ UNCHANGED <<results, runs, mishaps, published>>

\* No weights, or any other exception while loading: the case becomes a row.
LoadFails(status) ==
    /\ suite.pc = "case" /\ Mishap
    /\ ApplyThreads(CaseThreads(Current))
    /\ results' = Recorded(results, Unmeasured(Current, status))
    /\ suite' = NextCase
    /\ UNCHANGED <<model, runs, published>>

\* compile_module falls back to the eager module when the compiler fails.
CompileOutcomes(c) == IF c.compile /\ c.runtime = "pytorch" THEN BOOLEAN ELSE {FALSE}

MaybeCompile ==
    /\ suite.pc = "loaded"
    /\ \E compiled \in CompileOutcomes(Current) :
         /\ model' = [case |-> Current, compiled |-> compiled]
         /\ IF Current.compile => compiled THEN UNCHANGED mishaps ELSE Mishap
    /\ Step("compiled")
    /\ UNCHANGED <<results, torch_threads, runs, published>>

\* What other processes do in the second before the timing loop.
SampleLoad ==
    /\ suite.pc = "compiled"
    /\ \E load \in {"quiet", "contended"} :
         /\ model' = [case |-> model.case, compiled |-> model.compiled, load |-> load]
         /\ IF load = "quiet" THEN UNCHANGED mishaps ELSE Mishap
    /\ Step("prepared")
    /\ UNCHANGED <<results, torch_threads, runs, published>>

RuntimeLabel(c, compiled) ==
    IF c.runtime # "pytorch" THEN c.runtime
    ELSE IF ~c.compile THEN "pytorch-eager"
    ELSE IF compiled THEN "pytorch-compile" ELSE "pytorch-eager (compile failed)"

\* The adapter of a graph is handed the case's count; 0 is its own default.
NotHandedOver(c) == 0
HandedOver(c) == CaseThreads(c)
EffectiveThreads(c) ==
    IF c.runtime # "onnxruntime" THEN torch_threads
    ELSE IF HandedOver(c) > 0 THEN HandedOver(c) ELSE Cores.onnx

AccuracyValid(c) == ~c.random /\ c.accuracy

Measure ==
    /\ suite.pc = "prepared"
    /\ results' = Recorded(results,
         [case |-> Current, status |-> "ok", threads |-> EffectiveThreads(Current),
          scored |-> AccuracyValid(Current), label |-> RuntimeLabel(Current, model.compiled),
          load |-> model.load])
    /\ model' = Unloaded /\ suite' = NextCase
    /\ UNCHANGED <<torch_threads, runs, mishaps, published>>

\* An exception between compile and metadata passes the finally and leaves run().
MeasureRaises ==
    /\ suite.pc \in {"loaded", "compiled", "prepared"} /\ Mishap
    /\ model' = Unloaded /\ Step("aborted") /\ results' = <<>>
    /\ UNCHANGED <<torch_threads, runs, published>>

Exits ==
    /\ suite.pc = "aborted" /\ suite' = Idle
    /\ UNCHANGED <<results, torch_threads, model, runs, mishaps, published>>

\* _summarise
Scored(rows) == {n \in DOMAIN rows : rows[n].status = "ok" /\ rows[n].scored}
Contentions(rows) == {n \in DOMAIN rows : rows[n].status = "ok" /\ rows[n].load = "contended"}

\* The run id starts with the time, so the newest report of the archive is its last.
SaveReport ==
    /\ suite.pc = "save"
    /\ files' = [n \in DOMAIN files \cup {runs} |->
         IF n # runs THEN files[n]
         ELSE [rows |-> results, archive |-> suite.archive, smoke |-> suite.smoke,
               threads |-> suite.threads, best |-> Scored(results), cases |-> suite.cases,
               contended |-> Cardinality(Contentions(results))]]
    /\ suite' = IF suite.render THEN [suite EXCEPT !.pc = "docs"] ELSE Idle
    /\ results' = <<>>
    /\ UNCHANGED <<torch_threads, model, runs, mishaps, docs, readme>>

Dies ==
    /\ suite.pc # "idle" /\ suite' = Idle /\ model' = Unloaded /\ results' = <<>>
    /\ UNCHANGED <<torch_threads, runs, mishaps, published>>

-----------------------------------------------------------------------------
(* render_report.py *)

Archived == {n \in DOMAIN files : files[n].archive}
LatestReport == CHOOSE n \in Archived : \A k \in Archived : k <= n

Publishable(n) == ~files[n].smoke

RenderDocs ==
    /\ suite.pc = "docs" /\ Publishable(runs) /\ docs' = runs /\ Step("readme")
    /\ UNCHANGED <<results, torch_threads, model, runs, mishaps, files, readme>>

RenderReadme ==
    /\ suite.pc = "readme" /\ readme' = runs /\ suite' = Idle
    /\ UNCHANGED <<results, torch_threads, model, runs, mishaps, files, docs>>

\* render_report's main, run on its own, takes the archive's newest report.
Renders ==
    /\ Archived # {} /\ Publishable(LatestReport)
    /\ docs' = LatestReport /\ readme' = LatestReport
    /\ UNCHANGED <<measuring, files>>

\* The rows of the tables that a report becomes.
NoSweep(row) == FALSE
IsThreadSweep(row) == row.case.threads # RunWide
Timed(rows) == {n \in DOMAIN rows : rows[n].status = "ok"}
MainTable(rows) == {n \in Timed(rows) : ~IsThreadSweep(rows[n])}

\* _duplicate_pairs: a sweep row beside the row of the main table it repeats.
PairKey(row) == <<row.case.model, row.case.batch, row.threads, row.label>>
Pairs(rows) == {pair \in (Timed(rows) \ MainTable(rows)) \X MainTable(rows) :
                    PairKey(rows[pair[1]]) = PairKey(rows[pair[2]])}

\* runtime_comparison_table: the model without its -onnx suffix, at one batch size.
Family(c) == <<CASE c.model = "cutoutnet-onnx" -> "cutoutnet" [] c.model = "u2net-onnx" -> "u2net"
                 [] c.model = "u2netp-onnx" -> "u2netp" [] OTHER -> c.model, c.batch>>
Compared(rows) ==
    {pair \in MainTable(rows) \X MainTable(rows) : LET a == rows[pair[1]].case b == rows[pair[2]].case IN
        ~a.random /\ ~b.random /\ Family(a) = Family(b)}

ReadmeTable(rows)  == {n \in MainTable(rows) : rows[n].case.batch = 1}
SweepTable(rows)   == {n \in Timed(rows) : IsThreadSweep(rows[n])}
accuracy_detail_table(rows) == {n \in MainTable(rows) : rows[n].scored}
skipped_table(rows) == {n \in DOMAIN rows : rows[n].status # "ok"}

\* latency_trustworthy is False: null, of a case without timings, is neither.
NotTrustworthy(row) == row.load # "quiet"
WasContended(row)   == row.load = "contended"

contention_limitation(report) == report.contended > 0

\* The rows with a load sample, whichever table they are in.
SampledOfMain(rows) == {n \in MainTable(rows) : rows[n].load # "none"}
Sampled(rows) == {n \in DOMAIN rows : rows[n].load # "none"}

\* The page's section on contention: a sentence, or the table of every sampled row.
contention_block(rows) ==
    IF Sampled(rows) = {} THEN "predates"
    ELSE IF \A n \in Sampled(rows) : rows[n].load = "quiet" THEN "quiet" ELSE "table"

\* What a document tells of contention: the rows it shows with their timings, those it
\* marks, those its load table lists, what that section says, and whether each legend
\* that explains the mark is printed.
DocsDisclose(report) == LET rows == report.rows says == contention_block(rows) IN
    [shown |-> MainTable(rows) \cup SweepTable(rows) \cup UNION {{p[1], p[2]} : p \in Compared(rows)},
     marked |-> {n \in MainTable(rows) : WasContended(rows[n])},
     listed |-> IF says = "table" THEN Sampled(rows) ELSE {}, says |-> says,
     legends |-> {\E n \in DOMAIN rows : WasContended(rows[n]), contention_limitation(report)}]
ReadmeDiscloses(report) ==
    [shown |-> ReadmeTable(report.rows),
     marked |-> {n \in ReadmeTable(report.rows) : WasContended(report.rows[n])},
     listed |-> {}, says |-> "nothing", legends |-> {report.contended > 0}]

-----------------------------------------------------------------------------

Next ==
    \/ \E s \in Subsets, t \in ThreadArgs, g \in Switches, quick, archived \in BOOLEAN :
         Starts(s, t, g, quick, archived)
    \/ LoadModel \/ LoadFails("skipped") \/ LoadFails("failed")
    \/ MaybeCompile \/ SampleLoad \/ Measure \/ MeasureRaises \/ Exits \/ SaveReport \/ Dies
    \/ RenderDocs \/ RenderReadme \/ Renders

Spec == Init /\ [][Next]_vars

-----------------------------------------------------------------------------

AllRows == {results} \cup {files[n].rows : n \in DOMAIN files}

\* Every measured row states the threads its own case asked for, or its own runtime's
\* default when that is 0: not the count an earlier case left to the process, nor, for a
\* graph, torch's ("a row whose thread count is wrong is worse than one with none").
ThreadsAreTheCases ==
    \A n \in DOMAIN results : LET row == results[n] asked == CaseThreads(row.case) IN
        row.status = "ok" =>
            row.threads = IF asked > 0 THEN asked
                          ELSE IF row.case.runtime = "onnxruntime" THEN Cores.onnx ELSE Cores.torch

\* A saved report has one row for each case of its suite, in their order, whichever
\* of them were skipped, failed to load or fell back, and each row is in one table.
RowPerCase ==
    \A n \in DOMAIN files : LET rows == files[n].rows IN
        /\ Len(rows) = Len(files[n].cases)
        /\ \A k \in DOMAIN rows :
             /\ rows[k].case = files[n].cases[k]
             /\ Cardinality({t \in 1 .. 3 : k \in <<MainTable(rows), SweepTable(rows),
                                                   skipped_table(rows)>>[t]}) = 1

\* Neither the best score nor a line of the accuracy tables is one of random weights
\* ("letting one win 'best' would put a fabricated accuracy at the top of the report").
BestIsMeasured ==
    \A n \in DOMAIN files : \A k \in files[n].best \cup accuracy_detail_table(files[n].rows) :
        ~files[n].rows[k].case.random

\* With a count given, the rows a runtime comparison sets side by side had the same
\* threads ("A runtime comparison must fix the thread count").
ComparesLikeWithLike ==
    \A n \in DOMAIN files : LET rows == files[n].rows IN
        files[n].threads > 0 =>
            \A pair \in Compared(rows) : rows[pair[1]].threads = rows[pair[2]].threads

\* A sweep row is only held against a row that ran the same code: never an eager one
\* against a compiled one.
PairsAreRepeats ==
    \A rows \in AllRows : \A pair \in Pairs(rows) :
        rows[pair[1]].case.compile = rows[pair[2]].case.compile

\* From three records of contention (the row's flag, its load, the summary) both
\* documents tell one story.  A contended row they show is marked there or listed with
\* its load on the same page (the sweep's and the runtimes' tables mark none), only
\* contended rows are marked, a mark is explained in every place that explains it, and
\* the explanation is printed for a report with a contended row and for no other; the
\* page calls every case quiet, or without load samples, only if every measured one is.
ContentionIsDisclosed ==
    \A n \in DOMAIN files : \A said \in {DocsDisclose(files[n]), ReadmeDiscloses(files[n])} :
        LET rows == files[n].rows
            contended == {k \in DOMAIN rows : rows[k].load = "contended"} IN
        /\ said.shown \cap contended \subseteq said.marked \cup said.listed
        /\ said.marked \subseteq contended
        /\ said.legends = {contended # {}}
        /\ said.says = "quiet" => Timed(rows) # {} /\ contended = {}
        /\ said.says = "predates" => Timed(rows) = {}

\* The legend of `n/a *` says the network ran with random weights: of the rows of the
\* two tables, only those have no accuracy.
UnscoredMeansRandom ==
    \A n \in DOMAIN files : \A k \in MainTable(files[n].rows) :
        files[n].rows[k].scored \/ files[n].rows[k].case.random

\* A quick run is in neither document, also when it was written into the archive.
SmokeNeverPublished ==
    \A d \in {docs, readme} \ {None} : ~files[d].smoke

\* What a report says of how its rows were measured is so, and what sets rows beside
\* one another or above the others compares what was measured alike.
RowsAreAsMeasured ==
    ThreadsAreTheCases /\ ComparesLikeWithLike /\ BestIsMeasured /\ SmokeNeverPublished

\* Every part of the state has its shape; each case is reported once, in one table,
\* and beside its repeats only; and a missing score means what the legend says.
ReportsAreSound == TypeOK /\ RowPerCase /\ PairsAreRepeats /\ UnscoredMeansRandom
=============================================================================
