------------------------------ MODULE ModelStore ------------------------------
(***************************************************************************)
(* The weights of the models: the registry's rules for which file a model  *)
(* loads, and the processes that meet at those files - downloaders, the    *)
(* U^2-Net converter, a training run, the ONNX exporter, a worker with its *)
(* cache of loaded models and a benchmark process that records what it     *)
(* measured.                                                               *)
(*                                                                         *)
(* A place is <<directory, file>>.  "repo" is the repository's models/,    *)
(* where the processes run; settings.model_weights_dir may be another one. *)
(***************************************************************************)
EXTENDS Naturals, Integers, Sequences, SequencesExt, FiniteSets

CONSTANTS
    None,               \* nothing
    Models,             \* names of Registry in use
    Installed,          \* what this machine has of "onnxruntime", "tensorrt", "cuda" and
                        \* "binding", a Python binding of the CUDA driver
    Precisions,         \* what jobs ask for
    WeightsDirs,        \* possible settings.model_weights_dir: "repo", "mounted"
    Downloaders,        \* processes of download_weights
    Wanted,             \* sources they fetch
    Conversions,        \* pairs of file names <<graph, checkpoint>> given to from_onnx
    Trained,            \* the architecture trained
    Exported,           \* models given to export_onnx
    MaxEntries,         \* ModelCache.max_entries
    MaxEpochs, Scores,  \* TrainConfig.epochs, and what val_iou may come to
    MaxWrites,          \* bound: changes to files
    MaxStarts, MaxBusy  \* bounds: pieces of work begun, and in progress at once

ASSUME StoreAssumption ==
    /\ WeightsDirs \subseteq {"repo", "mounted"} /\ MaxEntries \in Nat \ {0}
    /\ MaxEpochs \in Nat /\ MaxWrites \in Nat /\ MaxStarts \in Nat /\ MaxBusy \in Nat
    /\ Scores \subseteq Nat
    /\ Conversions \subseteq STRING \X STRING

VARIABLES
    weights_dir,
    disk,           \* place -> what is in the file
    writes,         \* changes made to files; also the clock of their mtimes
    trainer, latest,        \* training/train.py, and the record of the last run, until the next starts
    download,       \* each downloader's fetch, and what it installed last, until the next
    converter,
    exporter, verdict,      \* models/export_onnx.py, and its last parity report, until the next
    worker, cache, resident, given, refused,
                    \* the job process, its LRU, the models on the device, the one a
                    \* pipeline runs, and why the last load failed
    bench, memo, row,       \* the benchmark process, its digest cache, its last row
    starts          \* pieces of work begun

files == <<disk, writes>>
serving == <<worker, cache, resident, given, refused>>
measuring == <<bench, memo, row>>
training == <<trainer, latest>>
exporting == <<exporter, verdict>>
vars == <<weights_dir, files, training, download, converter, exporting, serving, measuring, starts>>

-----------------------------------------------------------------------------
(* registry.py: what each entry needs on disk *)

Torch(name, weights) == [name |-> name, runtime |-> "pytorch", weights |-> weights, onnx |-> None]
Onnx(name, file) == [name |-> name, runtime |-> "onnxruntime", weights |-> <<file>>, onnx |-> file]
NoWeights(name) == [name |-> name, runtime |-> "pytorch", weights |-> <<>>, onnx |-> None]

InRepo == {Torch("cutoutnet", <<"cutoutnet-small.pt">>),
           Torch("cutoutnet-tiny", <<"cutoutnet-tiny.pt">>),
           Torch("cutoutnet-base", <<"cutoutnet-base.pt">>),
           Onnx("cutoutnet-onnx", "cutoutnet-small.onnx")}

Untrained == {Torch("u2net-lite", <<"u2net-lite.pt">>),
              Torch("birefnet", <<"birefnet-compact.pt">>)}

Published == {Torch("u2net", <<"u2net.pt", "u2net.pth">>),
              Torch("u2netp", <<"u2netp.pt", "u2netp.pth">>),
              Onnx("u2net-onnx", "u2net.onnx"),
              Onnx("u2netp-onnx", "u2netp.onnx")}

Classical == {NoWeights(name) :
    name \in {"classical", "classical-saliency", "classical-saliency-grabcut",
              "trivial-center", "trivial-ones"}}

\* default_weights is absent here: the engine is built from the graph.
TensorRT == {[name |-> "tensorrt", runtime |-> "tensorrt", weights |-> <<>>,
              onnx |-> "cutoutnet-small.onnx"]}

Named(entries) == [n \in {e.name : e \in entries} |-> CHOOSE e \in entries : e.name = n]

Registry == Named(InRepo \cup Untrained \cup Published \cup Classical \cup TensorRT)

\* Sources of download_weights: the target's file, whether its SHA-256 is pinned,
\* and how many mirrors are configured.
Source(name, file, pinned, urls) ==
    [name |-> name, file |-> file, pinned |-> pinned, urls |-> urls]

SOURCES == Named({Source("u2net-onnx", "u2net.onnx", TRUE, 1),
                  Source("u2netp-onnx", "u2netp.onnx", TRUE, 1),
                  Source("u2net", "u2net.pth", FALSE, 1),
                  Source("u2net-lite", "u2netp.pth", FALSE, 1),
                  Source("birefnet", "birefnet-compact.pt", FALSE, 0),
                  Source("cutoutnet", "cutoutnet-small.pt", FALSE, 0)})

\* architectures.py: the checkpoint each architecture is saved to.
Checkpointed(name, file) == [name |-> name, file |-> file]

ARCHITECTURES == Named({Checkpointed("cutoutnet-tiny", "cutoutnet-tiny.pt"),
                        Checkpointed("cutoutnet-small", "cutoutnet-small.pt"),
                        Checkpointed("cutoutnet-base", "cutoutnet-base.pt"),
                        Checkpointed("u2net-lite", "u2net-lite.pt"),
                        Checkpointed("u2net-full", "u2net-full.pt"),
                        Checkpointed("birefnet-compact", "birefnet-compact.pt"),
                        Checkpointed("birefnet-tiny", "birefnet-tiny.pt")})

\* export_onnx.py: the graph each model is exported to.
Exports(name, file) == [name |-> name, file |-> file]

GRAPHS == Named({Exports("cutoutnet", "cutoutnet-small.onnx"),
                 Exports("cutoutnet-tiny", "cutoutnet-tiny-tiny.onnx"),
                 Exports("cutoutnet-base", "cutoutnet-base-base.onnx"),
                 Exports("u2net", "u2net-full.onnx"),
                 Exports("u2netp", "u2netp-lite.onnx"),
                 Exports("u2net-lite", "u2net-lite-lite.onnx"),
                 Exports("birefnet", "birefnet-compact.onnx")})

Files == (UNION {Range(Registry[m].weights) \cup ({Registry[m].onnx} \ {None}) : m \in Models})
         \cup {SOURCES[s].file : s \in Wanted} \cup {ARCHITECTURES[Trained].file}
         \cup {GRAPHS[m].file : m \in Exported}
         \cup (UNION {{c[1], c[2]} : c \in Conversions})
Places == {"repo", "mounted"} \X Files

ASSUME NameAssumption ==
    Models \subseteq DOMAIN Registry /\ Wanted \subseteq DOMAIN SOURCES
    /\ Trained \in DOMAIN ARCHITECTURES /\ Exported \subseteq Models \cap DOMAIN GRAPHS

\* A pinned file is written by its own download only, graphs that are converted are
\* pinned, and none is converted into the checkpoint that is trained.
ASSUME PinAssumption ==
    /\ \A c \in Conversions : c[2] # ARCHITECTURES[Trained].file
    /\ \A s \in Wanted : SOURCES[s].pinned =>
         /\ \A t \in Wanted : SOURCES[t].file = SOURCES[s].file => t = s
         /\ SOURCES[s].file # ARCHITECTURES[Trained].file
         /\ \A c \in Conversions : c[2] # SOURCES[s].file
    /\ \A c \in Conversions : \E s \in Wanted : SOURCES[s].pinned /\ SOURCES[s].file = c[1]

NoFile == [bytes |-> None, whole |-> FALSE, stamp |-> 0]
IsFile(p) == p \in DOMAIN disk /\ disk[p] # NoFile
Target(name) == <<weights_dir, name>>
RepoPlace(name) == <<"repo", name>>

\* Every write gives the file a new modification time.
Put(p, b, w) ==
    /\ writes < MaxWrites /\ writes' = writes + 1
    /\ disk' = [disk EXCEPT ![p] = [bytes |-> b, whole |-> w, stamp |-> writes']]

WeightsCandidates(m) == [n \in DOMAIN Registry[m].weights |-> Target(Registry[m].weights[n])]

ArtifactCandidates(m) ==
    Range(WeightsCandidates(m))
        \cup (IF Registry[m].onnx = None THEN {} ELSE {RepoPlace(Registry[m].onnx)})

weights_available(m) ==
    ArtifactCandidates(m) = {} \/ \E p \in ArtifactCandidates(m) : IsFile(p)

FirstPresent(c) == IF SelectInSeq(c, IsFile) = 0 THEN c[1] ELSE c[SelectInSeq(c, IsFile)]

\* The file the adapter of m opens: the serialised runtimes take onnx_path, which is
\* relative to where the process runs, and the others the resolved checkpoint.
ResolveWeights(m) ==
    IF Registry[m].onnx # None THEN RepoPlace(Registry[m].onnx)
    ELSE FirstPresent(WeightsCandidates(m))

NeedsFile(m) == ArtifactCandidates(m) # {}

\* A checkpoint that is being written in place cannot be read.
Readable(path) == IsFile(path) /\ disk[path].whole

\* What the adapters of a runtime import before they look at any file.
Imports == [pytorch |-> {}, onnxruntime |-> {"onnxruntime"},
            tensorrt |-> {"tensorrt", "cuda", "binding"}]

CanRun(m) == Imports[Registry[m].runtime] \subseteq Installed

\* The registry asks for the package and the device, not for the binding.
runtime_available(m) == Imports[Registry[m].runtime] \ {"binding"} \subseteq Installed

\* process_asset takes no job for a model that is for GPUs and needs no checkpoint.
Anything(m)  == TRUE
Submitted(m) == Registry[m].runtime # "tensorrt"

\* GET /v1/models: the primary checkpoint, or the graph, without its runtime.
Listed(m) ==
    IF Registry[m].onnx # None THEN IsFile(RepoPlace(Registry[m].onnx))
    ELSE Registry[m].weights # <<>> => IsFile(Target(Head(Registry[m].weights)))

\* What a client is told of m by it and by the catalogue, before it submits a job.
catalogue(m) ==
    [listed |-> Listed(m), weights |-> weights_available(m), runtime |-> runtime_available(m)]

usable(said) == said.weights /\ said.runtime

-----------------------------------------------------------------------------

Keys == Models \X Precisions
NoTraining == [pc |-> "idle", epochs |-> 0, scores |-> <<>>, best |-> -1]
NoFetch    == [pc |-> "idle"]
NotConverting == [pc |-> "idle"]
NotExporting == [pc |-> "idle"]
NoWork == [pc |-> "idle"]

TypeOK ==
    /\ weights_dir \in {"repo", "mounted"} /\ writes \in 0 .. MaxWrites
    /\ \A p \in Places : disk[p] = NoFile \/ disk[p].stamp \in 1 .. writes
    /\ trainer.pc \in {"idle", "train", "save"} /\ trainer.epochs \in 0 .. MaxEpochs
    /\ Len(trainer.scores) <= trainer.epochs /\ trainer.best \in Scores \cup {-1}
    /\ \A d \in Downloaders : download[d].pc \in {"idle", "try", "install", "done"}
    /\ converter.pc \in {"idle", "verify", "hash", "replace"}
    /\ exporter.pc \in {"idle", "write", "reload", "compare"}
    /\ worker.pc \in {"idle", "load", "trim"} /\ bench.pc \in {"idle", "loaded", "stat"}
    /\ Range(cache) \subseteq Keys /\ resident \subseteq Keys /\ given \in Keys \cup {None}
    /\ DOMAIN memo \subseteq Places \X (0 .. MaxWrites)
    /\ starts \in 0 .. MaxStarts

Init ==
    /\ weights_dir \in WeightsDirs
    /\ disk = [p \in Places |-> NoFile] /\ writes = 0
    /\ trainer = NoTraining /\ latest = NoTraining
    /\ download = [d \in Downloaders |-> NoFetch]
    /\ converter = NotConverting /\ exporter = NotExporting /\ verdict = None
    /\ worker = NoWork /\ cache = <<>> /\ resident = {} /\ given = None /\ refused = None
    /\ bench = NoWork /\ memo = [k \in {} |-> None] /\ row = None
    /\ starts = 0

\* Another piece of work begins.
Busy == Cardinality({d \in Downloaders : download[d].pc \notin {"idle", "done"}}
                    \cup {p \in {"trainer", "converter", "exporter", "worker", "bench"} :
                            [trainer |-> trainer, converter |-> converter, exporter |-> exporter,
                             worker |-> worker, bench |-> bench][p].pc # "idle"})
Begins == Busy < MaxBusy /\ starts < MaxStarts /\ starts' = starts + 1

-----------------------------------------------------------------------------
(* training/train.py: the best checkpoint is saved in place *)

Checkpoint == RepoPlace(ARCHITECTURES[Trained].file)

TrainStarts ==
    /\ trainer.pc = "idle" /\ Begins
    /\ \E n \in 0 .. MaxEpochs : trainer' = [NoTraining EXCEPT !.pc = "train", !.epochs = n]
    /\ latest' = NoTraining
    /\ UNCHANGED <<weights_dir, files, download, converter, exporting, serving, measuring>>

LastEpoch(score, best) == TRUE
Improves(score, best)  == score > best

AloneInTraining ==
    UNCHANGED <<weights_dir, download, converter, exporting, serving, measuring, starts>>

EpochsLeft == Len(trainer.scores) < trainer.epochs

Epoch(score) ==
    /\ trainer.pc = "train" /\ EpochsLeft
    /\ LET scored == [trainer EXCEPT !.scores = Append(@, score)] IN
       IF Improves(score, trainer.best)
       THEN /\ trainer' = [scored EXCEPT !.best = score, !.pc = "save"]
            /\ Put(Checkpoint, <<"run", scored.scores>>, FALSE)
       ELSE trainer' = scored /\ UNCHANGED files
    /\ latest' = latest /\ AloneInTraining

Saves ==
    /\ trainer.pc = "save"
    /\ Put(Checkpoint, <<"run", trainer.scores>>, TRUE)
    /\ trainer' = [trainer EXCEPT !.pc = "train"]
    /\ latest' = latest /\ AloneInTraining

TrainEnds ==
    /\ trainer.pc = "train" /\ ~EpochsLeft
    /\ latest' = trainer /\ trainer' = NoTraining
    /\ UNCHANGED files /\ AloneInTraining

TrainDies ==
    /\ trainer.pc # "idle" /\ trainer' = NoTraining
    /\ latest' = latest /\ UNCHANGED files /\ AloneInTraining

-----------------------------------------------------------------------------
(* download_weights.py *)

SetFetch(d, f) == download' = [download EXCEPT ![d] = f]
Fetching(d, pc) == download[d].pc = pc
Free(d) == Fetching(d, "idle") \/ Fetching(d, "done")
AloneInDownload == UNCHANGED <<weights_dir, training, converter, exporting, serving, measuring>>

Fetch(d, s) ==
    /\ Free(d) /\ Begins /\ SOURCES[s].urls > 0
    /\ \E force \in BOOLEAN : force \/ ~IsFile(Target(SOURCES[s].file))
    /\ SetFetch(d, [pc |-> "try", source |-> s, url |-> 1])
    /\ UNCHANGED files /\ AloneInDownload

NextMirror(d) ==
    SetFetch(d, IF download[d].url < SOURCES[download[d].source].urls
                THEN [download[d] EXCEPT !.url = @ + 1] ELSE NoFetch)

\* known: the answer had a Content-Length.
LengthOnly(s, b, whole, known) == known => whole
PinOnly(s, b, whole, known) == SOURCES[s].pinned => whole /\ b = <<"genuine", s>>
Accepts(s, b, whole, known) ==
    /\ known => whole
    /\ SOURCES[s].pinned => whole /\ b = <<"genuine", s>>

\* One mirror: it is out of reach, breaks off, or sends what the pin or the length
\* refuses; or the temporary file is ready to take its place.
Streams(d) ==
    /\ Fetching(d, "try")
    /\ LET s == download[d].source IN
       \/ NextMirror(d)
       \/ \E b \in {<<"genuine", s>>, <<"wrong">>}, whole, known \in BOOLEAN :
            /\ Accepts(s, b, whole, known)
            /\ SetFetch(d, [pc |-> "install", source |-> s, bytes |-> b, whole |-> whole,
                            known |-> known])
    /\ UNCHANGED <<files, starts>> /\ AloneInDownload

Installs(d) ==
    LET f == download[d] IN
    /\ Fetching(d, "install")
    /\ Put(Target(SOURCES[f.source].file), f.bytes, f.whole)
    /\ SetFetch(d, [pc |-> "done", source |-> f.source, known |-> f.known, stamp |-> writes'])
    /\ UNCHANGED starts /\ AloneInDownload

\* Its temporary file stays behind under a name nothing reads.
DownloadDies(d) ==
    /\ ~Free(d) /\ SetFetch(d, NoFetch) /\ UNCHANGED <<files, starts>> /\ AloneInDownload

-----------------------------------------------------------------------------
(* models/u2net/from_onnx.py *)

Convert(c) == converter' = c
AloneInConverter == UNCHANGED <<weights_dir, training, download, exporting, serving, measuring>>

\* The tensors come from a graph that can be read; the file is opened twice more.
ConvertReads(c, dir) ==
    LET graph == <<dir, c[1]>> IN
    /\ converter.pc = "idle" /\ Begins /\ IsFile(graph) /\ disk[graph].whole
    /\ Convert([pc |-> "verify", from |-> graph, to |-> <<dir, c[2]>>,
                graph |-> disk[graph].bytes])
    /\ UNCHANGED files /\ AloneInConverter

\* Parity with what onnxruntime makes of the file now.
ConvertVerifies ==
    /\ converter.pc = "verify"
    /\ LET now == disk[converter.from] IN
       Convert(IF now.whole /\ now.bytes = converter.graph
               THEN [converter EXCEPT !.pc = "hash"] ELSE NotConverting)
    /\ UNCHANGED <<files, starts>> /\ AloneInConverter

\* source_sha256 is the digest of the file as it is after parity.
ConvertHashes ==
    /\ converter.pc = "hash"
    /\ Convert([pc |-> "replace", to |-> converter.to,
                made |-> <<"converted", converter.graph, disk[converter.from].bytes>>])
    /\ UNCHANGED <<files, starts>> /\ AloneInConverter

ConvertReplaces ==
    /\ converter.pc = "replace"
    /\ Put(converter.to, converter.made, TRUE)
    /\ Convert(NotConverting)
    /\ UNCHANGED starts /\ AloneInConverter

ConvertDies ==
    /\ converter.pc # "idle" /\ Convert(NotConverting) /\ UNCHANGED <<files, starts>> /\ AloneInConverter

-----------------------------------------------------------------------------
(* models/export_onnx.py *)

Export(e) == exporter' = e
AloneInExporter == UNCHANGED <<weights_dir, training, download, converter, serving, measuring>>

\* A checkpoint that loads is traced into a graph, which is written in place.
ExportStarts(m) ==
    LET graph == <<"graph", disk[ResolveWeights(m)].bytes>> IN
    /\ exporter.pc = "idle" /\ Begins /\ Readable(ResolveWeights(m))
    /\ Export([pc |-> "write", model |-> m, to |-> Target(GRAPHS[m].file), graph |-> graph])
    /\ Put(Target(GRAPHS[m].file), graph, FALSE)
    /\ verdict' = None
    /\ AloneInExporter

\* --skip-verify ends it here.
ExportWrites ==
    /\ exporter.pc = "write"
    /\ Put(exporter.to, exporter.graph, TRUE)
    /\ Export([exporter EXCEPT !.pc = "reload"]) \/ Export(NotExporting)
    /\ UNCHANGED <<verdict, starts>> /\ AloneInExporter

\* verify_parity loads the model again from its checkpoint as it is now.
Traced(e, p)   == e.graph[2]
Reloaded(e, p) == disk[p].bytes

ExportReloads ==
    LET p == ResolveWeights(exporter.model) IN
    /\ exporter.pc = "reload"
    /\ Export(IF Readable(p)
              THEN [pc |-> "compare", to |-> exporter.to, from |-> p,
                    loaded |-> Reloaded(exporter, p), read |-> disk[p].stamp]
              ELSE NotExporting)
    /\ UNCHANGED <<files, verdict, starts>> /\ AloneInExporter

\* A graph onnxruntime cannot open ends it without a report; one that disagrees stays.
ExportCompares ==
    LET graph == disk[exporter.to] IN
    /\ exporter.pc = "compare"
    /\ verdict' = IF graph.whole
                  THEN [passed |-> graph.bytes = <<"graph", exporter.loaded>>,
                        checkpoint |-> exporter.from, read |-> exporter.read,
                        graph |-> exporter.to, opened |-> graph.stamp]
                  ELSE verdict
    /\ Export(NotExporting)
    /\ UNCHANGED <<files, starts>> /\ AloneInExporter

ExportDies ==
    /\ exporter.pc # "idle" /\ Export(NotExporting)
    /\ UNCHANGED <<files, verdict, starts>> /\ AloneInExporter

-----------------------------------------------------------------------------
(* runner.py: ModelCache.get *)

AloneInWorker ==
    UNCHANGED <<weights_dir, files, training, download, converter, exporting, measuring>>

MovesToEnd(k) ==
    \E i \in DOMAIN cache : cache[i] = k /\ cache' = Append(RemoveAt(cache, i), k)

Get(k) ==
    /\ worker.pc = "idle" /\ Begins /\ Submitted(k[1])
    /\ IF k \in Range(cache)
       THEN /\ MovesToEnd(k) /\ given' = k
            /\ UNCHANGED worker
       ELSE /\ worker' = [pc |-> "load", key |-> k, said |-> catalogue(k[1]),
                          path |-> IF NeedsFile(k[1]) THEN ResolveWeights(k[1]) ELSE None]
            /\ given' = None /\ UNCHANGED cache
    /\ refused' = None
    /\ UNCHANGED resident /\ AloneInWorker

Loads(m, path) == CanRun(m) /\ (path = None \/ Readable(path))

\* What refuses a model: its runtime, then its file, then what is in the file.  Content
\* that is not the published one may be another model's weights, which load with a
\* warning, or no weights at all.
Refuses(m, path, why) ==
    \/ why = "runtime" /\ ~CanRun(m)
    \/ /\ CanRun(m) /\ path # None
       /\ \/ why = "file" /\ ~IsFile(path)
          \/ why = "content" /\ IsFile(path) /\ (disk[path].whole => disk[path].bytes = <<"wrong">>)

Load ==
    /\ worker.pc = "load"
    /\ \/ /\ Loads(worker.key[1], worker.path)
          /\ resident' = resident \cup {worker.key}
          /\ cache' = Append(cache, worker.key)
          /\ worker' = [pc |-> "trim", key |-> worker.key]
          /\ UNCHANGED refused
       \/ \E why \in {"runtime", "file", "content"} :
          /\ Refuses(worker.key[1], worker.path, why)
          /\ refused' = [said |-> worker.said, why |-> why]
          /\ worker' = NoWork
          /\ UNCHANGED <<resident, cache>>
    /\ UNCHANGED <<given, starts>> /\ AloneInWorker

Oldest(c) == Head(c)
Kept(k) == resident
Unload(k) == resident \ {k}

Trim ==
    /\ worker.pc = "trim"
    /\ IF Len(cache) > MaxEntries
       THEN /\ resident' = Unload(Oldest(cache))
            /\ cache' = Tail(cache)
            /\ UNCHANGED <<worker, given>>
       ELSE /\ given' = worker.key /\ worker' = NoWork
            /\ UNCHANGED <<cache, resident>>
    /\ UNCHANGED <<refused, starts>> /\ AloneInWorker

WorkerDies ==
    /\ worker' = NoWork /\ cache' = <<>> /\ resident' = {} /\ given' = None /\ refused' = None
    /\ UNCHANGED starts /\ AloneInWorker

-----------------------------------------------------------------------------
(* The harness loads a model and later writes the digest of its file in the row: the *)
(* checkpoint, or the graph of an ONNX model.  A TensorRT row digests an engine file. *)

AloneInBench ==
    UNCHANGED <<weights_dir, files, training, download, converter, exporting, serving>>

BenchLoads(m) ==
    /\ bench.pc = "idle" /\ Begins
    /\ Registry[m].runtime # "tensorrt" /\ NeedsFile(m)
    /\ CanRun(m) /\ Readable(ResolveWeights(m))
    /\ LET p == ResolveWeights(m) IN
       bench' = [pc |-> "loaded", path |-> p, bytes |-> disk[p].bytes, stamp |-> disk[p].stamp,
                 mtime |-> 0]
    /\ UNCHANGED <<memo, row>> /\ AloneInBench

BenchStats ==
    /\ bench.pc = "loaded"
    /\ bench' = [bench EXCEPT !.pc = "stat", !.mtime = disk[bench.path].stamp]
    /\ UNCHANGED <<memo, row, starts>> /\ AloneInBench

PathOnly(path, mtime) == <<path, 0>>
DigestKey(path, mtime) == <<path, mtime>>

BenchDigests ==
    /\ bench.pc = "stat"
    /\ LET k == DigestKey(bench.path, bench.mtime)
           d == IF k \in DOMAIN memo THEN memo[k] ELSE disk[bench.path].bytes IN
       /\ memo' = [j \in DOMAIN memo \cup {k} |-> IF j = k THEN d ELSE memo[j]]
       /\ row' = [loaded |-> bench.bytes, digest |-> d,
                  steady |-> disk[bench.path].stamp = bench.stamp]
    /\ bench' = NoWork
    /\ UNCHANGED starts /\ AloneInBench

-----------------------------------------------------------------------------

Next ==
    \/ TrainStarts \/ \E s \in Scores : Epoch(s)
    \/ Saves \/ TrainEnds \/ TrainDies
    \/ \E d \in Downloaders : \/ \E s \in Wanted : Fetch(d, s)
                              \/ Streams(d) \/ Installs(d) \/ DownloadDies(d)
    \/ \E c \in Conversions, dir \in {"repo", "mounted"} : ConvertReads(c, dir)
    \/ ConvertVerifies \/ ConvertHashes \/ ConvertReplaces \/ ConvertDies
    \/ \E m \in Exported : ExportStarts(m)
    \/ ExportWrites \/ ExportReloads \/ ExportCompares \/ ExportDies
    \/ \E k \in Keys : Get(k)
    \/ Load \/ Trim \/ WorkerDies
    \/ \E m \in Models : BenchLoads(m)
    \/ BenchStats \/ BenchDigests

Spec == Init /\ [][Next]_vars

-----------------------------------------------------------------------------

\* A pinned file is whole and the published one (from_onnx: "downloaded against a pinned
\* digest"), and one whose length was announced is whole for as long as it is what that
\* download installed, pinned or not (download: "an interrupted download never leaves a
\* truncated file"), whatever broke off, was killed or was installed over it in between.
DownloadsAreWhole ==
    /\ \A s \in Wanted : LET p == Target(SOURCES[s].file) IN
         SOURCES[s].pinned /\ IsFile(p) => disk[p].whole /\ disk[p].bytes = <<"genuine", s>>
    /\ \A d \in Downloaders : Fetching(d, "done") =>
         LET f == download[d]
             p == Target(SOURCES[f.source].file) IN
         f.known /\ disk[p].stamp = f.stamp => disk[p].whole

\* The source_sha256 a converted checkpoint carries is the digest of the graph its
\* tensors came from, although the graph is read and hashed at different moments
\* and may be downloaded again in between.
ProvenanceIsTrue ==
    \A p \in Places : LET b == disk[p].bytes IN
        IsFile(p) /\ b[1] = "converted" => b[2] = b[3]

\* After a run the checkpoint is whole and is the first epoch that reached the best
\* score the run's record claims.
RunNamesItsBest ==
    LET epochs == DOMAIN latest.scores
        highest == {n \in epochs : \A k \in epochs : latest.scores[k] <= latest.scores[n]}
        first == CHOOSE n \in highest : \A k \in highest : n <= k IN
    latest.pc # "idle" /\ epochs # {} =>
        /\ latest.best = latest.scores[first]
        /\ disk[Checkpoint].whole /\ disk[Checkpoint].bytes = <<"run", SubSeq(latest.scores, 1, first)>>

\* The model a pipeline is given is on the device and will be found again; nothing
\* evicted stays there, and one model more than the bound is loaded only while the
\* cache is being trimmed.
CacheHoldsTheDevice ==
    /\ given # None => given \in resident
    /\ resident = Range(cache)
    /\ Cardinality(resident) <= IF worker.pc = "trim" THEN MaxEntries + 1 ELSE MaxEntries

\* What a client was told holds when the job runs (catalog.py: "instead of queueing a
\* job that is guaranteed to fail"): a listed model is not refused for a missing file;
\* nor is one the catalogue calls available, when the weights directory is the
\* repository's; and one it calls usable is then refused only for what is in its file,
\* although the registry does not ask for the binding TensorRT needs.
AvailableLoads ==
    refused # None =>
        /\ refused.said.listed => refused.why # "file"
        /\ weights_dir = "repo" /\ refused.said.weights => refused.why # "file"
        /\ weights_dir = "repo" /\ usable(refused.said) => refused.why = "content"

\* A graph that passed parity is the graph of the checkpoint it was compared with, as
\* long as neither file was written since it was opened: a training run may have saved
\* another checkpoint between the export and the comparison (export_onnx.py:
\* "Exporting without verifying is how a 'working' ONNX deployment silently serves
\* different masks").
ExportsMatch ==
    LET steady == /\ disk[verdict.checkpoint].stamp = verdict.read
                  /\ disk[verdict.graph].stamp = verdict.opened IN
    verdict # None /\ verdict.passed /\ steady =>
        /\ disk[verdict.graph].whole
        /\ disk[verdict.graph].bytes = <<"graph", disk[verdict.checkpoint].bytes>>

\* Downloaders, the converter, the exporter and forced downloads meet at the same files:
\* what a pin, an announced length, a provenance or a parity report vouches for is so.
\* Nothing vouches for a checkpoint or a graph that is being written in place.
FilesAreTrue == DownloadsAreWhole /\ ProvenanceIsTrue /\ ExportsMatch

\* Every part of the state has its shape, a model that is said to be available loads,
\* and what is loaded is what the cache accounts for.
LoadsAreSound == TypeOK /\ AvailableLoads /\ CacheHoldsTheDevice

\* A row of a checkpoint or a graph nobody wrote between its load and its digest names
\* the weights that were measured, also after it was trained or exported again in place.
RowNamesItsWeights == row # None /\ row.steady => row.digest = row.loaded
=============================================================================
