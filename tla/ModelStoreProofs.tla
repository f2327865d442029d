---------------------------- MODULE ModelStoreProofs ----------------------------
(***************************************************************************)
(* Proofs about ModelStore, for every set of models, sources, conversions, *)
(* downloads and processes and every number of writes.                     *)
(***************************************************************************)
EXTENDS ModelStore, FiniteSetTheorems, TLAPS

USE StoreAssumption, PinAssumption, NameAssumption

-----------------------------------------------------------------------------
(* Files: a write replaces one of them and gives it a stamp no file has had *)

FilesTyped ==
    /\ writes \in Nat /\ DOMAIN disk = Places
    /\ \A p \in Places : disk[p].stamp \in 0 .. writes
    /\ \A p \in Places : disk[p] # NoFile => disk[p].stamp > 0

LEMMA PutTyped ==
    ASSUME FilesTyped, NEW p, NEW b, NEW w, Put(p, b, w)
    PROVE  /\ FilesTyped'
           /\ \A q \in Places \ {p} : disk'[q] = disk[q]
           /\ p \in Places => disk'[p].bytes = b /\ disk'[p].whole = w /\ disk'[p].stamp = writes + 1
           /\ \A q : IsFile(q) => IsFile(q)'
           /\ \A q \in Places : disk'[q].stamp >= disk[q].stamp
  <1> DEFINE file == [bytes |-> b, whole |-> w, stamp |-> writes']
  <1>1. disk' = [disk EXCEPT ![p] = file] /\ writes' = writes + 1  BY DEF Put
  <1>2. file.bytes = b /\ file.whole = w /\ file.stamp = writes + 1  BY <1>1
  <1>3. file # NoFile  BY <1>2 DEF NoFile, FilesTyped
  <1> HIDE DEF file
  <1> QED  BY <1>1, <1>2, <1>3 DEF FilesTyped, IsFile

-----------------------------------------------------------------------------
(***************************************************************************)
(* Where bytes come from.  A pinned file is genuine wherever it is, since  *)
(* only its own download writes it; so a graph that is converted is the    *)
(* same bytes when it is read and when it is hashed.                       *)
(***************************************************************************)

Genuine ==
    \A s \in Wanted, dir \in {"repo", "mounted"} :
        LET p == <<dir, SOURCES[s].file>> IN
        SOURCES[s].pinned /\ IsFile(p) => disk[p].whole /\ disk[p].bytes = <<"genuine", s>>

\* What a download is about to install was compared with its pin.
Fetched(f) ==
    /\ f.pc \in {"idle", "try", "install", "done"}
    /\ f.pc # "idle" => /\ {"pc", "source"} \subseteq DOMAIN f /\ f.source \in Wanted
                        /\ SOURCES[f.source].urls > 0
    /\ f.pc = "install" =>
         /\ f.known => f.whole
         /\ f.bytes \in {<<"genuine", f.source>>, <<"wrong">>}
         /\ SOURCES[f.source].pinned => f.whole /\ f.bytes = <<"genuine", f.source>>

\* What the converter extracted is what is published under the graph's name.
Extracted ==
    /\ converter.pc \in {"idle", "verify", "hash", "replace"}
    /\ converter.pc \in {"verify", "hash"} =>
         {"pc", "from", "to", "graph"} \subseteq DOMAIN converter
    /\ converter.pc \in {"verify", "hash"} =>
         \E s \in Wanted, dir \in {"repo", "mounted"}, c \in Conversions :
            /\ SOURCES[s].pinned /\ c[1] = SOURCES[s].file
            /\ converter.from = <<dir, c[1]>> /\ converter.to = <<dir, c[2]>>
            /\ IsFile(converter.from) /\ converter.graph = <<"genuine", s>>
    /\ converter.pc = "replace" =>
         /\ \E dir \in {"repo", "mounted"}, c \in Conversions : converter.to = <<dir, c[2]>>
         /\ \E b : converter.made = <<"converted", b, b>>

\* The exporter writes graphs, under the names it gives them.
Exporting ==
    /\ exporter.pc \in {"idle", "write", "reload", "compare"}
    /\ exporter.pc # "idle" =>
         /\ {"pc", "to"} \subseteq DOMAIN exporter
         /\ \E m \in Exported, dir \in {"repo", "mounted"} : exporter.to = <<dir, GRAPHS[m].file>>
    /\ exporter.pc = "write" => exporter.graph[1] = "graph"

Origin ==
    /\ FilesTyped /\ weights_dir \in {"repo", "mounted"}
    /\ Genuine /\ ProvenanceIsTrue
    /\ DOMAIN download = Downloaders /\ \A d \in Downloaders : Fetched(download[d])
    /\ Extracted /\ Exporting

LEMMA OriginInitial == Init => Origin
  BY DEF Init, Origin, FilesTyped, NoFile, Genuine, ProvenanceIsTrue, IsFile, NoFetch, Fetched,
         NotConverting, Extracted, NotExporting, Exporting

LEMMA NamedEntry ==
    ASSUME NEW entries, NEW n \in DOMAIN Named(entries)
    PROVE  Named(entries)[n] \in entries /\ Named(entries)[n].name = n
  <1>1. PICK e \in entries : e.name = n  BY DEF Named
  <1> QED  BY <1>1 DEF Named

\* What is fetched, trained and exported goes to different files.
LEMMA TablesDiffer ==
    ASSUME NEW s \in DOMAIN SOURCES, NEW a \in DOMAIN ARCHITECTURES, NEW m \in DOMAIN GRAPHS
    PROVE  /\ SOURCES[s].urls > 0 => SOURCES[s].file # ARCHITECTURES[a].file
           /\ GRAPHS[m].file # SOURCES[s].file /\ GRAPHS[m].file # ARCHITECTURES[a].file
  <1> HIDE PinAssumption, NameAssumption, StoreAssumption
  <1>1. /\ SOURCES[s].urls > 0 =>
             SOURCES[s].file \in {"u2net.onnx", "u2netp.onnx", "u2net.pth", "u2netp.pth"}
        /\ SOURCES[s].file \in {"u2net.onnx", "u2netp.onnx", "u2net.pth", "u2netp.pth",
                                "birefnet-compact.pt", "cutoutnet-small.pt"}
    BY NamedEntry DEF SOURCES, Source
  <1>2. ARCHITECTURES[a].file \in
          {"cutoutnet-tiny.pt", "cutoutnet-small.pt", "cutoutnet-base.pt", "u2net-lite.pt",
           "u2net-full.pt", "birefnet-compact.pt", "birefnet-tiny.pt"}
    BY NamedEntry DEF ARCHITECTURES, Checkpointed
  <1>3. GRAPHS[m].file \in
          {"cutoutnet-small.onnx", "cutoutnet-tiny-tiny.onnx", "cutoutnet-base-base.onnx",
           "u2net-full.onnx", "u2netp-lite.onnx", "u2net-lite-lite.onnx", "birefnet-compact.onnx"}
    BY NamedEntry DEF GRAPHS, Exports
  <1>4. SOURCES[s].urls > 0 => SOURCES[s].file # ARCHITECTURES[a].file  BY <1>1, <1>2
  <1>5. GRAPHS[m].file # SOURCES[s].file  BY <1>1, <1>3
  <1>6. GRAPHS[m].file # ARCHITECTURES[a].file  BY <1>2, <1>3
  <1> QED  BY <1>4, <1>5, <1>6

\* A write of a pinned file writes what is pinned.
Rightful(p, b, w) ==
    \A s \in Wanted, dir \in {"repo", "mounted"} :
        SOURCES[s].pinned /\ p = <<dir, SOURCES[s].file>> => w = TRUE /\ b = <<"genuine", s>>

\* A rightful write leaves every pinned file genuine.
LEMMA PutKeepsGenuine ==
    ASSUME Origin, NEW p, NEW b, NEW w, Put(p, b, w),
           Rightful(p, b, w)
    PROVE  Genuine'
  <1> SUFFICES ASSUME NEW s \in Wanted, NEW dir \in {"repo", "mounted"}, SOURCES[s].pinned,
                      IsFile(<<dir, SOURCES[s].file>>)'
               PROVE  /\ disk'[<<dir, SOURCES[s].file>>].whole
                      /\ disk'[<<dir, SOURCES[s].file>>].bytes = <<"genuine", s>>
    BY DEF Genuine
  <1> DEFINE q == <<dir, SOURCES[s].file>>
  <1>1. q \in Places  BY PutTyped DEF Origin, FilesTyped, IsFile
  <1>2. CASE q = p
    <2>1. w = TRUE /\ b = <<"genuine", s>>  BY <1>2 DEF Rightful
    <2>2. disk'[p].bytes = b /\ disk'[p].whole = w  BY <1>1, <1>2, PutTyped DEF Origin
    <2> QED  BY <1>2, <2>1, <2>2
  <1>3. CASE q # p
    <2>1. disk'[q] = disk[q]  BY <1>1, <1>3, PutTyped DEF Origin
    <2>2. IsFile(q)  BY <1>1, <2>1 DEF Origin, FilesTyped, IsFile
    <2> QED  BY <2>1, <2>2 DEF Origin, Genuine
  <1> QED  BY <1>2, <1>3

LEMMA PutKeepsProvenance ==
    ASSUME Origin, NEW p, NEW b, NEW w, Put(p, b, w), b[1] = "converted" => b[2] = b[3]
    PROVE  ProvenanceIsTrue'
  <1> SUFFICES ASSUME NEW q \in Places, IsFile(q)', disk'[q].bytes[1] = "converted"
               PROVE  disk'[q].bytes[2] = disk'[q].bytes[3]
    BY DEF ProvenanceIsTrue
  <1>1. CASE q = p  BY <1>1, PutTyped DEF Origin
  <1>2. CASE q # p
    <2>1. disk'[q] = disk[q]  BY <1>2, PutTyped DEF Origin
    <2> QED  BY <2>1 DEF Origin, FilesTyped, IsFile, ProvenanceIsTrue
  <1> QED  BY <1>1, <1>2

\* Nothing takes a file away under a converter that read it.
LEMMA PutKeepsExtracted ==
    ASSUME Origin, NEW p, NEW b, NEW w, Put(p, b, w), converter' = converter
    PROVE  Extracted'
  <1>1. \A q : IsFile(q) => IsFile(q)'  BY PutTyped DEF Origin
  <1> QED  BY <1>1 DEF Origin, Extracted

\* A write of a file that is not pinned, by one that does not convert.
LEMMA PlainOrigin ==
    ASSUME Origin, NEW p, NEW b, b[1] # "converted", NEW w, Put(p, b, w),
           \A s \in Wanted, dir \in {"repo", "mounted"} :
             SOURCES[s].pinned => p # <<dir, SOURCES[s].file>>,
           UNCHANGED <<weights_dir, download, converter>>, Exporting'
    PROVE  Origin'
  <1>1. Genuine'
    <2>1. Rightful(p, b, w)  BY DEF Rightful
    <2> QED  BY <2>1, PutKeepsGenuine
  <1>2. ProvenanceIsTrue'  BY PutKeepsProvenance
  <1>3. Extracted' /\ FilesTyped'  BY PutKeepsExtracted, PutTyped DEF Origin
  <1> QED  BY <1>1, <1>2, <1>3 DEF Origin, Fetched

LEMMA TrainerOrigin ==
    ASSUME Origin, (\E s \in Scores : Epoch(s)) \/ Saves, ~UNCHANGED files
    PROVE  Origin'
  <1>1. PICK b, w : b[1] = "run" /\ Put(Checkpoint, b, w)  BY DEF Epoch, Saves
  <1>2. \A s \in Wanted, dir \in {"repo", "mounted"} :
          SOURCES[s].pinned => Checkpoint # <<dir, SOURCES[s].file>>
    BY DEF Checkpoint, RepoPlace
  <1>3. UNCHANGED <<weights_dir, download, converter, exporting>>
    BY DEF Epoch, Saves, AloneInTraining
  <1>4. Exporting'  BY <1>3 DEF Origin, Exporting, exporting
  <1> QED  BY <1>1, <1>2, <1>3, <1>4, PlainOrigin

\* A write of the exporter, and where it stands after it.
WritesGraph(m, dir, b, w) ==
    /\ b[1] = "graph" /\ Put(<<dir, GRAPHS[m].file>>, b, w)
    /\ \/ exporter' = NotExporting
       \/ /\ {"pc", "to"} \subseteq DOMAIN exporter' /\ exporter'.to = <<dir, GRAPHS[m].file>>
          /\ exporter'.pc \in {"write", "reload"}
          /\ exporter'.pc = "write" => exporter'.graph[1] = "graph"

LEMMA ExportWritesOrigin ==
    ASSUME Origin, (\E m \in Exported : ExportStarts(m)) \/ ExportWrites
    PROVE  Origin'
  <1>1. PICK m \in Exported, dir \in {"repo", "mounted"} : \E b, w : WritesGraph(m, dir, b, w)
    <2>1. ASSUME NEW m \in Exported, ExportStarts(m)
          PROVE  \E b, w : WritesGraph(m, weights_dir, b, w)
      <3> DEFINE g == <<"graph", disk[ResolveWeights(m)].bytes>>
                 to == <<weights_dir, GRAPHS[m].file>>
                 e == [pc |-> "write", model |-> m, to |-> to, graph |-> g]
      <3>1. Put(to, g, FALSE) /\ exporter' = e
        BY <2>1 DEF ExportStarts, Target, Export
      <3>2. /\ g[1] = "graph" /\ {"pc", "to"} \subseteq DOMAIN e /\ e.to = to
            /\ e.pc = "write" /\ e.graph = g
        OBVIOUS
      <3> HIDE DEF e, g
      <3>3. WritesGraph(m, weights_dir, g, FALSE)  BY <3>1, <3>2 DEF WritesGraph
      <3> QED  BY <3>3
    <2>2. CASE ExportWrites
      <3>1. PICK m \in Exported, dir \in {"repo", "mounted"} : exporter.to = <<dir, GRAPHS[m].file>>
        BY <2>2 DEF ExportWrites, Origin, Exporting
      <3>2. /\ exporter.graph[1] = "graph" /\ Put(exporter.to, exporter.graph, TRUE)
            /\ {"pc", "to"} \subseteq DOMAIN exporter
            /\ exporter' = NotExporting \/ exporter' = [exporter EXCEPT !.pc = "reload"]
        BY <2>2 DEF ExportWrites, Export, Origin, Exporting
      <3>3. Put(<<dir, GRAPHS[m].file>>, exporter.graph, TRUE)  BY <3>1, <3>2
      <3>4. \/ exporter' = NotExporting
            \/ /\ {"pc", "to"} \subseteq DOMAIN exporter' /\ exporter'.to = <<dir, GRAPHS[m].file>>
               /\ exporter'.pc = "reload"
        <4>1. exporter' = [exporter EXCEPT !.pc = "reload"] =>
                /\ {"pc", "to"} \subseteq DOMAIN exporter' /\ exporter'.to = exporter.to
                /\ exporter'.pc = "reload"
          BY <3>2
        <4> QED  BY <3>1, <3>2, <4>1
      <3>5. exporter'.pc = "reload" => exporter'.pc # "write"  OBVIOUS
      <3>6. WritesGraph(m, dir, exporter.graph, TRUE)
        BY <3>2, <3>3, <3>4, <3>5 DEF WritesGraph
      <3> QED  BY <3>6
    <2> QED  BY <2>1, <2>2 DEF Origin
  <1>2. PICK b, w : WritesGraph(m, dir, b, w)  BY <1>1
  <1>3. \A s \in Wanted, d \in {"repo", "mounted"} :
          <<dir, GRAPHS[m].file>> # <<d, SOURCES[s].file>>
    <2>1. \A s \in Wanted : GRAPHS[m].file # SOURCES[s].file
      BY TablesDiffer
    <2> QED  BY <2>1
  <1>4. UNCHANGED <<weights_dir, download, converter>>
    BY DEF ExportStarts, ExportWrites, AloneInExporter
  <1>5. b[1] = "graph" /\ Put(<<dir, GRAPHS[m].file>>, b, w)  BY <1>2 DEF WritesGraph
  <1>6. Exporting'  BY <1>2 DEF WritesGraph, Exporting, NotExporting
  <1> QED  BY <1>3, <1>4, <1>5, <1>6, PlainOrigin

LEMMA InstallOrigin ==
    ASSUME Origin, NEW d \in Downloaders, Installs(d)
    PROVE  Origin'
  <1> DEFINE f == download[d]
             p == Target(SOURCES[f.source].file)
  <1>1. /\ Put(p, f.bytes, f.whole) /\ f.pc = "install" /\ Fetched(f)
        /\ download' = [download EXCEPT
                          ![d] = [pc |-> "done", source |-> f.source, known |-> f.known, stamp |-> writes']]
        /\ weights_dir' = weights_dir /\ converter' = converter /\ exporter' = exporter
    BY DEF Installs, Origin, Fetching, SetFetch, AloneInDownload, exporting
  <1>2. f.source \in Wanted  BY <1>1 DEF Fetched
  <1>3. ASSUME NEW s \in Wanted, NEW dir \in {"repo", "mounted"}, SOURCES[s].pinned,
               p = <<dir, SOURCES[s].file>>
        PROVE  f.whole = TRUE /\ f.bytes = <<"genuine", s>>
    <2>1. SOURCES[f.source].file = SOURCES[s].file  BY <1>3 DEF Target
    <2>2. f.source = s  BY <1>2, <1>3, <2>1
    <2> QED  BY <1>1, <1>3, <2>2 DEF Fetched
  <1>4. f.bytes[1] # "converted"  BY <1>1 DEF Fetched
  <1>5. Genuine'
    <2>1. Rightful(p, f.bytes, f.whole)  BY <1>3 DEF Rightful
    <2> HIDE DEF p, f
    <2> QED  BY <1>1, <2>1, PutKeepsGenuine
  <1> HIDE DEF p, f
  <1>6. ProvenanceIsTrue'  BY <1>1, <1>4, PutKeepsProvenance
  <1>7. Extracted' /\ FilesTyped'  BY <1>1, PutKeepsExtracted, PutTyped DEF Origin
  <1>9. Exporting'  BY <1>1 DEF Origin, Exporting
  <1>8. DOMAIN download' = Downloaders /\ \A e \in Downloaders : Fetched(download'[e])
    BY <1>1 DEF Origin, Fetched
  <1> QED  BY <1>1, <1>5, <1>6, <1>7, <1>8, <1>9 DEF Origin

LEMMA ConvertOrigin ==
    ASSUME Origin, ConvertReplaces
    PROVE  Origin'
  <1>1. /\ Put(converter.to, converter.made, TRUE) /\ converter' = NotConverting
        /\ UNCHANGED <<weights_dir, download, exporter>>
    BY DEF ConvertReplaces, Convert, AloneInConverter, exporting
  <1>2. PICK dir \in {"repo", "mounted"}, c \in Conversions : converter.to = <<dir, c[2]>>
    BY DEF ConvertReplaces, Origin, Extracted
  <1>3. PICK b : converter.made = <<"converted", b, b>>
    BY DEF ConvertReplaces, Origin, Extracted
  <1>4. Genuine'
    <2>1. Rightful(converter.to, converter.made, TRUE)  BY <1>2 DEF Rightful
    <2> QED  BY <1>1, <2>1, PutKeepsGenuine
  <1>5. ProvenanceIsTrue'
    <2>1. converter.made[2] = converter.made[3]  BY <1>3
    <2> QED  BY <1>1, <2>1, PutKeepsProvenance
  <1>6. FilesTyped'  BY <1>1, PutTyped DEF Origin
  <1>7. Exporting'  BY <1>1 DEF Origin, Exporting
  <1> QED  BY <1>1, <1>4, <1>5, <1>6, <1>7 DEF Origin, Fetched, Extracted, NotConverting

\* Steps that write no file.
Untouched == UNCHANGED files

LEMMA UntouchedOrigin ==
    ASSUME Origin, Untouched, UNCHANGED weights_dir, Extracted', Exporting',
           DOMAIN download' = Downloaders, \A d \in Downloaders : Fetched(download'[d])
    PROVE  Origin'
  BY SMTT(30) DEF Origin, Untouched, files, FilesTyped, Genuine, IsFile, ProvenanceIsTrue, Fetched

LEMMA FetchOrigin ==
    ASSUME Origin, NEW d \in Downloaders,
           (\E s \in Wanted : Fetch(d, s)) \/ Streams(d) \/ DownloadDies(d)
    PROVE  Origin'
  <1>1. PICK f : download' = [download EXCEPT ![d] = f] /\ Fetched(f)
    <2>1. CASE \E s \in Wanted : Fetch(d, s)
      <3>1. PICK s \in Wanted : Fetch(d, s)  BY <2>1
      <3>2. SOURCES[s].urls > 0  BY <3>1 DEF Fetch
      <3>3. Fetched([pc |-> "try", source |-> s, url |-> 1])  BY <3>2 DEF Fetched
      <3> QED  BY <3>1, <3>3 DEF Fetch, SetFetch
    <2>2. CASE Streams(d)
      <3>1. download[d].pc = "try" /\ Fetched(download[d])  BY <2>2 DEF Streams, Fetching, Origin
      <3>2. CASE NextMirror(d)
        <4>1. Fetched([download[d] EXCEPT !.url = @ + 1]) /\ Fetched(NoFetch)
          BY <3>1 DEF Fetched, NoFetch
        <4> QED  BY <3>2, <4>1 DEF NextMirror, SetFetch
      <3>3. CASE ~NextMirror(d)
        <4> DEFINE s == download[d].source
        <4>1. PICK b \in {<<"genuine", s>>, <<"wrong">>}, whole \in BOOLEAN, known \in BOOLEAN :
                 /\ Accepts(s, b, whole, known)
                 /\ SetFetch(d, [pc |-> "install", source |-> s, bytes |-> b, whole |-> whole,
                                 known |-> known])
          BY <2>2, <3>3 DEF Streams
        <4> DEFINE g == [pc |-> "install", source |-> s, bytes |-> b, whole |-> whole, known |-> known]
        <4>2. Fetched(g)  BY <3>1, <4>1 DEF Fetched, Accepts
        <4> QED  BY <4>1, <4>2 DEF SetFetch
      <3> QED  BY <3>2, <3>3
    <2>3. CASE DownloadDies(d)
      <3>1. Fetched(NoFetch)  BY DEF Fetched, NoFetch
      <3> QED  BY <2>3, <3>1 DEF DownloadDies, SetFetch
    <2> QED  BY <2>1, <2>2, <2>3
  <1>2. UNCHANGED <<files, weights_dir, converter, exporter>>
    BY DEF Fetch, Streams, DownloadDies, AloneInDownload, exporting
  <1>3. Extracted' /\ Exporting'  BY <1>2 DEF Origin, Extracted, Exporting, IsFile, files
  <1>4. DOMAIN download' = Downloaders /\ \A e \in Downloaders : Fetched(download'[e])
    BY <1>1 DEF Origin
  <1> QED  BY <1>2, <1>3, <1>4, UntouchedOrigin DEF Untouched

LEMMA ReadOrigin ==
    ASSUME Origin,
           (\E c \in Conversions, dir \in {"repo", "mounted"} : ConvertReads(c, dir))
             \/ ConvertVerifies \/ ConvertHashes \/ ConvertDies
    PROVE  Origin'
  <1>1. UNCHANGED <<files, weights_dir, download, exporter>>
    BY DEF ConvertReads, ConvertVerifies, ConvertHashes, ConvertDies, AloneInConverter, exporting
  <1>2. Extracted'
    <2>1. CASE \E c \in Conversions, dir \in {"repo", "mounted"} : ConvertReads(c, dir)
      <3>1. PICK c \in Conversions, dir \in {"repo", "mounted"} : ConvertReads(c, dir)  BY <2>1
      <3>2. PICK s \in Wanted : SOURCES[s].pinned /\ SOURCES[s].file = c[1]  OBVIOUS
      <3>3. /\ IsFile(<<dir, c[1]>>)
            /\ converter' = [pc |-> "verify", from |-> <<dir, c[1]>>, to |-> <<dir, c[2]>>,
                             graph |-> disk[<<dir, c[1]>>].bytes]
        BY <3>1 DEF ConvertReads, Convert
      <3>4. disk[<<dir, c[1]>>].bytes = <<"genuine", s>>  BY <3>2, <3>3 DEF Origin, Genuine
      <3> QED  BY <1>1, <3>2, <3>3, <3>4 DEF Extracted, IsFile, files
    <2>2. CASE ConvertHashes
      <3>1. PICK s \in Wanted, dir \in {"repo", "mounted"}, c \in Conversions :
               /\ SOURCES[s].pinned /\ c[1] = SOURCES[s].file
               /\ converter.from = <<dir, c[1]>> /\ converter.to = <<dir, c[2]>>
               /\ IsFile(converter.from) /\ converter.graph = <<"genuine", s>>
        BY <2>2 DEF ConvertHashes, Origin, Extracted
      <3>2. disk[converter.from].bytes = <<"genuine", s>>
        <4>1. converter.from = <<dir, SOURCES[s].file>>  BY <3>1
        <4>2. IsFile(<<dir, SOURCES[s].file>>)  BY <3>1, <4>1
        <4>3. disk[<<dir, SOURCES[s].file>>].bytes = <<"genuine", s>>
          BY <3>1, <4>2 DEF Origin, Genuine
        <4> QED  BY <4>1, <4>3
      <3> QED  BY <2>2, <3>1, <3>2 DEF ConvertHashes, Convert, Extracted
    <2>3. CASE converter' = NotConverting  BY <2>3 DEF NotConverting, Extracted
    <2>4. CASE ConvertVerifies /\ converter' # NotConverting
      <3>1. converter.pc = "verify" /\ converter' = [converter EXCEPT !.pc = "hash"]
        BY <2>4 DEF ConvertVerifies, Convert
      <3>2. /\ converter'.pc = "hash" /\ DOMAIN converter' = DOMAIN converter
            /\ converter'.from = converter.from /\ converter'.to = converter.to
            /\ converter'.graph = converter.graph
        BY <3>1 DEF Origin, Extracted
      <3>3. \A p : IsFile(p)' <=> IsFile(p)  BY <1>1 DEF IsFile, files
      <3> QED  BY <3>1, <3>2, <3>3 DEF Origin, Extracted
    <2> QED  BY <2>1, <2>2, <2>3, <2>4 DEF ConvertDies, Convert
  <1>3. \A d \in Downloaders : Fetched(download'[d])  BY <1>1 DEF Origin
  <1>4. Exporting'  BY <1>1 DEF Origin, Exporting
  <1> QED  BY <1>1, <1>2, <1>3, <1>4, UntouchedOrigin DEF Origin, Untouched

LEMMA ExportOrigin ==
    ASSUME Origin, ExportReloads \/ ExportCompares \/ ExportDies
    PROVE  Origin'
  <1>1. UNCHANGED <<files, weights_dir, download, converter>>
    BY DEF ExportReloads, ExportCompares, ExportDies, AloneInExporter
  <1>2. \/ exporter' = NotExporting
        \/ /\ {"pc", "to"} \subseteq DOMAIN exporter' /\ exporter'.to = exporter.to
           /\ exporter'.pc = "compare" /\ exporter.pc = "reload"
    BY DEF ExportReloads, ExportCompares, ExportDies, Export
  <1>3. Exporting'  BY <1>2 DEF Origin, Exporting, NotExporting
  <1>4. Extracted' /\ \A d \in Downloaders : Fetched(download'[d])
    BY <1>1 DEF Origin, Extracted, IsFile, files
  <1> QED  BY <1>1, <1>3, <1>4, UntouchedOrigin DEF Origin, Untouched

\* The trainer's other steps, the worker and the benchmark process write no file.
LEMMA OriginStep == Origin /\ [Next]_vars => Origin'
<1> SUFFICES ASSUME Origin, [Next]_vars PROVE Origin'
  OBVIOUS
<1>1. CASE ((\E s \in Scores : Epoch(s)) \/ Saves) /\ ~UNCHANGED files
  BY <1>1, TrainerOrigin
<1>2. CASE \E d \in Downloaders : Installs(d)  BY <1>2, InstallOrigin
<1>3. CASE ConvertReplaces  BY <1>3, ConvertOrigin
<1>4. CASE \E d \in Downloaders : (\E s \in Wanted : Fetch(d, s)) \/ Streams(d) \/ DownloadDies(d)
  BY <1>4, FetchOrigin
<1>5. CASE (\E c \in Conversions, dir \in {"repo", "mounted"} : ConvertReads(c, dir))
             \/ ConvertVerifies \/ ConvertHashes \/ ConvertDies
  BY <1>5, ReadOrigin
<1>6. CASE UNCHANGED <<files, weights_dir, download, converter, exporting>>
  <2>1. /\ Extracted' /\ DOMAIN download' = Downloaders /\ \A d \in Downloaders : Fetched(download'[d])
        /\ Exporting'
    BY <1>6 DEF Origin, Extracted, Exporting, IsFile, files, exporting
  <2> QED  BY <1>6, <2>1, UntouchedOrigin DEF Untouched
<1>7. CASE (\E s \in Scores : Epoch(s)) \/ Saves
  BY <1>1, <1>6, <1>7 DEF Epoch, Saves, AloneInTraining
<1>8. CASE (\E m \in Exported : ExportStarts(m)) \/ ExportWrites  BY <1>8, ExportWritesOrigin
<1>9. CASE TrainStarts \/ TrainEnds \/ TrainDies
  BY <1>6, <1>9 DEF TrainStarts, TrainEnds, TrainDies, AloneInTraining
<1>10. CASE (\E k \in Keys : Get(k)) \/ Load \/ Trim \/ WorkerDies
  BY <1>6, <1>10 DEF Get, Load, Trim, WorkerDies, AloneInWorker
<1>11. CASE (\E m \in Models : BenchLoads(m)) \/ BenchStats \/ BenchDigests
  BY <1>6, <1>11 DEF BenchLoads, BenchStats, BenchDigests, AloneInBench
<1>12. CASE UNCHANGED vars  BY <1>6, <1>12 DEF vars
<1>13. CASE ExportReloads \/ ExportCompares \/ ExportDies  BY <1>13, ExportOrigin
<1> QED
  BY <1>2, <1>3, <1>4, <1>5, <1>7, <1>8, <1>9, <1>10, <1>11, <1>12, <1>13 DEF Next

LEMMA OriginInvariant == Spec => []Origin
BY OriginInitial, OriginStep, PTL DEF Spec

\* The digest a converted checkpoint carries is that of the graph it was made from.
THEOREM ConversionsAreNamed == Spec => []ProvenanceIsTrue
<1>1. Origin => ProvenanceIsTrue  BY DEF Origin
<1> QED  BY <1>1, OriginInvariant, PTL

-----------------------------------------------------------------------------
(***************************************************************************)
(* Digests.  A file's modification time stands for its bytes as long as it *)
(* has not changed since: the stamp a benchmark read with the weights, the *)
(* one its digest was looked up by and every one in the process's memo.    *)
(***************************************************************************)

Measured ==
    bench.pc # "idle" =>
        /\ {"pc", "path", "bytes", "stamp", "mtime"} \subseteq DOMAIN bench
        /\ bench.path \in Places /\ bench.stamp \in 0 .. disk[bench.path].stamp
        /\ disk[bench.path].stamp = bench.stamp => disk[bench.path].bytes = bench.bytes
        /\ bench.pc = "stat" => bench.mtime \in bench.stamp .. disk[bench.path].stamp

MemoTrue ==
    \A p \in Places, t \in Nat :
        <<p, t>> \in DOMAIN memo =>
            /\ t <= disk[p].stamp
            /\ t = disk[p].stamp => memo[<<p, t>>] = disk[p].bytes

Dates == FilesTyped /\ Measured /\ MemoTrue /\ RowNamesItsWeights

LEMMA DatesInitial == Init => Dates
  BY DEF Init, Dates, FilesTyped, NoFile, Measured, NoWork, MemoTrue, RowNamesItsWeights

\* A write gives its file a stamp that nothing has remembered.
LEMMA PutKeepsDates ==
    ASSUME Dates, NEW p, NEW b, NEW w, Put(p, b, w), UNCHANGED measuring
    PROVE  Dates'
  <1>1. FilesTyped /\ FilesTyped'  BY PutTyped DEF Dates
  <1>2. \A q \in Places : /\ disk[q].stamp \in Nat /\ disk'[q].stamp \in Nat
                          /\ disk'[q].stamp >= disk[q].stamp
    BY <1>1, PutTyped DEF FilesTyped
  <1>3. \A q \in Places : disk'[q].stamp = disk[q].stamp => disk'[q].bytes = disk[q].bytes
    <2> SUFFICES ASSUME NEW q \in Places, disk'[q].stamp = disk[q].stamp
                 PROVE  disk'[q].bytes = disk[q].bytes
      OBVIOUS
    <2>1. q # p
      <3> SUFFICES ASSUME q = p PROVE FALSE  OBVIOUS
      <3>1. disk'[q].stamp = writes + 1  BY <1>1, PutTyped
      <3>2. disk[q].stamp \in 0 .. writes /\ writes \in Nat  BY <1>1 DEF FilesTyped
      <3> QED  BY <3>1, <3>2
    <2> QED  BY <1>1, <2>1, PutTyped
  <1>4. Measured'
    BY <1>2, <1>3 DEF Dates, Measured, measuring
  <1>5. MemoTrue'
    <2> SUFFICES ASSUME NEW q \in Places, NEW t \in Nat, <<q, t>> \in DOMAIN memo
                 PROVE  /\ t <= disk'[q].stamp
                        /\ t = disk'[q].stamp => memo[<<q, t>>] = disk'[q].bytes
      BY DEF MemoTrue, measuring
    <2>1. t <= disk[q].stamp /\ (t = disk[q].stamp => memo[<<q, t>>] = disk[q].bytes)
      BY DEF Dates, MemoTrue
    <2> QED  BY <1>2, <1>3, <2>1
  <1>6. RowNamesItsWeights'  BY DEF Dates, RowNamesItsWeights, measuring
  <1> QED  BY <1>1, <1>4, <1>5, <1>6 DEF Dates

LEMMA UnchangedKeepsDates ==
    ASSUME Dates, UNCHANGED <<files, measuring>>
    PROVE  Dates'
  BY DEF Dates, FilesTyped, Measured, MemoTrue, RowNamesItsWeights, files, measuring

LEMMA BenchKeepsDates ==
    ASSUME Dates, (\E m \in Models : BenchLoads(m)) \/ BenchStats \/ BenchDigests
    PROVE  Dates'
  <1>1. UNCHANGED files  BY DEF BenchLoads, BenchStats, BenchDigests, AloneInBench
  <1>2. FilesTyped'  BY <1>1 DEF Dates, FilesTyped, files
  <1>3. CASE \E m \in Models : BenchLoads(m)
    <2>1. PICK m \in Models : BenchLoads(m)  BY <1>3
    <2> DEFINE p == ResolveWeights(m)
    <2>2. p \in Places /\ UNCHANGED <<memo, row>>
      BY <2>1 DEF BenchLoads, Readable, IsFile, Dates, FilesTyped
    <2>3. bench' = [pc |-> "loaded", path |-> p, bytes |-> disk[p].bytes, stamp |-> disk[p].stamp,
                    mtime |-> 0]
      BY <2>1 DEF BenchLoads
    <2> HIDE DEF p
    <2>4. Measured'
      <3>1. disk[p].stamp \in Nat  BY <2>2 DEF Dates, FilesTyped
      <3> QED  BY <1>1, <2>2, <2>3, <3>1 DEF Measured, files
    <2> QED  BY <1>1, <1>2, <2>2, <2>4 DEF Dates, MemoTrue, RowNamesItsWeights, files
  <1>4. CASE BenchStats
    <2>1. /\ bench.pc = "loaded" /\ UNCHANGED <<memo, row>>
          /\ bench' = [bench EXCEPT !.pc = "stat", !.mtime = disk[bench.path].stamp]
      BY <1>4 DEF BenchStats
    <2>2. Measured'
      <3>1. /\ {"pc", "path", "bytes", "stamp", "mtime"} \subseteq DOMAIN bench
            /\ bench.path \in Places /\ bench.stamp \in 0 .. disk[bench.path].stamp
            /\ disk[bench.path].stamp = bench.stamp => disk[bench.path].bytes = bench.bytes
        BY <2>1 DEF Dates, Measured
      <3>2. /\ {"pc", "path", "bytes", "stamp", "mtime"} \subseteq DOMAIN bench'
            /\ bench'.path = bench.path /\ bench'.stamp = bench.stamp /\ bench'.bytes = bench.bytes
            /\ bench'.mtime = disk[bench.path].stamp
        BY <2>1, <3>1
      <3>3. disk[bench.path].stamp \in Nat  BY <3>1 DEF Dates, FilesTyped
      <3> QED  BY <1>1, <3>1, <3>2, <3>3 DEF Measured, files
    <2> QED  BY <1>1, <1>2, <2>1, <2>2 DEF Dates, MemoTrue, RowNamesItsWeights, files
  <1>5. CASE BenchDigests
    <2> DEFINE p == bench.path
               t == bench.mtime
               k == <<p, t>>
               d == IF k \in DOMAIN memo THEN memo[k] ELSE disk[p].bytes
    <2>1. /\ bench.pc = "stat" /\ bench' = NoWork
          /\ memo' = [j \in DOMAIN memo \cup {k} |-> IF j = k THEN d ELSE memo[j]]
          /\ row' = [loaded |-> bench.bytes, digest |-> d, steady |-> disk[p].stamp = bench.stamp]
      BY <1>5 DEF BenchDigests, DigestKey
    <2>2. /\ p \in Places /\ disk[p].stamp \in Nat /\ bench.stamp \in 0 .. disk[p].stamp
          /\ disk[p].stamp = bench.stamp => disk[p].bytes = bench.bytes
          /\ t \in bench.stamp .. disk[p].stamp
      BY <2>1 DEF Dates, Measured, FilesTyped
    <2>3. t \in Nat /\ t <= disk[p].stamp  BY <2>2
    <2>4. t = disk[p].stamp => d = disk[p].bytes  BY <2>2, <2>3 DEF Dates, MemoTrue
    <2> HIDE DEF p, t, d
    <2>5. MemoTrue'
      <3> SUFFICES ASSUME NEW q \in Places, NEW u \in Nat, <<q, u>> \in DOMAIN memo'
                   PROVE  /\ u <= disk[q].stamp
                          /\ u = disk[q].stamp => memo'[<<q, u>>] = disk[q].bytes
        BY <1>1 DEF MemoTrue, files
      <3>1. CASE <<q, u>> = k
        <4>1. q = p /\ u = t /\ memo'[<<q, u>>] = d  BY <2>1, <3>1
        <4> QED  BY <2>3, <2>4, <4>1
      <3>2. CASE <<q, u>> # k
        <4>1. <<q, u>> \in DOMAIN memo /\ memo'[<<q, u>>] = memo[<<q, u>>]  BY <2>1, <3>2
        <4> QED  BY <4>1 DEF Dates, MemoTrue
      <3> QED  BY <3>1, <3>2
    <2>6. RowNamesItsWeights'
      <3> SUFFICES ASSUME disk[p].stamp = bench.stamp PROVE d = bench.bytes
        BY <2>1 DEF RowNamesItsWeights
      <3>1. t = disk[p].stamp  BY <2>2
      <3> QED  BY <2>2, <2>4, <3>1
    <2>7. Measured'  BY <2>1 DEF Measured, NoWork
    <2> QED  BY <1>2, <2>5, <2>6, <2>7 DEF Dates
  <1> QED  BY <1>3, <1>4, <1>5

LEMMA DatesStep == Dates /\ [Next]_vars => Dates'
<1> SUFFICES ASSUME Dates, [Next]_vars PROVE Dates'
  OBVIOUS
<1>1. CASE (\E p, b, w : Put(p, b, w)) /\ UNCHANGED measuring  BY <1>1, PutKeepsDates
<1>2. CASE UNCHANGED <<files, measuring>>  BY <1>2, UnchangedKeepsDates
<1>3. CASE TrainStarts \/ (\E s \in Scores : Epoch(s)) \/ Saves \/ TrainEnds \/ TrainDies
  BY <1>1, <1>2, <1>3 DEF TrainStarts, Epoch, Saves, TrainEnds, TrainDies, AloneInTraining
<1>4. CASE \E d \in Downloaders : \/ \E s \in Wanted : Fetch(d, s)
                                 \/ Streams(d) \/ Installs(d) \/ DownloadDies(d)
  BY <1>1, <1>2, <1>4 DEF Fetch, Streams, Installs, DownloadDies, AloneInDownload
<1>5. CASE (\E c \in Conversions, dir \in {"repo", "mounted"} : ConvertReads(c, dir))
             \/ ConvertVerifies \/ ConvertHashes \/ ConvertReplaces \/ ConvertDies
  BY <1>1, <1>2, <1>5
     DEF ConvertReads, ConvertVerifies, ConvertHashes, ConvertReplaces, ConvertDies, AloneInConverter
<1>6. CASE (\E k \in Keys : Get(k)) \/ Load \/ Trim \/ WorkerDies
  BY <1>2, <1>6 DEF Get, Load, Trim, WorkerDies, AloneInWorker
<1>7. CASE (\E m \in Models : BenchLoads(m)) \/ BenchStats \/ BenchDigests
  BY <1>7, BenchKeepsDates
<1>8. CASE UNCHANGED vars  BY <1>2, <1>8 DEF vars
<1>9. CASE (\E m \in Exported : ExportStarts(m)) \/ ExportWrites \/ ExportReloads
             \/ ExportCompares \/ ExportDies
  BY <1>1, <1>2, <1>9
     DEF ExportStarts, ExportWrites, ExportReloads, ExportCompares, ExportDies, AloneInExporter
<1> QED  BY <1>3, <1>4, <1>5, <1>6, <1>7, <1>8, <1>9 DEF Next

\* A row of a file nobody wrote between its load and its digest names the weights that
\* were measured, although the digest is memoised for the life of the process.
THEOREM RowsNameTheirWeights == Spec => []RowNamesItsWeights
<1>1. Dates => RowNamesItsWeights  BY DEF Dates
<1> QED  BY <1>1, DatesInitial, DatesStep, PTL DEF Spec

-----------------------------------------------------------------------------
(***************************************************************************)
(* Exports.  The stamps an export's comparison noted stand for the bytes   *)
(* it compared, as long as the files have not been written since.          *)
(***************************************************************************)

Compared ==
    /\ exporter.pc = "compare" =>
         /\ exporter.from \in Places /\ exporter.read \in 0 .. disk[exporter.from].stamp
         /\ disk[exporter.from].stamp = exporter.read => disk[exporter.from].bytes = exporter.loaded
    /\ verdict # None =>
         /\ verdict.checkpoint \in Places /\ verdict.graph \in Places
         /\ verdict.read \in 0 .. disk[verdict.checkpoint].stamp
         /\ verdict.opened \in 0 .. disk[verdict.graph].stamp
         /\ ExportsMatch

\* A write gives its file a stamp that no comparison has noted.
LEMMA PutStamps ==
    ASSUME FilesTyped, NEW p, NEW b, NEW w, Put(p, b, w), NEW q \in Places
    PROVE  /\ disk[q].stamp \in Nat /\ disk'[q].stamp \in Nat /\ disk[q].stamp <= disk'[q].stamp
           /\ disk'[q].stamp = disk[q].stamp => disk'[q] = disk[q]
  <1>1. /\ FilesTyped' /\ disk'[q].stamp >= disk[q].stamp
        /\ q # p => disk'[q] = disk[q]
        /\ q = p => disk'[q].stamp = writes + 1
    BY PutTyped
  <1>2. disk[q].stamp \in 0 .. writes /\ writes \in Nat  BY DEF FilesTyped
  <1>3. disk'[q].stamp \in Nat  BY <1>1 DEF FilesTyped
  <1> QED  BY <1>1, <1>2, <1>3

\* What a download installed is still as whole as its length said, or was written over.
DeliveredBy(f) ==
    f.pc = "done" =>
        LET p == Target(SOURCES[f.source].file) IN
        /\ p \in Places /\ f.stamp \in 0 .. disk[p].stamp
        /\ f.known /\ disk[p].stamp = f.stamp => disk[p].whole

Delivered == \A d \in Downloaders : DeliveredBy(download[d])

LEMMA PutKeepsDelivered ==
    ASSUME FilesTyped, NEW f, DeliveredBy(f), NEW p, NEW b, NEW w, Put(p, b, w),
           UNCHANGED weights_dir
    PROVE  DeliveredBy(f)'
  <1> DEFINE q == Target(SOURCES[f.source].file)
  <1> SUFFICES ASSUME f.pc = "done"
               PROVE  /\ q \in Places /\ f.stamp \in 0 .. disk'[q].stamp
                      /\ f.known /\ disk'[q].stamp = f.stamp => disk'[q].whole
    BY DEF DeliveredBy, Target
  <1>1. /\ q \in Places /\ f.stamp \in 0 .. disk[q].stamp
        /\ f.known /\ disk[q].stamp = f.stamp => disk[q].whole
    BY DEF DeliveredBy
  <1> HIDE DEF q
  <1>2. /\ disk[q].stamp \in Nat /\ disk'[q].stamp \in Nat /\ disk[q].stamp <= disk'[q].stamp
        /\ disk'[q].stamp = disk[q].stamp => disk'[q] = disk[q]
    BY <1>1, PutStamps
  <1> QED  BY <1>1, <1>2

LEMMA InstallsDelivered ==
    ASSUME Origin, Delivered, NEW d \in Downloaders, Installs(d)
    PROVE  Delivered'
  <1> DEFINE f == download[d]
             p == Target(SOURCES[f.source].file)
  <1>1. /\ Put(p, f.bytes, f.whole) /\ f.pc = "install" /\ Fetched(f) /\ UNCHANGED weights_dir
        /\ download' = [download EXCEPT
                          ![d] = [pc |-> "done", source |-> f.source, known |-> f.known, stamp |-> writes']]
        /\ writes' = writes + 1
    BY DEF Installs, Origin, Fetching, SetFetch, AloneInDownload, Put
  <1>2. p \in Places
    <2>1. f.source \in Wanted  BY <1>1 DEF Fetched
    <2>2. SOURCES[f.source].file \in Files  BY <2>1 DEF Files
    <2> QED  BY <2>2 DEF Target, Places, Origin
  <1>3. /\ disk'[p].whole = f.whole /\ disk'[p].stamp = writes + 1 /\ writes \in Nat
    BY <1>1, <1>2, PutTyped DEF Origin, FilesTyped
  <1>4. DeliveredBy(download[d])'
    <2>1. f.known => f.whole  BY <1>1 DEF Fetched
    <2>2. /\ download'[d].source = f.source /\ download'[d].known = f.known
          /\ download'[d].stamp = writes + 1
      BY <1>1 DEF Origin
    <2>3. Target(SOURCES[download[d].source].file)' = p  BY <1>1, <2>2 DEF Target
    <2> HIDE DEF f, p
    <2> QED  BY <1>1, <1>2, <1>3, <2>1, <2>2, <2>3 DEF DeliveredBy
  <1> HIDE DEF f, p
  <1>5. ASSUME NEW e \in Downloaders PROVE DeliveredBy(download[e])'
    <2>1. CASE e = d  BY <1>1, <1>4, <2>1 DEF Origin
    <2>2. CASE e # d
      <3>1. download'[e] = download[e]  BY <1>1, <2>2 DEF Origin
      <3>2. DeliveredBy(download[e])  BY DEF Delivered
      <3> DEFINE h == download[e]
      <3> HIDE DEF h
      <3> QED  BY <1>1, <3>1, <3>2, PutKeepsDelivered DEF Origin, h, DeliveredBy
    <2> QED  BY <2>1, <2>2
  <1> QED  BY <1>5 DEF Delivered

LEMMA DeliveredStep == Origin /\ Delivered /\ [Next]_vars => Delivered'
  <1> SUFFICES ASSUME Origin, Delivered, [Next]_vars PROVE Delivered'
    OBVIOUS
  <1>1. CASE (\E p, b, w : Put(p, b, w)) /\ UNCHANGED <<weights_dir, download>>
    <2> SUFFICES ASSUME NEW d \in Downloaders PROVE DeliveredBy(download[d])'
      BY DEF Delivered
    <2>1. DeliveredBy(download[d])  BY DEF Delivered
    <2> QED  BY <1>1, <2>1, PutKeepsDelivered DEF Origin, DeliveredBy
  <1>2. CASE /\ UNCHANGED <<files, weights_dir>>
             /\ \A d \in Downloaders : download'[d] = download[d] \/ download'[d].pc # "done"
    BY <1>2 DEF Delivered, DeliveredBy, Target, files
  <1>3. CASE TrainStarts \/ (\E s \in Scores : Epoch(s)) \/ Saves \/ TrainEnds \/ TrainDies
    BY <1>1, <1>2, <1>3 DEF TrainStarts, Epoch, Saves, TrainEnds, TrainDies, AloneInTraining
  <1>4. CASE \E d \in Downloaders : (\E s \in Wanted : Fetch(d, s)) \/ Streams(d) \/ DownloadDies(d)
    <2>1. PICK d \in Downloaders : (\E s \in Wanted : Fetch(d, s)) \/ Streams(d) \/ DownloadDies(d)
      BY <1>4
    <2>2. UNCHANGED <<files, weights_dir>>
      BY <2>1 DEF Fetch, Streams, DownloadDies, AloneInDownload
    <2>3. PICK f : download' = [download EXCEPT ![d] = f] /\ f.pc # "done"
      <3>1. CASE \E s \in Wanted : Fetch(d, s)
        <4>1. \A s : [pc |-> "try", source |-> s, url |-> 1].pc = "try"  OBVIOUS
        <4> QED  BY <3>1, <4>1 DEF Fetch, SetFetch
      <3>2. CASE Streams(d)
        <4>1. download[d].pc = "try" /\ {"pc"} \subseteq DOMAIN download[d]
          BY <3>2 DEF Streams, Fetching, Origin, Fetched
        <4>2. [download[d] EXCEPT !.url = @ + 1].pc = "try"  BY <4>1
        <4>3. NoFetch.pc = "idle"  BY DEF NoFetch
        <4>4. CASE NextMirror(d)  BY <4>2, <4>3, <4>4 DEF NextMirror, SetFetch
        <4>5. CASE ~NextMirror(d)
          <5>1. PICK b, whole, known :
                  download' = [download EXCEPT ![d] = [pc |-> "install", source |-> download[d].source,
                                 bytes |-> b, whole |-> whole, known |-> known]]
            BY <3>2, <4>5 DEF Streams, SetFetch
          <5> DEFINE g == [pc |-> "install", source |-> download[d].source, bytes |-> b,
                           whole |-> whole, known |-> known]
          <5>2. g.pc = "install"  OBVIOUS
          <5> HIDE DEF g
          <5>3. download' = [download EXCEPT ![d] = g]  BY <5>1 DEF g
          <5> QED  BY <5>2, <5>3
        <4> QED  BY <4>4, <4>5
      <3>3. CASE DownloadDies(d)
        <4>1. NoFetch.pc = "idle"  BY DEF NoFetch
        <4> QED  BY <3>3, <4>1 DEF DownloadDies, SetFetch
      <3> QED  BY <2>1, <3>1, <3>2, <3>3
    <2> QED  BY <1>2, <2>2, <2>3 DEF Origin
  <1>5. CASE \E d \in Downloaders : Installs(d)  BY <1>5, InstallsDelivered
  <1>6. CASE (\E c \in Conversions, dir \in {"repo", "mounted"} : ConvertReads(c, dir))
             \/ ConvertVerifies \/ ConvertHashes \/ ConvertReplaces \/ ConvertDies
    BY <1>1, <1>2, <1>6 DEF ConvertReads, ConvertVerifies, ConvertHashes, ConvertReplaces,
       ConvertDies, AloneInConverter
  <1>7. CASE (\E m \in Exported : ExportStarts(m)) \/ ExportWrites \/ ExportReloads
             \/ ExportCompares \/ ExportDies
    BY <1>1, <1>2, <1>7 DEF ExportStarts, ExportWrites, ExportReloads, ExportCompares, ExportDies,
       AloneInExporter
  <1>8. CASE \/ (\E k \in Keys : Get(k)) \/ Load \/ Trim \/ WorkerDies
             \/ (\E m \in Models : BenchLoads(m)) \/ BenchStats \/ BenchDigests
             \/ UNCHANGED vars
    BY <1>2, <1>8 DEF Get, Load, Trim, WorkerDies, AloneInWorker, BenchLoads, BenchStats,
       BenchDigests, AloneInBench, vars
  <1> QED  BY <1>3, <1>4, <1>5, <1>6, <1>7, <1>8 DEF Next

LEMMA DeliveredInitial == Init => Delivered
  BY DEF Init, Delivered, DeliveredBy, NoFetch

\* A pinned file is whole and is the published one, and a file whose length was announced
\* is whole as long as nobody writes over it, whatever else writes to the directory,
\* whoever is killed and whichever mirrors fail or break off.
THEOREM InstalledIsWhole == Spec => []DownloadsAreWhole
  <1>1. Origin /\ Delivered => DownloadsAreWhole
    BY DEF Origin, Genuine, Delivered, DeliveredBy, DownloadsAreWhole, Fetching, Target
  <1> QED  BY <1>1, DeliveredInitial, DeliveredStep, OriginInvariant, PTL DEF Spec

LEMMA PutKeepsCompared ==
    ASSUME FilesTyped, Compared, NEW p, NEW b, NEW w, Put(p, b, w),
           exporter' = exporter \/ exporter'.pc # "compare", verdict' \in {verdict, None}
    PROVE  Compared'
  <1>1. \A q \in Places :
          /\ disk[q].stamp \in Nat /\ disk'[q].stamp \in Nat /\ disk[q].stamp <= disk'[q].stamp
          /\ disk'[q].stamp = disk[q].stamp => disk'[q] = disk[q]
    BY PutStamps
  <1>2. exporter'.pc = "compare" =>
          /\ exporter'.from \in Places /\ exporter'.read \in 0 .. disk'[exporter'.from].stamp
          /\ disk'[exporter'.from].stamp = exporter'.read => disk'[exporter'.from].bytes = exporter'.loaded
    BY <1>1 DEF Compared
  <1>3. verdict' # None =>
          /\ verdict'.checkpoint \in Places /\ verdict'.graph \in Places
          /\ verdict'.read \in 0 .. disk'[verdict'.checkpoint].stamp
          /\ verdict'.opened \in 0 .. disk'[verdict'.graph].stamp
          /\ ExportsMatch'
    <2> SUFFICES ASSUME verdict' = verdict, verdict # None
                 PROVE  /\ verdict.checkpoint \in Places /\ verdict.graph \in Places
                        /\ verdict.read \in 0 .. disk'[verdict.checkpoint].stamp
                        /\ verdict.opened \in 0 .. disk'[verdict.graph].stamp
                        /\ ExportsMatch'
      OBVIOUS
    <2> DEFINE c == verdict.checkpoint
               g == verdict.graph
    <2>1. /\ c \in Places /\ g \in Places
          /\ verdict.read \in 0 .. disk[c].stamp /\ verdict.opened \in 0 .. disk[g].stamp
          /\ ExportsMatch
      BY DEF Compared
    <2>2. /\ disk'[c].stamp = verdict.read => disk'[c] = disk[c]
          /\ disk'[g].stamp = verdict.opened => disk'[g] = disk[g]
      BY <1>1, <2>1
    <2>3. ExportsMatch'  BY <2>1, <2>2 DEF ExportsMatch
    <2> QED  BY <1>1, <2>1, <2>3
  <1> QED  BY <1>2, <1>3 DEF Compared

LEMMA UnwrittenCompared ==
    ASSUME Compared, UNCHANGED files, exporter' = exporter \/ exporter'.pc # "compare",
           verdict' = verdict
    PROVE  Compared'
  BY DEF Compared, ExportsMatch, files

LEMMA ReloadsCompared ==
    ASSUME FilesTyped, Compared, ExportReloads
    PROVE  Compared'
  <1> DEFINE p == ResolveWeights(exporter.model)
  <1>1. UNCHANGED files /\ verdict' = verdict  BY DEF ExportReloads
  <1>2. CASE ~Readable(p)
    <2>1. exporter' = NotExporting  BY <1>2 DEF ExportReloads, Export
    <2> QED  BY <1>1, <2>1, UnwrittenCompared DEF NotExporting
  <1>3. CASE Readable(p)
    <2>1. p \in Places  BY <1>3 DEF Readable, IsFile, FilesTyped
    <2>2. exporter' = [pc |-> "compare", to |-> exporter.to, from |-> p, loaded |-> disk[p].bytes,
                       read |-> disk[p].stamp]
      BY <1>3 DEF ExportReloads, Export, Reloaded
    <2> HIDE DEF p
    <2>3. disk[p].stamp \in Nat  BY <2>1 DEF FilesTyped
    <2>4. /\ exporter'.from = p /\ exporter'.read = disk[p].stamp /\ exporter'.loaded = disk[p].bytes
      BY <2>2
    <2>5. disk' = disk  BY <1>1 DEF files
    <2> QED  BY <1>1, <2>1, <2>3, <2>4, <2>5 DEF Compared, ExportsMatch
  <1> QED  BY <1>2, <1>3

LEMMA ComparesCompared ==
    ASSUME Origin, Compared, ExportCompares
    PROVE  Compared'
  <1> DEFINE c == exporter.from
             g == exporter.to
             report == [passed |-> disk[g].bytes = <<"graph", exporter.loaded>>,
                        checkpoint |-> c, read |-> exporter.read, graph |-> g,
                        opened |-> disk[g].stamp]
  <1>1. /\ exporter.pc = "compare" /\ exporter' = NotExporting /\ UNCHANGED files
        /\ verdict' = IF disk[g].whole THEN report ELSE verdict
    BY DEF ExportCompares, Export
  <1>2. CASE ~disk[g].whole
    BY <1>1, <1>2, UnwrittenCompared DEF NotExporting
  <1>3. CASE disk[g].whole
    <2>1. g \in Places
      <3>1. PICK m \in Exported, dir \in {"repo", "mounted"} : g = <<dir, GRAPHS[m].file>>
        BY <1>1 DEF Origin, Exporting
      <3>2. GRAPHS[m].file \in Files  BY DEF Files
      <3> QED  BY <3>1, <3>2 DEF Places
    <2>2. /\ c \in Places /\ exporter.read \in 0 .. disk[c].stamp
          /\ disk[c].stamp = exporter.read => disk[c].bytes = exporter.loaded
      BY <1>1 DEF Compared
    <2>3. disk[g].stamp \in Nat  BY <2>1 DEF Origin, FilesTyped
    <2>4. /\ verdict'.checkpoint = c /\ verdict'.graph = g /\ verdict'.read = exporter.read
          /\ verdict'.opened = disk[g].stamp
          /\ verdict'.passed => disk[g].bytes = <<"graph", exporter.loaded>>
      BY <1>1, <1>3
    <2>5. disk' = disk /\ exporter'.pc # "compare"  BY <1>1 DEF files, NotExporting
    <2> HIDE DEF c, g, report
    <2>6. ExportsMatch'  BY <1>3, <2>2, <2>4, <2>5 DEF ExportsMatch
    <2> QED  BY <2>1, <2>2, <2>3, <2>4, <2>5, <2>6 DEF Compared
  <1> QED  BY <1>2, <1>3

LEMMA ComparedStep == Origin /\ Compared /\ [Next]_vars => Compared'
  <1> SUFFICES ASSUME Origin, Compared, [Next]_vars PROVE Compared'
    OBVIOUS
  <1>0. FilesTyped  BY DEF Origin
  <1>1. CASE (\E p, b, w : Put(p, b, w)) /\ (exporter' = exporter \/ exporter'.pc # "compare")
             /\ verdict' \in {verdict, None}
    BY <1>0, <1>1, PutKeepsCompared
  <1>2. CASE UNCHANGED files /\ (exporter' = exporter \/ exporter'.pc # "compare")
             /\ verdict' = verdict
    BY <1>2, UnwrittenCompared
  <1>3. CASE TrainStarts \/ (\E s \in Scores : Epoch(s)) \/ Saves \/ TrainEnds \/ TrainDies
    BY <1>1, <1>2, <1>3
       DEF TrainStarts, Epoch, Saves, TrainEnds, TrainDies, AloneInTraining, exporting
  <1>4. CASE \E d \in Downloaders : \/ \E s \in Wanted : Fetch(d, s)
                                   \/ Streams(d) \/ Installs(d) \/ DownloadDies(d)
    BY <1>1, <1>2, <1>4 DEF Fetch, Streams, Installs, DownloadDies, AloneInDownload, exporting
  <1>5. CASE (\E c \in Conversions, dir \in {"repo", "mounted"} : ConvertReads(c, dir))
             \/ ConvertVerifies \/ ConvertHashes \/ ConvertReplaces \/ ConvertDies
    BY <1>1, <1>2, <1>5 DEF ConvertReads, ConvertVerifies, ConvertHashes, ConvertReplaces,
       ConvertDies, AloneInConverter, exporting
  <1>6. CASE \/ (\E k \in Keys : Get(k)) \/ Load \/ Trim \/ WorkerDies
             \/ (\E m \in Models : BenchLoads(m)) \/ BenchStats \/ BenchDigests
             \/ UNCHANGED vars
    BY <1>2, <1>6 DEF Get, Load, Trim, WorkerDies, AloneInWorker, BenchLoads, BenchStats,
       BenchDigests, AloneInBench, exporting, vars
  <1>7. ASSUME NEW m \in Exported, ExportStarts(m) PROVE Compared'
    <2>1. exporter'.pc = "write" /\ verdict' = None /\ \E p, b, w : Put(p, b, w)
      BY <1>7 DEF ExportStarts, Export
    <2> QED  BY <1>1, <2>1
  <1>8. CASE ExportWrites
    <2>1. exporter.pc = "write" /\ "pc" \in DOMAIN exporter /\ verdict' = verdict
          /\ \E p, b, w : Put(p, b, w)
      BY <1>8 DEF ExportWrites, Origin, Exporting
    <2>2. exporter' = [exporter EXCEPT !.pc = "reload"] \/ exporter' = NotExporting
      BY <1>8 DEF ExportWrites, Export
    <2>3. exporter'.pc # "compare"  BY <2>1, <2>2 DEF NotExporting
    <2> QED  BY <1>1, <2>1, <2>3
  <1>9. CASE ExportReloads  BY <1>0, <1>9, ReloadsCompared
  <1>10. CASE ExportCompares  BY <1>10, ComparesCompared
  <1>11. CASE ExportDies
    BY <1>2, <1>11 DEF ExportDies, Export, NotExporting
  <1> QED  BY <1>3, <1>4, <1>5, <1>6, <1>7, <1>8, <1>9, <1>10, <1>11 DEF Next

LEMMA ComparedInitial == Init => Compared
  BY DEF Init, Compared, NotExporting

\* A graph that passed parity is that of the checkpoint it was compared with, whatever is
\* trained, fetched and exported meanwhile, as long as the two are not written again.
THEOREM ExportsAreTrue == Spec => []ExportsMatch
  <1>1. Compared => ExportsMatch  BY DEF Compared, ExportsMatch
  <1> QED  BY <1>1, ComparedInitial, ComparedStep, OriginInvariant, PTL DEF Spec

\* The files are what their pins, their provenance and their parity say.
THEOREM FilesStayTrue == Spec => []FilesAreTrue
  BY InstalledIsWhole, ConversionsAreNamed, ExportsAreTrue, PTL DEF FilesAreTrue

-----------------------------------------------------------------------------
(***************************************************************************)
(* The last training run.  Nobody else writes its checkpoint, so what is   *)
(* there is what the run saved last: its first best epoch.                 *)
(***************************************************************************)

\* Epoch n is the first that reached the best score of t.
FirstBest(t, n) ==
    /\ n \in DOMAIN t.scores /\ t.best = t.scores[n]
    /\ \A k \in DOMAIN t.scores :
         t.scores[k] <= t.scores[n] /\ (k < n => t.scores[k] < t.scores[n])

Unscored(t) == t.best = -1 /\ t.scores = <<>>

Run == [pc : {"idle", "train", "save"}, epochs : 0 .. MaxEpochs, scores : Seq(Scores),
        best : Scores \cup {-1}]

RunTyped(t) ==
    /\ t \in Run
    /\ Len(t.scores) <= t.epochs

SavedAs(t, n) ==
    disk[Checkpoint].whole /\ disk[Checkpoint].bytes = <<"run", SubSeq(t.scores, 1, n)>>

\* While an epoch is being saved it is the last and the best; between, the file holds
\* the best so far.
RunInv ==
    /\ RunTyped(trainer) /\ RunTyped(latest)
    /\ \A t \in {trainer, latest} :
         t.pc = "train" => Unscored(t) \/ \E n \in DOMAIN t.scores : FirstBest(t, n) /\ SavedAs(t, n)
    /\ trainer.pc = "save" => FirstBest(trainer, Len(trainer.scores))
    /\ latest.pc \in {"idle", "train"}
    /\ trainer.pc # "idle" => latest.pc = "idle"

LEMMA RunInitial == Init => RunInv
  BY DEF Init, RunInv, RunTyped, Run, NoTraining

\* A write elsewhere leaves the checkpoint of every record.
LEMMA PutElsewhere ==
    ASSUME FilesTyped, NEW p, p # Checkpoint, NEW b, NEW w, Put(p, b, w)
    PROVE  \A t, n : SavedAs(t, n) => SavedAs(t, n)'
  <1>1. Checkpoint \in Places
    <2> HIDE PinAssumption, NameAssumption, StoreAssumption
    <2>1. ARCHITECTURES[Trained].file \in Files  BY DEF Files
    <2> QED  BY <2>1 DEF Checkpoint, RepoPlace, Places
  <1>2. disk'[Checkpoint] = disk[Checkpoint]  BY <1>1, PutTyped
  <1> QED  BY <1>2 DEF SavedAs

\* The others fetch, convert and export to other names.
LEMMA OthersKeepRuns ==
    ASSUME FilesTyped, RunInv, UNCHANGED training,
           UNCHANGED files \/ \E p, b, w : p # Checkpoint /\ Put(p, b, w)
    PROVE  RunInv'
  <1>1. \A t, n : SavedAs(t, n) => SavedAs(t, n)'
    <2>1. CASE UNCHANGED files  BY <2>1 DEF SavedAs, files
    <2>2. CASE \E p, b, w : p # Checkpoint /\ Put(p, b, w)  BY <2>2, PutElsewhere
    <2> QED  BY <2>1, <2>2
  <1>2. trainer' = trainer /\ latest' = latest  BY DEF training
  <1> HIDE DEF SavedAs
  <1>3. \A t \in {trainer, latest}' :
          t.pc = "train" => Unscored(t) \/ \E n \in DOMAIN t.scores : FirstBest(t, n) /\ SavedAs(t, n)'
    BY <1>1, <1>2 DEF RunInv
  <1> QED  BY <1>1, <1>2, <1>3 DEF RunInv

LEMMA InstallsElsewhere ==
    ASSUME Origin, NEW d \in Downloaders, Installs(d)
    PROVE  \E p, b, w : p # Checkpoint /\ Put(p, b, w)
  <1>1. download[d].source \in Wanted /\ SOURCES[download[d].source].urls > 0
    BY DEF Installs, Fetching, Origin, Fetched
  <1>2. SOURCES[download[d].source].file # ARCHITECTURES[Trained].file
    <2>1. PICK s \in Wanted : s = download[d].source /\ SOURCES[s].urls > 0  BY <1>1
    <2>2. \A m \in DOMAIN GRAPHS : SOURCES[s].file # ARCHITECTURES[Trained].file
      BY <2>1, TablesDiffer
    <2>3. DOMAIN GRAPHS # {}
      <3>1. "u2net" \in DOMAIN GRAPHS  BY DEF GRAPHS, Named, Exports
      <3> QED  BY <3>1
    <2> QED  BY <2>1, <2>2, <2>3
  <1>3. Target(SOURCES[download[d].source].file) # Checkpoint
    BY <1>2 DEF Target, Checkpoint, RepoPlace
  <1> QED  BY <1>3 DEF Installs

LEMMA ConvertsElsewhere ==
    ASSUME Origin, ConvertReplaces
    PROVE  \E p, b, w : p # Checkpoint /\ Put(p, b, w)
  <1>1. PICK c \in Conversions, dir \in {"repo", "mounted"} : converter.to = <<dir, c[2]>>
    BY DEF ConvertReplaces, Origin, Extracted
  <1>2. converter.to # Checkpoint  BY <1>1 DEF Checkpoint, RepoPlace
  <1> QED  BY <1>2 DEF ConvertReplaces

LEMMA ExportsElsewhere ==
    ASSUME Origin, (\E m \in Exported : ExportStarts(m)) \/ ExportWrites
    PROVE  \E p, b, w : p # Checkpoint /\ Put(p, b, w)
  <1>1. \A m \in Exported : \A dir : <<dir, GRAPHS[m].file>> # Checkpoint
    <2>1. \A m \in Exported, s \in DOMAIN SOURCES : GRAPHS[m].file # ARCHITECTURES[Trained].file
      BY TablesDiffer
    <2>2. "u2net" \in DOMAIN SOURCES  BY DEF SOURCES, Named, Source
    <2> QED  BY <2>1, <2>2 DEF Checkpoint, RepoPlace
  <1>2. ASSUME NEW m \in Exported, ExportStarts(m)
        PROVE  \E p, b, w : p # Checkpoint /\ Put(p, b, w)
    BY <1>1, <1>2 DEF ExportStarts, Target
  <1>3. CASE ExportWrites
    <2>1. PICK m \in Exported, dir \in {"repo", "mounted"} : exporter.to = <<dir, GRAPHS[m].file>>
      BY <1>3 DEF ExportWrites, Origin, Exporting
    <2>2. exporter.to # Checkpoint  BY <1>1, <2>1
    <2> QED  BY <1>3, <2>2 DEF ExportWrites
  <1> QED  BY <1>2, <1>3

LEMMA CheckpointPut ==
    ASSUME FilesTyped, NEW b, NEW w, Put(Checkpoint, b, w)
    PROVE  disk'[Checkpoint].bytes = b /\ disk'[Checkpoint].whole = w
  <1>1. Checkpoint \in Places
    <2> HIDE PinAssumption, NameAssumption, StoreAssumption
    <2>1. ARCHITECTURES[Trained].file \in Files  BY DEF Files
    <2> QED  BY <2>1 DEF Checkpoint, RepoPlace, Places
  <1> QED  BY <1>1, PutTyped

\* One more score: an earlier first best stays one unless the score improves on it.
LEMMA MoreScores ==
    ASSUME NEW t, RunTyped(t), NEW score \in Scores, Len(t.scores) < t.epochs,
           Unscored(t) \/ \E n \in DOMAIN t.scores : FirstBest(t, n),
           NEW u, u.scores = Append(t.scores, score)
    PROVE  /\ Len(u.scores) = Len(t.scores) + 1 /\ u.scores \in Seq(Scores)
           /\ Improves(score, t.best) /\ u.best = score => FirstBest(u, Len(u.scores))
           /\ ~Improves(score, t.best) /\ u.best = t.best =>
                /\ Unscored(t) => Unscored(u)
                /\ \A n \in DOMAIN t.scores : FirstBest(t, n) =>
                     /\ FirstBest(u, n)
                     /\ SubSeq(u.scores, 1, n) = SubSeq(t.scores, 1, n)
  <1> DEFINE s == t.scores
             m == Len(s) + 1
  <1>1. s \in Seq(Scores) /\ Len(s) \in Nat /\ t.best \in Scores \cup {-1}  BY DEF RunTyped, Run
  <1>2. /\ Len(u.scores) = m /\ u.scores \in Seq(Scores) /\ DOMAIN u.scores = 1 .. m
        /\ u.scores[m] = score /\ \A k \in 1 .. Len(s) : u.scores[k] = s[k]
    BY <1>1
  <1>3. \A k \in 1 .. Len(s) : s[k] \in Nat
    <2>1. \A k \in 1 .. Len(s) : s[k] \in Scores  BY <1>1
    <2> QED  BY <2>1
  <1>4. DOMAIN s = 1 .. Len(s) /\ score \in Nat  BY <1>1
  <1>5. ASSUME Improves(score, t.best), u.best = score PROVE FirstBest(u, m)
    <2>1. \A k \in 1 .. Len(s) : s[k] < score
      <3>1. CASE Unscored(t)  BY <1>4, <3>1 DEF Unscored
      <3>2. ASSUME NEW n \in DOMAIN s, FirstBest(t, n) PROVE \A k \in 1 .. Len(s) : s[k] < score
        <4>1. s[n] \in Nat /\ s[n] < score  BY <1>3, <1>4, <1>5, <3>2 DEF FirstBest, Improves
        <4> QED  BY <1>3, <1>4, <3>2, <4>1 DEF FirstBest
      <3> QED  BY <3>1, <3>2
    <2>2. \A k \in 1 .. m : k = m \/ k \in 1 .. Len(s)  BY <1>1
    <2> QED  BY <1>1, <1>2, <1>3, <1>4, <1>5, <2>1, <2>2 DEF FirstBest
  <1>6. ASSUME ~Improves(score, t.best), u.best = t.best, Unscored(t) PROVE Unscored(u)
    BY <1>4, <1>6 DEF Unscored, Improves
  <1>7. ASSUME ~Improves(score, t.best), u.best = t.best, NEW n \in DOMAIN s, FirstBest(t, n)
        PROVE  FirstBest(u, n) /\ SubSeq(u.scores, 1, n) = SubSeq(s, 1, n)
    <2>1. n \in 1 .. Len(s) /\ n < m /\ n \in DOMAIN u.scores  BY <1>1, <1>2, <1>4
    <2>2. s[n] \in Nat /\ score <= s[n]
      BY <1>3, <1>4, <1>7, <2>1 DEF FirstBest, Improves
    <2>3. \A k \in 1 .. m : k = m \/ k \in 1 .. Len(s)  BY <1>1
    <2>4. ASSUME NEW k \in DOMAIN u.scores
          PROVE  u.scores[k] <= u.scores[n] /\ (k < n => u.scores[k] < u.scores[n])
      <3>1. CASE k = m  BY <1>1, <1>2, <1>3, <2>1, <2>2, <2>4, <3>1
      <3>2. CASE k \in 1 .. Len(s)  BY <1>2, <1>4, <1>7, <2>1, <2>4, <3>2 DEF FirstBest
      <3> QED  BY <1>2, <2>3, <2>4, <3>1, <3>2
    <2>5. u.best = u.scores[n]
      BY <1>2, <1>7, <2>1 DEF FirstBest
    <2>6. SubSeq(u.scores, 1, n) = SubSeq(s, 1, n)
      <3>1. SubSeq(u.scores, 1, n) = [k \in 1 .. n |-> u.scores[k]]  BY <1>1, <1>2, <2>1
      <3>2. SubSeq(s, 1, n) = [k \in 1 .. n |-> s[k]]  BY <1>1, <1>2, <2>1
      <3>3. \A k \in 1 .. n : u.scores[k] = s[k]  BY <1>1, <1>2, <2>1
      <3> QED  BY <3>1, <3>2, <3>3
    <2> QED  BY <2>1, <2>4, <2>5, <2>6 DEF FirstBest
  <1> QED  BY <1>2, <1>5, <1>6, <1>7

LEMMA RunRescored ==
    ASSUME NEW t \in Run, NEW sc \in Seq(Scores), NEW b \in Scores
    PROVE  [t EXCEPT !.scores = sc] \in Run /\ [t EXCEPT !.scores = sc, !.best = b, !.pc = "save"] \in Run
  BY DEF Run

LEMMA TrainsOn ==
    ASSUME FilesTyped, RunInv, TrainStarts \/ (\E s \in Scores : Epoch(s)) \/ Saves \/ TrainEnds \/ TrainDies
    PROVE  RunInv'
  <1>2. RunTyped(trainer) /\ RunTyped(latest)  BY DEF RunInv
  <1>3. RunTyped(NoTraining) /\ NoTraining.pc = "idle"  BY DEF RunTyped, Run, NoTraining
  <1> SUFFICES /\ RunTyped(trainer)' /\ RunTyped(latest)'
               /\ \A t \in {trainer, latest}' :
                    t.pc = "train" =>
                      Unscored(t) \/ \E n \in DOMAIN t.scores : FirstBest(t, n) /\ SavedAs(t, n)'
               /\ trainer'.pc = "save" => FirstBest(trainer', Len(trainer'.scores))
               /\ latest'.pc \in {"idle", "train"}
               /\ trainer'.pc # "idle" => latest'.pc = "idle"
    BY DEF RunInv
  <1>4. ASSUME UNCHANGED files PROVE \A t, n : SavedAs(t, n)' <=> SavedAs(t, n)
    BY <1>4 DEF SavedAs, files
  <1>5. CASE TrainStarts
    <2>1. PICK n \in 0 .. MaxEpochs : trainer' = [NoTraining EXCEPT !.pc = "train", !.epochs = n]
      BY <1>5 DEF TrainStarts
    <2>2. RunTyped(trainer') /\ trainer'.pc = "train" /\ Unscored(trainer')
      <3>1. trainer' = [pc |-> "train", epochs |-> n, scores |-> <<>>, best |-> -1]
        BY <2>1 DEF NoTraining
      <3>2. trainer'.epochs = n /\ trainer'.scores = <<>> /\ trainer'.best = -1 /\ trainer'.pc = "train"
        BY <3>1
      <3>3. <<>> \in Seq(Scores) /\ Len(<<>>) = 0 /\ DOMAIN <<>> = {}  OBVIOUS
      <3>4. trainer' \in Run  BY <3>1, <3>3 DEF Run
      <3>5. Len(trainer'.scores) <= trainer'.epochs  BY <3>2, <3>3
      <3> QED  BY <3>2, <3>3, <3>4, <3>5 DEF RunTyped, Run, Unscored
    <2> QED  BY <1>3, <1>4, <1>5, <2>2 DEF TrainStarts
  <1>6. ASSUME NEW s \in Scores, Epoch(s) PROVE RunInv'
    <2> DEFINE scored == [trainer EXCEPT !.scores = Append(@, s)]
               better == [trainer EXCEPT !.scores = Append(trainer.scores, s), !.best = s, !.pc = "save"]
    <2>1. /\ trainer.pc = "train" /\ Len(trainer.scores) < trainer.epochs /\ latest' = latest
          /\ latest.pc = "idle"
      BY <1>6 DEF Epoch, EpochsLeft, RunInv
    <2>2. Unscored(trainer) \/ \E n \in DOMAIN trainer.scores : FirstBest(trainer, n) /\ SavedAs(trainer, n)
      BY <2>1 DEF RunInv
    <2>3. CASE Improves(s, trainer.best)
      <3>1. /\ trainer' = better
            /\ Put(Checkpoint, <<"run", scored.scores>>, FALSE)
        BY <1>6, <2>3 DEF Epoch
      <3>2. /\ better.scores = Append(trainer.scores, s) /\ better.best = s /\ better.pc = "save"
            /\ better.epochs = trainer.epochs
        BY <1>2 DEF RunTyped, Run
      <3>3. FirstBest(better, Len(better.scores)) /\ better.scores \in Seq(Scores)
            /\ Len(better.scores) = Len(trainer.scores) + 1
        <4> HIDE DEF better
        <4>1. Unscored(trainer) \/ \E n \in DOMAIN trainer.scores : FirstBest(trainer, n)  BY <2>2
        <4> QED  BY <1>2, <2>1, <2>3, <3>2, <4>1, MoreScores
      <3>4. RunTyped(better)
        <4>1. Append(trainer.scores, s) \in Seq(Scores)  BY <3>2, <3>3
        <4>2. better \in Run  BY <1>2, <4>1, RunRescored DEF RunTyped, Run
        <4>3. Len(better.scores) <= better.epochs
          BY <1>2, <2>1, <3>2, <3>3 DEF RunTyped, Run
        <4> QED  BY <4>2, <4>3 DEF RunTyped, Run
      <3> HIDE DEF better
      <3> QED  BY <1>2, <2>1, <3>1, <3>2, <3>3, <3>4 DEF RunInv
    <2>4. CASE ~Improves(s, trainer.best)
      <3>1. trainer' = scored /\ UNCHANGED files  BY <1>6, <2>4 DEF Epoch
      <3>2. /\ scored.scores = Append(trainer.scores, s) /\ scored.best = trainer.best
            /\ scored.epochs = trainer.epochs /\ scored.pc = "train"
        BY <1>2, <2>1 DEF RunTyped, Run
      <3>3. /\ scored.scores \in Seq(Scores) /\ Len(scored.scores) = Len(trainer.scores) + 1
            /\ Unscored(trainer) => Unscored(scored)
            /\ \A n \in DOMAIN trainer.scores : FirstBest(trainer, n) =>
                 /\ FirstBest(scored, n)
                 /\ SubSeq(scored.scores, 1, n) = SubSeq(trainer.scores, 1, n)
        <4> HIDE DEF scored
        <4>1. Unscored(trainer) \/ \E n \in DOMAIN trainer.scores : FirstBest(trainer, n)  BY <2>2
        <4>2. Len(trainer.scores) < trainer.epochs /\ RunTyped(trainer)  BY <1>2, <2>1
        <4>3. scored.scores = Append(trainer.scores, s) /\ scored.best = trainer.best  BY <3>2
        <4>4. RunTyped(trainer) /\ Len(trainer.scores) < trainer.epochs
              /\ ~Improves(s, trainer.best)
          BY <4>2, <2>4
        <4>5. /\ scored.scores \in Seq(Scores) /\ Len(scored.scores) = Len(trainer.scores) + 1
              /\ Unscored(trainer) => Unscored(scored)
          BY <4>1, <4>3, <4>4, MoreScores
        <4>6. ASSUME NEW n \in DOMAIN trainer.scores, FirstBest(trainer, n)
              PROVE  /\ FirstBest(scored, n)
                     /\ SubSeq(scored.scores, 1, n) = SubSeq(trainer.scores, 1, n)
          <5>1. \A m \in DOMAIN trainer.scores : FirstBest(trainer, m) =>
                 /\ FirstBest(scored, m)
                 /\ SubSeq(scored.scores, 1, m) = SubSeq(trainer.scores, 1, m)
            <6> DEFINE t == trainer
                       u == scored
            <6>1. RunTyped(t) /\ Len(t.scores) < t.epochs /\ ~Improves(s, t.best)
                  /\ u.scores = Append(t.scores, s) /\ u.best = t.best
                  /\ (Unscored(t) \/ \E m \in DOMAIN t.scores : FirstBest(t, m))
              BY <4>1, <4>3, <4>4
            <6> HIDE DEF t, u
            <6>2. /\ ~Improves(s, t.best) /\ u.best = t.best =>
                     /\ Unscored(t) => Unscored(u)
                     /\ \A m \in DOMAIN t.scores : FirstBest(t, m) =>
                          /\ FirstBest(u, m)
                          /\ SubSeq(u.scores, 1, m) = SubSeq(t.scores, 1, m)
              BY <6>1, MoreScores, ZenonT(60)
            <6> QED  BY <6>1, <6>2 DEF t, u
          <5> QED  BY <4>6, <5>1
        <4> QED  BY <4>5, <4>6
      <3>4. RunTyped(scored)
        <4>1. Append(trainer.scores, s) \in Seq(Scores)  BY <3>2, <3>3
        <4>2. scored \in Run  BY <1>2, <4>1, RunRescored DEF RunTyped, Run
        <4>3. Len(scored.scores) <= scored.epochs
          BY <1>2, <2>1, <3>2, <3>3 DEF RunTyped, Run
        <4> QED  BY <4>2, <4>3 DEF RunTyped, Run
      <3>5. Unscored(scored) \/ \E n \in DOMAIN scored.scores : FirstBest(scored, n) /\ SavedAs(scored, n)
        <4>1. ASSUME NEW n \in DOMAIN trainer.scores, FirstBest(trainer, n), SavedAs(trainer, n)
              PROVE  FirstBest(scored, n) /\ SavedAs(scored, n)
          BY <3>3, <4>1 DEF SavedAs
        <4>2. \A n : FirstBest(scored, n) => n \in DOMAIN scored.scores  BY DEF FirstBest
        <4> HIDE DEF scored
        <4> QED  BY <2>2, <3>3, <4>1, <4>2
      <3> HIDE DEF scored
      <3> QED  BY <1>2, <1>4, <2>1, <3>1, <3>2, <3>4, <3>5 DEF RunInv
    <2> QED  BY <2>3, <2>4
  <1>7. CASE Saves
    <2>1. /\ trainer.pc = "save" /\ latest' = latest /\ latest.pc = "idle"
          /\ trainer' = [trainer EXCEPT !.pc = "train"]
          /\ Put(Checkpoint, <<"run", trainer.scores>>, TRUE)
      BY <1>7 DEF Saves, RunInv
    <2>2. /\ trainer'.pc = "train" /\ trainer'.scores = trainer.scores
          /\ trainer'.best = trainer.best /\ trainer'.epochs = trainer.epochs
          /\ RunTyped(trainer')
      BY <1>2, <2>1 DEF RunTyped, Run
    <2> DEFINE n == Len(trainer.scores)
    <2>3. FirstBest(trainer', n)  BY <2>1, <2>2 DEF RunInv, FirstBest
    <2>4. SubSeq(trainer.scores, 1, n) = trainer.scores  BY <1>2 DEF RunTyped, Run
    <2>5. disk'[Checkpoint].bytes = <<"run", trainer.scores>>
          /\ disk'[Checkpoint].whole = TRUE
      BY <2>1, CheckpointPut
    <2>6. n \in DOMAIN trainer'.scores  BY <2>3 DEF FirstBest
    <2>7. SavedAs(trainer, Len(trainer.scores))'
      <3>1. Len(trainer'.scores) = n  BY <2>2
      <3> QED  BY <2>2, <2>4, <2>5, <3>1 DEF SavedAs
    <2>8. Len(trainer'.scores) = n  BY <2>2
    <2> HIDE DEF n
    <2> QED  BY <1>2, <2>1, <2>2, <2>3, <2>5, <2>6, <2>7, <2>8
  <1>8. CASE TrainEnds
    <2>1. /\ trainer.pc = "train" /\ latest' = trainer /\ trainer' = NoTraining /\ UNCHANGED files
      BY <1>8 DEF TrainEnds
    <2>2. trainer.pc = "train" => Unscored(trainer) \/ \E n \in DOMAIN trainer.scores :
            FirstBest(trainer, n) /\ SavedAs(trainer, n)
      BY DEF RunInv
    <2> QED  BY <1>2, <1>3, <1>4, <2>1, <2>2
  <1>9. CASE TrainDies
    <2>1. trainer' = NoTraining /\ latest' = latest /\ UNCHANGED files
      BY <1>9 DEF TrainDies
    <2>2. /\ latest.pc \in {"idle", "train"}
          /\ latest.pc = "train" => Unscored(latest) \/ \E n \in DOMAIN latest.scores :
            FirstBest(latest, n) /\ SavedAs(latest, n)
      BY DEF RunInv
    <2> QED  BY <1>2, <1>3, <1>4, <2>1, <2>2
  <1> QED  BY <1>5, <1>6, <1>7, <1>8, <1>9 DEF RunInv

LEMMA RunStep == Origin /\ RunInv /\ [Next]_vars => RunInv'
  <1> SUFFICES ASSUME Origin, RunInv, [Next]_vars PROVE RunInv'
    OBVIOUS
  <1>1. CASE TrainStarts \/ (\E s \in Scores : Epoch(s)) \/ Saves \/ TrainEnds \/ TrainDies
    BY <1>1, TrainsOn DEF Origin
  <1>2. CASE UNCHANGED training /\ (UNCHANGED files \/ \E p, b, w : p # Checkpoint /\ Put(p, b, w))
    BY <1>2, OthersKeepRuns DEF Origin
  <1>3. CASE \E d \in Downloaders : \/ \E s \in Wanted : Fetch(d, s)
                                   \/ Streams(d) \/ Installs(d) \/ DownloadDies(d)
    BY <1>2, <1>3, InstallsElsewhere DEF Fetch, Streams, Installs, DownloadDies, AloneInDownload
  <1>4. CASE (\E c \in Conversions, dir \in {"repo", "mounted"} : ConvertReads(c, dir))
             \/ ConvertVerifies \/ ConvertHashes \/ ConvertReplaces \/ ConvertDies
    BY <1>2, <1>4, ConvertsElsewhere
       DEF ConvertReads, ConvertVerifies, ConvertHashes, ConvertReplaces, ConvertDies, AloneInConverter
  <1>5. CASE (\E m \in Exported : ExportStarts(m)) \/ ExportWrites \/ ExportReloads
             \/ ExportCompares \/ ExportDies
    BY <1>2, <1>5, ExportsElsewhere
       DEF ExportStarts, ExportWrites, ExportReloads, ExportCompares, ExportDies, AloneInExporter
  <1>6. CASE \/ (\E k \in Keys : Get(k)) \/ Load \/ Trim \/ WorkerDies
             \/ (\E m \in Models : BenchLoads(m)) \/ BenchStats \/ BenchDigests
             \/ UNCHANGED vars
    BY <1>2, <1>6 DEF Get, Load, Trim, WorkerDies, AloneInWorker, BenchLoads, BenchStats,
       BenchDigests, AloneInBench, vars
  <1> QED  BY <1>1, <1>3, <1>4, <1>5, <1>6 DEF Next

\* After a training run the checkpoint is whole and is the first epoch that reached the
\* best score its record claims, whatever else is fetched or converted meanwhile and
\* although runs are killed while they save.
THEOREM RunsNameTheirBest == Spec => []RunNamesItsBest
  <1>1. RunInv => RunNamesItsBest
    <2> SUFFICES ASSUME RunInv PROVE RunNamesItsBest
      OBVIOUS
    <2> DEFINE epochs == DOMAIN latest.scores
               highest == {n \in epochs : \A k \in epochs : latest.scores[k] <= latest.scores[n]}
               first == CHOOSE n \in highest : \A k \in highest : n <= k
    <2> SUFFICES ASSUME latest.pc # "idle", epochs # {}
                 PROVE  latest.best = latest.scores[first] /\ SavedAs(latest, first)
      BY DEF RunNamesItsBest, SavedAs
    <2>1. PICK n \in DOMAIN latest.scores : FirstBest(latest, n) /\ SavedAs(latest, n)
      BY DEF RunInv, Unscored
    <2>2. latest.scores \in Seq(Scores)  BY DEF RunInv, RunTyped, Run
    <2>3. \A k \in DOMAIN latest.scores : latest.scores[k] \in Nat /\ k \in Nat
      <3>1. \A k \in DOMAIN latest.scores : latest.scores[k] \in Scores /\ k \in Nat  BY <2>2
      <3> QED  BY <3>1
    <2>4. n \in highest  BY <2>1, <2>3 DEF FirstBest
    <2>5. \A k \in highest : n <= k
      <3> SUFFICES ASSUME NEW k \in highest, k < n PROVE FALSE
        BY <2>1, <2>3
      <3>1. latest.scores[k] < latest.scores[n]  BY <2>1 DEF FirstBest
      <3>2. latest.scores[n] <= latest.scores[k]  BY <2>4
      <3> QED  BY <2>1, <2>3, <3>1, <3>2
    <2>6. \A k \in highest : k \in Nat  BY <2>3
    <2>7. first = n
      <3> HIDE DEF highest
      <3> QED  BY <2>4, <2>5, <2>6
    <2> QED  BY <2>1, <2>7 DEF FirstBest
  <1> QED  BY <1>1, RunInitial, RunStep, OriginInvariant, PTL DEF Spec

-----------------------------------------------------------------------------
(***************************************************************************)
(* The model cache.  A key is in it once, the newest at the end, so what   *)
(* is evicted is the oldest and is taken off the device; and a file that   *)
(* made a model available is still there when the model loads.             *)
(***************************************************************************)

Once(c) == \A i, j \in DOMAIN c : c[i] = c[j] => i = j

LEMMA Appended ==
    ASSUME NEW S, NEW c \in Seq(S), NEW k \in S, Once(c), k \notin Range(c)
    PROVE  /\ Append(c, k) \in Seq(S) /\ Len(Append(c, k)) = Len(c) + 1 /\ Once(Append(c, k))
           /\ Range(Append(c, k)) = Range(c) \cup {k} /\ Append(c, k)[Len(c) + 1] = k
  <1> DEFINE d == Append(c, k)
  <1>1. /\ d \in Seq(S) /\ Len(d) = Len(c) + 1 /\ Len(c) \in Nat
        /\ DOMAIN d = 1 .. Len(c) + 1 /\ DOMAIN c = 1 .. Len(c)
        /\ d[Len(c) + 1] = k /\ \A i \in 1 .. Len(c) : d[i] = c[i]
    OBVIOUS
  <1>2. \A i \in 1 .. Len(c) + 1 : i = Len(c) + 1 \/ i \in 1 .. Len(c)  BY <1>1
  <1>3. \A i \in 1 .. Len(c) : c[i] # k  BY <1>1 DEF Range
  <1>4. \A i \in 1 .. Len(c) : i \in 1 .. Len(c) + 1  BY <1>1
  <1> HIDE DEF d
  <1>5. Once(d)  BY <1>1, <1>2, <1>3 DEF Once
  <1>6. Range(d) = Range(c) \cup {k}
    <2>1. \A x \in Range(d) : x \in Range(c) \cup {k}  BY <1>1, <1>2 DEF Range
    <2>2. Len(c) + 1 \in DOMAIN d  BY <1>1
    <2>3. \A x \in Range(c) \cup {k} : x \in Range(d)  BY <1>1, <1>4, <2>2 DEF Range
    <2> QED  BY <2>1, <2>3
  <1> QED  BY <1>1, <1>5, <1>6 DEF d

LEMMA Evicted ==
    ASSUME NEW S, NEW c \in Seq(S), Once(c), c # <<>>
    PROVE  /\ Tail(c) \in Seq(S) /\ Len(Tail(c)) = Len(c) - 1 /\ Once(Tail(c))
           /\ Range(Tail(c)) = Range(c) \ {Head(c)}
           /\ Len(c) > 1 => Tail(c)[Len(c) - 1] = c[Len(c)]
  <1> DEFINE d == Tail(c)
  <1>1. /\ d \in Seq(S) /\ Len(d) = Len(c) - 1 /\ Len(c) \in Nat \ {0}
        /\ DOMAIN d = 1 .. Len(c) - 1 /\ DOMAIN c = 1 .. Len(c)
        /\ Head(c) = c[1] /\ \A i \in 1 .. Len(c) - 1 : d[i] = c[i + 1]
    OBVIOUS
  <1> HIDE DEF d
  <1>2. \A i \in 1 .. Len(c) - 1 : i + 1 \in 1 .. Len(c)  BY <1>1
  <1>3. \A i \in 1 .. Len(c) : i = 1 \/ (i - 1 \in 1 .. Len(c) - 1 /\ (i - 1) + 1 = i)  BY <1>1
  <1>4. Once(d)
    <2> SUFFICES ASSUME NEW i \in DOMAIN d, NEW j \in DOMAIN d, d[i] = d[j] PROVE i = j
      BY DEF Once
    <2>1. c[i + 1] = c[j + 1] /\ i + 1 \in DOMAIN c /\ j + 1 \in DOMAIN c  BY <1>1, <1>2
    <2>2. i + 1 = j + 1  BY <2>1 DEF Once
    <2>3. i \in Nat /\ j \in Nat  BY <1>1
    <2> QED  BY <2>2, <2>3
  <1>5. Range(d) = Range(c) \ {Head(c)}
    <2>1. ASSUME NEW x \in Range(d) PROVE x \in Range(c) \ {Head(c)}
      <3>1. PICK i \in 1 .. Len(c) - 1 : x = d[i]  BY <1>1 DEF Range
      <3>2. x = c[i + 1] /\ i + 1 \in DOMAIN c /\ 1 \in DOMAIN c /\ i + 1 # 1  BY <1>1, <1>2, <3>1
      <3> QED  BY <1>1, <3>2 DEF Once, Range
    <2>2. ASSUME NEW x \in Range(c) \ {Head(c)} PROVE x \in Range(d)
      <3>1. PICK i \in 1 .. Len(c) : x = c[i]  BY <1>1 DEF Range
      <3>2. i - 1 \in DOMAIN d /\ d[i - 1] = x  BY <1>1, <1>3, <2>2, <3>1
      <3> QED  BY <3>2 DEF Range
    <2> QED  BY <2>1, <2>2
  <1>6. Len(c) > 1 => d[Len(c) - 1] = c[Len(c)]  BY <1>1
  <1> QED  BY <1>1, <1>4, <1>5, <1>6 DEF d

LEMMA Removed ==
    ASSUME NEW S, NEW c \in Seq(S), Once(c), NEW i \in DOMAIN c
    PROVE  /\ RemoveAt(c, i) \in Seq(S) /\ Len(RemoveAt(c, i)) = Len(c) - 1 /\ Once(RemoveAt(c, i))
           /\ Range(RemoveAt(c, i)) = Range(c) \ {c[i]}
  <1> DEFINE d == RemoveAt(c, i)
             n == Len(c)
             at(j) == IF j < i THEN j ELSE j + 1
  <1>1. n \in Nat /\ i \in 1 .. n /\ DOMAIN c = 1 .. n  OBVIOUS
  <1>2. /\ SubSeq(c, 1, i - 1) \in Seq(S) /\ Len(SubSeq(c, 1, i - 1)) = i - 1
        /\ \A j \in 1 .. i - 1 : SubSeq(c, 1, i - 1)[j] = c[j]
    BY <1>1
  <1>3. /\ SubSeq(c, i + 1, n) \in Seq(S) /\ Len(SubSeq(c, i + 1, n)) = n - i
        /\ \A j \in 1 .. n - i : SubSeq(c, i + 1, n)[j] = c[i + j]
    <2>1. CASE i = n
      <3>1. SubSeq(c, i + 1, n) = <<>>  BY <1>1, <2>1
      <3> QED  BY <1>1, <2>1, <3>1
    <2>2. CASE i < n
      <3>1. i + 1 \in 1 .. n /\ n \in 1 .. n /\ n - (i + 1) + 1 = n - i  BY <1>1, <2>2
      <3>2. SubSeq(c, i + 1, n) \in Seq(S) /\ Len(SubSeq(c, i + 1, n)) = n - i
        BY <1>1, <3>1
      <3>3. \A j \in 1 .. n - i : SubSeq(c, i + 1, n)[j] = c[(i + 1) + j - 1]
        BY <1>1, <3>1
      <3>4. \A j \in 1 .. n - i : (i + 1) + j - 1 = i + j  BY <1>1
      <3> QED  BY <3>2, <3>3, <3>4
    <2> QED  BY <1>1, <2>1, <2>2
  <1>4. /\ d \in Seq(S) /\ Len(d) = n - 1 /\ DOMAIN d = 1 .. n - 1
        /\ \A j \in 1 .. n - 1 : d[j] = c[at(j)]
    <2> DEFINE a == SubSeq(c, 1, i - 1)
               b == SubSeq(c, i + 1, n)
    <2>1. /\ a \in Seq(S) /\ Len(a) = i - 1 /\ b \in Seq(S) /\ Len(b) = n - i
          /\ (\A j \in 1 .. i - 1 : a[j] = c[j]) /\ (\A j \in 1 .. n - i : b[j] = c[i + j])
      BY <1>2, <1>3
    <2>2. d = a \o b  BY DEF RemoveAt
    <2> HIDE DEF a, b, d
    <2>3. d \in Seq(S) /\ Len(d) = n - 1 /\ DOMAIN d = 1 .. n - 1
      <3>0. a \in Seq(S) /\ b \in Seq(S)  BY <2>1
      <3>1. a \o b \in Seq(S) /\ Len(a \o b) = Len(a) + Len(b)  BY <3>0
      <3>2. d \in Seq(S) /\ Len(d) = n - 1  BY <1>1, <2>1, <2>2, <3>1
      <3>3. DOMAIN d = 1 .. Len(d)  BY <3>2
      <3> QED  BY <3>2, <3>3
    <2>4. ASSUME NEW j \in 1 .. n - 1 PROVE d[j] = c[at(j)]
      <3>1. CASE j < i
        <4>1. j \in 1 .. i - 1 /\ j \in 1 .. Len(a)  BY <1>1, <2>1, <3>1
        <4>2. d[j] = a[j]  BY <1>1, <2>1, <2>2, <4>1
        <4> QED  BY <2>1, <3>1, <4>1, <4>2
      <3>2. CASE ~(j < i)
        <4>1. j - (i - 1) \in 1 .. n - i /\ i + (j - (i - 1)) = j + 1  BY <1>1, <3>2
        <4>2. d[j] = b[j - (i - 1)]  BY <1>1, <2>1, <2>2, <3>2
        <4> QED  BY <2>1, <3>2, <4>1, <4>2
      <3> QED  BY <3>1, <3>2
    <2> QED  BY <2>3, <2>4
  <1> HIDE DEF d
  <1>5. \A j \in 1 .. n - 1 : at(j) \in 1 .. n /\ at(j) # i  BY <1>1
  <1>6. \A j, k \in 1 .. n - 1 : at(j) = at(k) => j = k  BY <1>1
  <1>7. \A k \in 1 .. n : k # i => \E j \in 1 .. n - 1 : at(j) = k
    <2> SUFFICES ASSUME NEW k \in 1 .. n, k # i PROVE \E j \in 1 .. n - 1 : at(j) = k
      OBVIOUS
    <2>1. CASE k < i
      <3>1. k \in 1 .. n - 1 /\ at(k) = k  BY <1>1, <2>1
      <3> QED  BY <3>1
    <2>2. CASE k > i
      <3>1. k - 1 \in 1 .. n - 1 /\ at(k - 1) = k  BY <1>1, <2>2
      <3> QED  BY <3>1
    <2> QED  BY <1>1, <2>1, <2>2
  <1> HIDE DEF at
  <1>8. Once(d)  BY <1>1, <1>4, <1>5, <1>6 DEF Once
  <1>9. Range(d) = Range(c) \ {c[i]}
    <2>1. ASSUME NEW x \in Range(d) PROVE x \in Range(c) \ {c[i]}
      <3>1. PICK j \in 1 .. n - 1 : x = d[j]  BY <1>4 DEF Range
      <3>2. x = c[at(j)] /\ at(j) \in DOMAIN c /\ at(j) # i  BY <1>1, <1>4, <1>5, <3>1
      <3> QED  BY <1>1, <3>2 DEF Once, Range
    <2>2. ASSUME NEW x \in Range(c) \ {c[i]} PROVE x \in Range(d)
      <3>1. PICK k \in 1 .. n : x = c[k]  BY <1>1 DEF Range
      <3>2. PICK j \in 1 .. n - 1 : at(j) = k  BY <1>7, <2>2, <3>1
      <3> QED  BY <1>4, <3>1, <3>2 DEF Range
    <2> QED  BY <2>1, <2>2
  <1> QED  BY <1>4, <1>8, <1>9 DEF d

LEMMA RangeBound ==
    ASSUME NEW S, NEW c \in Seq(S)
    PROVE  Cardinality(Range(c)) \in Nat /\ Cardinality(Range(c)) <= Len(c)
  <1>1. Len(c) \in Nat /\ DOMAIN c = 1 .. Len(c)  OBVIOUS
  <1>2. IsFiniteSet(1 .. Len(c)) /\ Cardinality(1 .. Len(c)) = Len(c)
    <2>1. IsFiniteSet(1 .. Len(c)) /\ Cardinality(1 .. Len(c)) = IF 1 > Len(c) THEN 0 ELSE Len(c) - 1 + 1
      BY <1>1, FS_Interval
    <2> QED  BY <1>1, <2>1
  <1>3. c \in Surjection(1 .. Len(c), Range(c))
    BY <1>1 DEF Surjection, Range
  <1>4. IsFiniteSet(Range(c)) /\ Cardinality(Range(c)) <= Cardinality(1 .. Len(c))
    BY <1>2, <1>3, FS_Surjection
  <1> QED  BY <1>2, <1>4, FS_CardinalityType

\* What the registry's rules need of its entries.
LEMMA EntryShape ==
    ASSUME NEW m \in Models
    PROVE  \E S : /\ Registry[m].weights \in Seq(S) /\ Len(Registry[m].weights) <= 2
                  /\ Registry[m].onnx # None =>
                       \A i \in DOMAIN Registry[m].weights : Registry[m].weights[i] = Registry[m].onnx
  <1> DEFINE entries == InRepo \cup Untrained \cup Published \cup Classical \cup TensorRT
             e == Registry[m]
  <1>1. m \in DOMAIN Named(entries)  BY DEF Registry
  <1>2. e \in entries  BY <1>1, NamedEntry DEF Registry
  <1> HIDE StoreAssumption, PinAssumption, NameAssumption
  <1>3. \/ \E n, w : e = Torch(n, <<w>>) \/ e = Onnx(n, w)
        \/ \E n, w, v : e = Torch(n, <<w, v>>)
        \/ \E n : e = NoWeights(n)
        \/ e \in TensorRT
    <2>1. e \in InRepo \cup Untrained => \E n, w : e = Torch(n, <<w>>) \/ e = Onnx(n, w)
      BY Zenon DEF InRepo, Untrained
    <2>2. e \in Published =>
            \/ \E n, w : e = Torch(n, <<w>>) \/ e = Onnx(n, w)
            \/ \E n, w, v : e = Torch(n, <<w, v>>)
      BY Zenon DEF Published
    <2>3. e \in Classical => \E n : e = NoWeights(n)  BY DEF Classical
    <2> QED  BY <1>2, <2>1, <2>2, <2>3
  <1> HIDE DEF e
  <1>4. CASE \E n, w : e = Torch(n, <<w>>) \/ e = Onnx(n, w)
    <2>1. PICK n, w : e = Torch(n, <<w>>) \/ e = Onnx(n, w)  BY <1>4
    <2>2. e.weights = <<w>> /\ (e.onnx # None => e.onnx = w)  BY <2>1 DEF Torch, Onnx
    <2>3. <<w>> \in Seq({w}) /\ Len(<<w>>) = 1 /\ DOMAIN <<w>> = {1} /\ <<w>>[1] = w  OBVIOUS
    <2>4. /\ e.weights \in Seq({w}) /\ Len(e.weights) <= 2
          /\ e.onnx # None => \A i \in DOMAIN e.weights : e.weights[i] = e.onnx
      BY <2>2, <2>3
    <2> QED  BY <2>4 DEF e
  <1>5. CASE \E n, w, v : e = Torch(n, <<w, v>>)
    <2>1. PICK n, w, v : e = Torch(n, <<w, v>>)  BY <1>5
    <2>2. e.weights = <<w, v>> /\ e.onnx = None  BY <2>1 DEF Torch
    <2>3. <<w, v>> \in Seq({w, v}) /\ Len(<<w, v>>) = 2  OBVIOUS
    <2>4. e.weights \in Seq({w, v}) /\ Len(e.weights) <= 2 /\ e.onnx = None  BY <2>2, <2>3
    <2> QED  BY <2>4 DEF e
  <1>6. CASE (\E n : e = NoWeights(n)) \/ e \in TensorRT
    <2>1. e.weights = <<>>  BY <1>6 DEF NoWeights, TensorRT
    <2>2. <<>> \in Seq({}) /\ Len(<<>>) = 0 /\ DOMAIN <<>> = {}  OBVIOUS
    <2> QED  BY <2>1, <2>2 DEF e
  <1> QED  BY <1>3, <1>4, <1>5, <1>6

LEMMA FirstIsPresent ==
    ASSUME NEW c, NEW k \in Nat, k <= 2, DOMAIN c = 1 .. k, Len(c) = k,
           NEW i \in 1 .. k, IsFile(c[i])
    PROVE  IsFile(FirstPresent(c))
  <1> DEFINE I == {j \in 1 .. Len(c) : IsFile(c[j])}
             least == CHOOSE x \in I : \A y \in I : x <= y
  <1>1. I \subseteq {1, 2} /\ I # {} /\ \A j \in I : IsFile(c[j]) /\ j # 0  OBVIOUS
  <1> HIDE DEF I
  <1>2. \E x \in I : \A y \in I : x <= y
    <2>1. CASE 1 \in I  BY <1>1, <2>1
    <2>2. CASE 1 \notin I
      <3>1. \A y \in I : y = 2  BY <1>1, <2>2
      <3>2. PICK j \in I : TRUE  BY <1>1
      <3>3. j = 2  BY <3>1
      <3>4. 2 \in I  BY <3>2, <3>3
      <3> QED  BY <3>1, <3>4
    <2> QED  BY <2>1, <2>2
  <1>3. least \in I  BY <1>2
  <1>4. SelectInSeq(c, IsFile) = least  BY <1>1 DEF SelectInSeq, Min, I
  <1> HIDE DEF least
  <1> QED  BY <1>1, <1>3, <1>4 DEF FirstPresent

\* A model is available and the weights directory is the repository's: the file that
\* would be loaded is there.
LEMMA AvailableIsThere ==
    ASSUME NEW m \in Models, weights_dir = "repo", weights_available(m), NeedsFile(m)
    PROVE  IsFile(ResolveWeights(m))
  <1>1. PICK S : /\ Registry[m].weights \in Seq(S) /\ Len(Registry[m].weights) <= 2
                 /\ Registry[m].onnx # None =>
                      \A i \in DOMAIN Registry[m].weights : Registry[m].weights[i] = Registry[m].onnx
    BY EntryShape
  <1> DEFINE w == Registry[m].weights
             k == Len(w)
             c == [n \in DOMAIN w |-> <<"repo", w[n]>>]
  <1>2. WeightsCandidates(m) = c  BY DEF WeightsCandidates, Target
  <1>3. k \in Nat /\ k <= 2 /\ DOMAIN c = 1 .. k  BY <1>1
  <1>4. Len(c) = k  BY <1>3
  <1>5. PICK p \in ArtifactCandidates(m) : IsFile(p)  BY DEF weights_available, NeedsFile
  <1>6. CASE Registry[m].onnx # None
    <2>1. \A i \in DOMAIN c : c[i] = RepoPlace(Registry[m].onnx)  BY <1>1, <1>6 DEF RepoPlace
    <2>2. p = RepoPlace(Registry[m].onnx)
      BY <1>2, <1>5, <1>6, <2>1 DEF ArtifactCandidates, Range
    <2> QED  BY <1>5, <1>6, <2>2 DEF ResolveWeights
  <1>7. CASE Registry[m].onnx = None
    <2>1. PICK i \in DOMAIN c : p = c[i]  BY <1>2, <1>5, <1>7 DEF ArtifactCandidates, Range
    <2> HIDE DEF c
    <2>2. IsFile(FirstPresent(c))  BY <1>3, <1>4, <1>5, <2>1, FirstIsPresent
    <2> QED  BY <1>2, <1>7, <2>2 DEF ResolveWeights
  <1> QED  BY <1>6, <1>7

\* A model that is listed and needs a file: the file that would be loaded is there.
LEMMA ListedIsThere ==
    ASSUME NEW m \in Models, Listed(m), NeedsFile(m)
    PROVE  IsFile(ResolveWeights(m))
  <1>1. CASE Registry[m].onnx # None  BY <1>1 DEF Listed, ResolveWeights
  <1>2. CASE Registry[m].onnx = None
    <2>1. PICK S : Registry[m].weights \in Seq(S) /\ Len(Registry[m].weights) <= 2
      BY EntryShape
    <2> DEFINE w == Registry[m].weights
               k == Len(w)
               c == [n \in DOMAIN w |-> Target(w[n])]
    <2>2. k \in Nat /\ k <= 2 /\ DOMAIN c = 1 .. k /\ Len(c) = k  BY <2>1
    <2>3. WeightsCandidates(m) = c  BY DEF WeightsCandidates
    <2>4. Range(c) # {}  BY <1>2, <2>3 DEF NeedsFile, ArtifactCandidates
    <2>5. 1 \in 1 .. k
      <3>1. DOMAIN c # {}  BY <2>4 DEF Range
      <3> QED  BY <2>2, <3>1
    <2>6. w # <<>> /\ c[1] = Target(Head(w))  BY <2>1, <2>2, <2>5
    <2>7. IsFile(c[1])  BY <1>2, <2>6 DEF Listed
    <2> HIDE DEF c
    <2>8. IsFile(FirstPresent(c))  BY <2>2, <2>5, <2>7, FirstIsPresent
    <2> QED  BY <1>2, <2>3, <2>8 DEF ResolveWeights
  <1> QED  BY <1>1, <1>2

\* A model that the catalogue calls usable and that can be submitted has its runtime.
LEMMA RuntimeIsThere ==
    ASSUME NEW m \in Models, runtime_available(m), Submitted(m)
    PROVE  CanRun(m)
  <1> DEFINE entries == InRepo \cup Untrained \cup Published \cup Classical \cup TensorRT
  <1>1. Registry[m] \in entries  BY NamedEntry DEF Registry
  <1>2. Registry[m].runtime \in {"pytorch", "onnxruntime", "tensorrt"}
    <2> HIDE StoreAssumption, PinAssumption, NameAssumption
    <2>1. \A e \in InRepo \cup Untrained \cup Published \cup Classical \cup TensorRT :
            e.runtime \in {"pytorch", "onnxruntime", "tensorrt"}
      BY DEF InRepo, Untrained, Published, Classical, TensorRT, Torch, Onnx, NoWeights
    <2> QED  BY <1>1, <2>1
  <1>3. CASE Registry[m].runtime = "pytorch"  BY <1>3 DEF CanRun, Imports
  <1>4. CASE Registry[m].runtime = "onnxruntime"
    BY <1>4 DEF CanRun, runtime_available, Imports
  <1> QED  BY <1>2, <1>3, <1>4 DEF Submitted

\* What was said of the model being loaded, as far as it still holds: a file that was
\* there still is, and the machine has what it had.
Promised(m, said, path) ==
    /\ said.listed => path = None \/ IsFile(path)
    /\ said.weights /\ weights_dir = "repo" => path = None \/ IsFile(path)
    /\ said.runtime => runtime_available(m)

ServingInv ==
    /\ cache \in Seq(Keys) /\ Once(cache) /\ resident = Range(cache)
    /\ given \in Keys \cup {None} /\ (given # None => given \in Range(cache))
    /\ worker.pc \in {"idle", "load", "trim"}
    /\ worker.pc # "trim" => Len(cache) <= MaxEntries
    /\ worker.pc = "load" =>
         /\ {"pc", "key", "said", "path"} \subseteq DOMAIN worker
         /\ worker.key \in Keys /\ worker.key \notin Range(cache) /\ given = None
         /\ Submitted(worker.key[1])
         /\ Promised(worker.key[1], worker.said, worker.path)
    /\ worker.pc = "trim" =>
         /\ Len(cache) \in 1 .. MaxEntries + 1 /\ worker.key = cache[Len(cache)]
         /\ given = None
    /\ AvailableLoads

LEMMA ServingSteps ==
    ASSUME ServingInv, (\E k \in Keys : Get(k)) \/ Load \/ Trim \/ WorkerDies
    PROVE  ServingInv'
  <1>0. UNCHANGED <<weights_dir, files>>
    BY DEF Get, Load, Trim, WorkerDies, AloneInWorker
  <1>1. \A p : IsFile(p)' <=> IsFile(p)  BY <1>0 DEF IsFile, files
  <1>2. cache \in Seq(Keys) /\ Once(cache) /\ resident = Range(cache) /\ Len(cache) \in Nat
    BY DEF ServingInv
  <1>3. ASSUME NEW k \in Keys, Get(k) PROVE ServingInv'
    <2>1. worker.pc = "idle" /\ resident' = resident /\ refused' = None /\ Len(cache) <= MaxEntries
      BY <1>3 DEF Get, ServingInv
    <2>2. AvailableLoads'  BY <2>1 DEF AvailableLoads
    <2>3. CASE k \in Range(cache)
      <3>1. PICK i \in DOMAIN cache : cache[i] = k /\ cache' = Append(RemoveAt(cache, i), k)
        BY <1>3, <2>3 DEF Get, MovesToEnd
      <3> DEFINE d == RemoveAt(cache, i)
      <3>2. /\ d \in Seq(Keys) /\ Len(d) = Len(cache) - 1 /\ Once(d)
            /\ Range(d) = Range(cache) \ {k}
        BY <1>2, <3>1, Removed
      <3> HIDE DEF d
      <3>3. /\ cache' \in Seq(Keys) /\ Len(cache') = Len(d) + 1 /\ Once(cache')
            /\ Range(cache') = Range(d) \cup {k}
        BY <3>1, <3>2, Appended DEF d
      <3>4. given' = k /\ worker' = worker  BY <1>3, <2>3 DEF Get
      <3>5. Range(cache') = Range(cache) /\ Len(cache') = Len(cache)  BY <1>2, <2>3, <3>2, <3>3
      <3> QED  BY <1>2, <2>1, <2>2, <2>3, <3>3, <3>4, <3>5 DEF ServingInv
    <2>4. CASE k \notin Range(cache)
      <3> DEFINE path == IF NeedsFile(k[1]) THEN ResolveWeights(k[1]) ELSE None
                 w == [pc |-> "load", key |-> k, said |-> catalogue(k[1]), path |-> path]
      <3>1. worker' = w /\ given' = None /\ cache' = cache  BY <1>3, <2>4 DEF Get
      <3>2. Promised(k[1], catalogue(k[1]), path)
        BY AvailableIsThere, ListedIsThere DEF Keys, Promised, catalogue
      <3>3. /\ w.pc = "load" /\ w.key = k /\ w.said = catalogue(k[1]) /\ w.path = path
            /\ {"pc", "key", "said", "path"} \subseteq DOMAIN w
        OBVIOUS
      <3> HIDE DEF w, path
      <3>4. Promised(worker.key[1], worker.said, worker.path)'
        BY <1>0, <1>1, <3>1, <3>2, <3>3 DEF Promised, runtime_available
      <3>5. /\ worker'.pc = "load" /\ worker'.key = k
            /\ {"pc", "key", "said", "path"} \subseteq DOMAIN worker'
        BY <3>1, <3>3
      <3>6. Submitted(k[1])  BY <1>3 DEF Get
      <3> QED  BY <1>2, <2>1, <2>2, <2>4, <3>1, <3>4, <3>5, <3>6 DEF ServingInv
    <2> QED  BY <2>3, <2>4
  <1>4. CASE Load
    <2>1. /\ worker.pc = "load" /\ given' = None /\ Len(cache) <= MaxEntries
          /\ worker.key \in Keys /\ worker.key \notin Range(cache)
      BY <1>4 DEF Load, ServingInv
    <2>2. CASE /\ resident' = resident \cup {worker.key} /\ cache' = Append(cache, worker.key)
               /\ worker' = [pc |-> "trim", key |-> worker.key] /\ refused' = refused
      <3>1. /\ resident' = resident \cup {worker.key} /\ cache' = Append(cache, worker.key)
            /\ worker' = [pc |-> "trim", key |-> worker.key] /\ refused' = refused
        BY <2>2
      <3>2. /\ cache' \in Seq(Keys) /\ Len(cache') = Len(cache) + 1 /\ Once(cache')
            /\ Range(cache') = Range(cache) \cup {worker.key}
            /\ cache'[Len(cache) + 1] = worker.key
        BY <1>2, <2>1, <3>1, Appended
      <3>3. AvailableLoads'  BY <1>0, <3>1 DEF ServingInv, AvailableLoads
      <3>4. worker'.pc = "trim" /\ worker'.key = worker.key  BY <3>1
      <3>5. Len(cache') \in 1 .. MaxEntries + 1  BY <1>2, <2>1, <3>2
      <3> QED  BY <1>2, <2>1, <3>1, <3>2, <3>3, <3>4, <3>5 DEF ServingInv
    <2>3. ASSUME NEW why \in {"runtime", "file", "content"},
                 Refuses(worker.key[1], worker.path, why),
                 refused' = [said |-> worker.said, why |-> why],
                 worker' = NoWork, UNCHANGED <<resident, cache>>
          PROVE  ServingInv'
      <3> DEFINE m == worker.key[1]
      <3>1. m \in Models /\ Submitted(m) /\ Promised(m, worker.said, worker.path)
        BY <2>1 DEF ServingInv, Keys
      <3>2. refused'.said = worker.said /\ refused'.why = why  BY <2>3
      <3>3. why = "file" => worker.path # None /\ ~IsFile(worker.path)  BY <2>3 DEF Refuses
      <3>4. why = "runtime" => ~worker.said.runtime
        BY <2>3, <3>1, RuntimeIsThere DEF Refuses, Promised
      <3> HIDE DEF m
      <3>5. AvailableLoads'
        BY <1>0, <2>3, <3>1, <3>2, <3>3, <3>4 DEF AvailableLoads, usable, Promised
      <3>6. worker'.pc = "idle"  BY <2>3 DEF NoWork
      <3> QED  BY <1>2, <2>1, <2>3, <3>5, <3>6 DEF ServingInv
    <2> QED  BY <1>4, <2>2, <2>3 DEF Load
  <1>5. CASE Trim
    <2>1. /\ worker.pc = "trim" /\ refused' = refused /\ given = None
          /\ Len(cache) \in 1 .. MaxEntries + 1 /\ worker.key = cache[Len(cache)]
      BY <1>5 DEF Trim, ServingInv
    <2>2. AvailableLoads'  BY <1>0, <2>1 DEF ServingInv, AvailableLoads
    <2>3. CASE Len(cache) > MaxEntries
      <3>1. /\ resident' = resident \ {Head(cache)} /\ cache' = Tail(cache) /\ worker' = worker
            /\ given' = None
        BY <1>5, <2>1, <2>3 DEF Trim, Unload, Oldest
      <3>2. cache # <<>> /\ Len(cache) > 1  BY <1>2, <2>1, <2>3
      <3>3. /\ cache' \in Seq(Keys) /\ Len(cache') = Len(cache) - 1 /\ Once(cache')
            /\ Range(cache') = Range(cache) \ {Head(cache)}
            /\ cache'[Len(cache) - 1] = cache[Len(cache)]
        BY <1>2, <3>1, <3>2, Evicted
      <3>4. Len(cache') \in 1 .. MaxEntries + 1  BY <1>2, <2>1, <3>2, <3>3
      <3>5. cache'[Len(cache')] = worker'.key  BY <2>1, <3>1, <3>3
      <3> QED  BY <1>2, <2>1, <2>2, <3>1, <3>3, <3>4, <3>5 DEF ServingInv
    <2>4. CASE ~(Len(cache) > MaxEntries)
      <3>1. given' = worker.key /\ worker' = NoWork /\ UNCHANGED <<cache, resident>>
        BY <1>5, <2>4 DEF Trim
      <3>2. Len(cache) \in DOMAIN cache  BY <1>2, <2>1
      <3>3. worker.key \in Range(cache) /\ worker.key \in Keys
        BY <1>2, <2>1, <3>2 DEF Range
      <3>4. worker'.pc = "idle" /\ Len(cache) <= MaxEntries  BY <1>2, <2>4, <3>1 DEF NoWork
      <3> QED  BY <1>2, <2>2, <3>1, <3>3, <3>4 DEF ServingInv
    <2> QED  BY <2>3, <2>4
  <1>6. CASE WorkerDies
    <2>1. /\ worker' = NoWork /\ cache' = <<>> /\ resident' = {} /\ given' = None /\ refused' = None
      BY <1>6 DEF WorkerDies
    <2>2. <<>> \in Seq(Keys) /\ Len(<<>>) = 0 /\ DOMAIN <<>> = {}  OBVIOUS
    <2>3. Range(<<>>) = {} /\ Once(<<>>)  BY <2>2 DEF Range, Once
    <2> QED  BY <2>1, <2>2, <2>3 DEF ServingInv, NoWork, AvailableLoads
  <1> QED  BY <1>3, <1>4, <1>5, <1>6

Kinds ==
    /\ writes \in 0 .. MaxWrites /\ starts \in 0 .. MaxStarts
    /\ bench.pc \in {"idle", "loaded", "stat"}
    /\ DOMAIN memo \subseteq Places \X (0 .. MaxWrites)

SoundInv == Origin /\ Dates /\ RunInv /\ Kinds /\ ServingInv

LEMMA SoundInitial == Init => SoundInv
  <1> SUFFICES ASSUME Init PROVE SoundInv  OBVIOUS
  <1>1. Origin /\ Dates /\ RunInv  BY OriginInitial, DatesInitial, RunInitial
  <1>2. Kinds  BY DEF Init, Kinds, NoWork
  <1>3. ServingInv
    <2>1. <<>> \in Seq(Keys) /\ Len(<<>>) = 0 /\ DOMAIN <<>> = {}  OBVIOUS
    <2>2. Range(<<>>) = {} /\ Once(<<>>)  BY <2>1 DEF Range, Once
    <2> QED  BY <2>1, <2>2 DEF Init, ServingInv, NoWork, AvailableLoads
  <1> QED  BY <1>1, <1>2, <1>3 DEF SoundInv

\* What is looked up in the memo is a file and one of its times.
LEMMA DigestPlaces ==
    ASSUME FilesTyped, Measured, Kinds, BenchDigests
    PROVE  DOMAIN memo' \subseteq Places \X (0 .. MaxWrites)
  <1>1. bench.pc = "stat"  BY DEF BenchDigests
  <1>2. /\ bench.path \in Places /\ bench.stamp \in Nat /\ disk[bench.path].stamp \in 0 .. writes
        /\ bench.mtime \in bench.stamp .. disk[bench.path].stamp
    BY <1>1 DEF Measured, FilesTyped
  <1>3. bench.mtime \in 0 .. MaxWrites  BY <1>2 DEF Kinds
  <1>4. DOMAIN memo' = DOMAIN memo \cup {<<bench.path, bench.mtime>>}
    BY DEF BenchDigests, DigestKey
  <1> QED  BY <1>2, <1>3, <1>4 DEF Kinds

LEMMA KindsStep ==
    ASSUME FilesTyped, Measured, Kinds, [Next]_vars
    PROVE  Kinds'
  <1>1. writes' \in 0 .. MaxWrites
    <2>1. writes' = writes \/ (writes < MaxWrites /\ writes' = writes + 1)
      BY DEF Next, vars, files, Put, TrainStarts, Epoch, Saves, TrainEnds, TrainDies, Fetch, Streams,
         Installs, DownloadDies, ConvertReads, ConvertVerifies, ConvertHashes, ConvertReplaces,
         ConvertDies, ExportStarts, ExportWrites, ExportReloads, ExportCompares, ExportDies, Get,
         Load, Trim, WorkerDies, AloneInWorker, BenchLoads, BenchStats, BenchDigests, AloneInBench
    <2> QED  BY <2>1 DEF Kinds
  <1>2. starts' \in 0 .. MaxStarts
    <2>1. starts' = starts \/ (starts < MaxStarts /\ starts' = starts + 1)
      BY DEF Next, vars, Begins, TrainStarts, Epoch, Saves, TrainEnds, TrainDies, AloneInTraining,
         Fetch, Streams, Installs, DownloadDies, ConvertReads, ConvertVerifies, ConvertHashes,
         ConvertReplaces, ConvertDies, ExportStarts, ExportWrites, ExportReloads, ExportCompares,
         ExportDies, Get, Load, Trim, WorkerDies, BenchLoads, BenchStats, BenchDigests
    <2> QED  BY <2>1 DEF Kinds
  <1>3. bench'.pc \in {"idle", "loaded", "stat"} /\ DOMAIN memo' \subseteq Places \X (0 .. MaxWrites)
    <2>1. ASSUME NEW m \in Models, BenchLoads(m) PROVE bench'.pc = "loaded" /\ memo' = memo
      BY <2>1 DEF BenchLoads
    <2>2. CASE BenchStats
      <3>1. bench.pc = "loaded" /\ "pc" \in DOMAIN bench /\ memo' = memo
        BY <2>2 DEF BenchStats, Measured
      <3>2. bench'.pc = "stat"  BY <2>2, <3>1 DEF BenchStats
      <3> QED  BY <3>1, <3>2 DEF Kinds
    <2>3. CASE BenchDigests
      <3>1. bench'.pc = "idle"  BY <2>3 DEF BenchDigests, NoWork
      <3> QED  BY <2>3, <3>1, DigestPlaces
    <2>4. CASE bench' = bench /\ memo' = memo  BY <2>4 DEF Kinds
    <2> QED
      BY <2>1, <2>2, <2>3, <2>4 DEF Kinds, Next, vars, measuring, TrainStarts, Epoch, Saves,
         TrainEnds, TrainDies, AloneInTraining, Fetch, Streams, Installs, DownloadDies,
         AloneInDownload, ConvertReads, ConvertVerifies, ConvertHashes, ConvertReplaces,
         ConvertDies, AloneInConverter, ExportStarts, ExportWrites, ExportReloads, ExportCompares,
         ExportDies, AloneInExporter, Get, Load, Trim, WorkerDies, AloneInWorker
  <1> QED  BY <1>1, <1>2, <1>3 DEF Kinds

\* Whoever writes files, none that a load waits for goes away.
LEMMA ServingStep ==
    ASSUME FilesTyped, ServingInv, [Next]_vars
    PROVE  ServingInv'
  <1>1. CASE (\E k \in Keys : Get(k)) \/ Load \/ Trim \/ WorkerDies
    BY <1>1, ServingSteps
  <1>2. CASE ~((\E k \in Keys : Get(k)) \/ Load \/ Trim \/ WorkerDies)
    <2>1. UNCHANGED <<serving, weights_dir>>
      BY <1>2 DEF Next, vars, TrainStarts, Epoch, Saves, TrainEnds, TrainDies, AloneInTraining,
         Fetch, Streams, Installs, DownloadDies, AloneInDownload, ConvertReads, ConvertVerifies,
         ConvertHashes, ConvertReplaces, ConvertDies, AloneInConverter, ExportStarts,
         ExportWrites, ExportReloads, ExportCompares, ExportDies, AloneInExporter,
         BenchLoads, BenchStats, BenchDigests, AloneInBench
    <2>2. UNCHANGED files \/ \E p, b, w : Put(p, b, w)
      BY <1>2 DEF Next, vars, TrainStarts, Epoch, Saves, TrainEnds, TrainDies, Fetch, Streams,
         Installs, DownloadDies, ConvertReads, ConvertVerifies, ConvertHashes, ConvertReplaces,
         ConvertDies, ExportStarts, ExportWrites, ExportReloads, ExportCompares, ExportDies,
         BenchLoads, BenchStats, BenchDigests, AloneInBench
    <2>3. \A p : IsFile(p) => IsFile(p)'
      <3>1. CASE UNCHANGED files  BY <3>1 DEF IsFile, files
      <3> QED  BY <2>2, <3>1, PutTyped
    <2> QED  BY <2>1, <2>3 DEF ServingInv, serving, AvailableLoads, Promised,
           runtime_available
  <1> QED  BY <1>1, <1>2

LEMMA SoundInvariant == Spec => []SoundInv
  <1>1. SoundInv /\ [Next]_vars => SoundInv'
    BY OriginStep, DatesStep, RunStep, KindsStep, ServingStep DEF SoundInv, Dates
  <1> QED  BY <1>1, SoundInitial, PTL DEF Spec

\* A model said to be listed or available does not miss its file, one said to be usable
\* does not miss its runtime, and the device holds exactly what
\* the cache accounts for, one model over the bound only while it is trimmed,
\* whatever is written and whoever is killed meanwhile.
THEOREM LoadsStaySound == Spec => []LoadsAreSound
  <1>1. SoundInv => LoadsAreSound
    <2> SUFFICES ASSUME SoundInv PROVE LoadsAreSound  OBVIOUS
    <2>1. cache \in Seq(Keys) /\ resident = Range(cache)  BY DEF SoundInv, ServingInv
    <2>2. Cardinality(resident) \in Nat /\ Cardinality(resident) <= Len(cache) /\ Len(cache) \in Nat
      BY <2>1, RangeBound
    <2>3. resident \subseteq Keys  BY <2>1 DEF Range
    <2>4. CacheHoldsTheDevice
      BY <2>1, <2>2 DEF SoundInv, ServingInv, CacheHoldsTheDevice
    <2>5. \A p \in Places : disk[p] = NoFile \/ disk[p].stamp \in 1 .. writes
      BY DEF SoundInv, Dates, FilesTyped
    <2>6. trainer.pc \in {"idle", "train", "save"} /\ trainer.epochs \in 0 .. MaxEpochs
          /\ Len(trainer.scores) <= trainer.epochs /\ trainer.best \in Scores \cup {-1}
      BY DEF SoundInv, RunInv, RunTyped, Run
    <2>7. \A d \in Downloaders : download[d].pc \in {"idle", "try", "install", "done"}
      BY DEF SoundInv, Origin, Fetched
    <2>8. AvailableLoads /\ worker.pc \in {"idle", "load", "trim"} /\ given \in Keys \cup {None}
      BY DEF SoundInv, ServingInv
    <2>9. weights_dir \in {"repo", "mounted"}  BY DEF SoundInv, Origin
    <2>10. converter.pc \in {"idle", "verify", "hash", "replace"}
           /\ exporter.pc \in {"idle", "write", "reload", "compare"}
      BY DEF SoundInv, Origin, Extracted, Exporting
    <2>11. TypeOK
      BY <2>1, <2>3, <2>5, <2>6, <2>7, <2>8, <2>9, <2>10 DEF SoundInv, Kinds, TypeOK
    <2> QED  BY <2>4, <2>8, <2>11 DEF LoadsAreSound
  <1> QED  BY <1>1, SoundInvariant, PTL
=============================================================================
