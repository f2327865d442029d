------------------------------ MODULE MediaJobs ------------------------------
(***************************************************************************)
(* What one worker process does with the images and videos it is given:    *)
(* it rebuilds the request from the job's parameters, probes and validates *)
(* the source, renders it, stores the outputs and describes them in the    *)
(* job's result.  The attempts of a job follow one another in the process  *)
(* and share what it caches; JobLifecycle has their rows and messages,     *)
(* VideoPipeline the two ffmpegs of one pass over the frames.              *)
(*                                                                         *)
(* A picture is left out.  What is kept of an output is its format,        *)
(* whether it carries alpha and, for a video, which frames it holds.       *)
(***************************************************************************)
EXTENDS ErrorPolicy, Placement, Sequences, SequencesExt

CONSTANTS
    Sites,          \* deployments: the API's hardware, the worker's, its queues, settings.device
    Sources,        \* assets, images and videos
    Requests,       \* bodies of POST /assets/{id}/process
    Carries,        \* containers whose alpha plane this ffmpeg build keeps
    FrameLimit,     \* settings.max_video_frames
    MaxRetries,     \* tasks.MAX_RETRIES
    MaxJobs,        \* bound: jobs taken
    MaxMishaps      \* bound: failures of storage, encoder, probe or process

ASSUME MediaAssumption ==
    /\ FrameLimit \in Nat /\ MaxRetries \in Nat /\ MaxJobs \in Nat /\ MaxMishaps \in Nat
    /\ Carries \subseteq {"webm", "mov", "qtrle"}
    /\ \A p \in Requests : "kind" \in DOMAIN p

\* What schemas.py lets through, and what probe reads from a container.
VideoBody(p) ==
    /\ {"mode", "container", "max_frames", "batch_size", "device"} \subseteq DOMAIN p
    /\ p.container \in {None, "mp4", "webm", "mov", "qtrle"}
    /\ p.max_frames \in Nat /\ p.batch_size \in Nat \ {0}
ASSUME RequestAssumption ==
    /\ \A p \in Requests : p.kind = "video" => VideoBody(p)
    /\ \A s \in Sources : s.kind = "video" => {s.declared, s.estimate, s.frames} \subseteq Nat

VARIABLES
    site,
    verdicts,       \* the lru_cache of _alpha_roundtrip_works
    unrun,          \* history: the containers whose probe could not run in this process
    work,           \* the attempt in progress
    workdir,        \* deliverables in the attempt's temporary directory
    stored,         \* objects under the job's results/ prefix, by name
    ended,          \* how the last job ended
    jobs, mishaps

outside == <<stored, ended>>
vars == <<site, verdicts, unrun, work, workdir, outside, jobs, mishaps>>

-----------------------------------------------------------------------------
(* ffmpeg.py: containers *)

CONTAINER_EXTENSIONS ==
    [mp4 |-> "mp4", h264 |-> "mp4", m4v |-> "m4v", webm |-> "webm", vp9 |-> "webm",
     mov |-> "mov", prores |-> "mov", qtrle |-> "mov"]

container_extension(container) == CONTAINER_EXTENSIONS[container]

ALPHA_CONTAINERS == <<"webm", "mov", "qtrle">>
container_supports_alpha(container) == container \in {"webm", "vp9", "mov", "prores", "qtrle"}

\* ProRes 4444 and QuickTime RLE have an alpha plane whether asked or not; what they
\* are fed decides what is in it.
encoder_args(container, alpha) ==
    CASE container \in {"mp4", "h264", "m4v"} -> [codec |-> "libx264", plane |-> FALSE]
      [] container \in {"webm", "vp9"}        -> [codec |-> "libvpx-vp9", plane |-> alpha]
      [] container \in {"mov", "prores"}      -> [codec |-> "prores_ks", plane |-> TRUE]
      [] container = "qtrle"                  -> [codec |-> "qtrle", plane |-> TRUE]

\* The plane of a WebM is seen only by the decoder alpha_decoder_args asks for.
native_decoder(container) == FALSE
alpha_decoder_args(container) == container \in {"webm", "vp9", "vp8"}
DecodesAlpha(container) == container \in {"webm", "vp9"} => alpha_decoder_args(container)

\* Half the frame is transparent: do both extremes come back?
RoundTrips(container) ==
    encoder_args(container, TRUE).plane /\ container \in Carries /\ DecodesAlpha(container)

muxers == {"mp4", "m4v", "webm", "mov"}

-----------------------------------------------------------------------------
(* The stored parameters, and the requests rebuilt from them *)

\* schemas.py: the container that goes with the mode when none is named.
DefaultContainer(mode) == IF mode = "transparent" THEN "webm" ELSE "mp4"

build_video_request(params, batch) ==
    [params EXCEPT !.container = IF @ = None THEN DefaultContainer(params.mode) ELSE @,
                   !.batch_size = batch]

CONTENT_TYPES ==
    [png |-> "image/png", webp |-> "image/webp", jpg |-> "image/jpeg", mp4 |-> "video/mp4",
     webm |-> "video/webm", mov |-> "video/quicktime", zip |-> "application/zip"]
ContentType(ext) ==
    IF ext \in DOMAIN CONTENT_TYPES THEN CONTENT_TYPES[ext] ELSE "application/octet-stream"

OUTPUT_EXTENSIONS ==
    [transparent_png |-> "png", transparent_webp |-> "webp", mask_png |-> "png",
     color_composite |-> "png", background_composite |-> "png", blurred_background |-> "png"]
always_png(kind) == "png"
OutputExtension(kind) == OUTPUT_EXTENSIONS[kind]

\* image.py: what encode_image makes of each kind.
Encoded(kind) == [format |-> IF kind = "transparent_webp" THEN "webp" ELSE "png",
                  alpha  |-> kind \in {"transparent_png", "transparent_webp"},
                  frames |-> <<0>>]

-----------------------------------------------------------------------------

Video(s) == s.kind = "video"
NoJob == [pc |-> "idle"]

\* process_asset: the queue is chosen for the device the client named, and the job is
\* given that device or the one of the settings.
Queue(params) == select_queue(params.kind, params.device, site.api)
Device(params) == IF params.device = None THEN site.device ELSE params.device

\* SegmentationModel.__init__, in the worker.
On(params) ==
    LET device == resolve_device(Device(params), site.worker) IN
    [device |-> device, precision |-> resolve_precision(params.precision, device, site.worker)]

Attempt(params, source) ==
    [pc |-> "open", params |-> params, source |-> source, try |-> 0, last |-> None,
     batch |-> IF Video(source) THEN params.batch_size ELSE 1,
     on |-> None, done |-> 0, paths |-> <<>>, file |-> None, left |-> {}]

InProgress == work.pc # "idle"
Request == build_video_request(work.params, work.batch)
At(pc) == work.pc = pc
Go(pc) == work' = [work EXCEPT !.pc = pc]
Mishap == mishaps < MaxMishaps /\ mishaps' = mishaps + 1
NoMishap == UNCHANGED mishaps

Places == {"idle", "open", "probe", "alpha", "limit", "render", "close", "archive", "deliver",
           "image", "put"}

TypeOK ==
    /\ work.pc \in Places /\ jobs \in 0 .. MaxJobs /\ mishaps \in 0 .. MaxMishaps
    /\ verdicts \in [Range(ALPHA_CONTAINERS) -> {"unknown", "works", "no"}]
    /\ InProgress => work.try \in 0 .. MaxRetries /\ work.batch >= 1
    /\ \A name \in DOMAIN stored : stored[name].type \in Range(CONTENT_TYPES)

Init ==
    /\ site \in Sites
    /\ verdicts = [c \in Range(ALPHA_CONTAINERS) |-> "unknown"] /\ unrun = {}
    /\ work = NoJob /\ workdir = {} /\ stored = [n \in {} |-> None] /\ ended = None
    /\ jobs = 0 /\ mishaps = 0

Begins(params, source) ==
    /\ At("idle") /\ jobs < MaxJobs /\ params.kind = source.kind
    /\ Queue(params) \in site.queues
    /\ work' = Attempt(params, source) /\ jobs' = jobs + 1
    /\ stored' = [n \in {} |-> None] /\ ended' = None /\ workdir' = {}
    /\ UNCHANGED <<verdicts, unrun, mishaps>>

_halve(batch) == IF batch <= 1 THEN 1 ELSE batch \div 2

loop_until_it_fits(w) == TRUE
stop_at_two(w) == w.batch > 2
\* Out of memory inside the loop of _run_video: the next pass is smaller.
CanShrink(w) == w.batch > 1

\* What the next attempt is given: out of memory, a video's batches are halved.
Again(verdict) ==
    IF is_oom(verdict) /\ Video(work.source)
    THEN [work.params EXCEPT !.batch_size = _halve(@)] ELSE work.params

KeptOnFailure(files) == files
Swept(files) == {}

\* An exception leaves the pass; the runner starts a smaller one, the task schedules
\* another attempt, or the job has failed.
Raise(exc) ==
    LET verdict == classify(exc)
        inLoop == Video(work.source) /\ ~At("open")
        last == [exc |-> exc, verdict |-> verdict] IN
    IF is_oom(verdict) /\ inLoop /\ CanShrink(work)
    THEN /\ work' = [work EXCEPT !.pc = "probe", !.batch = _halve(@), !.last = last]
         /\ UNCHANGED <<workdir, outside>>
    ELSE /\ workdir' = Swept(workdir)
         /\ IF retryable(verdict) /\ work.try < MaxRetries
            THEN /\ work' = [Attempt(Again(verdict), work.source) EXCEPT
                               !.try = work.try + 1, !.last = last]
                 /\ UNCHANGED outside
            ELSE /\ work' = NoJob
                 /\ ended' = [status |-> "failed", try |-> work.try, last |-> last, at |-> work.pc,
                              params |-> work.params, source |-> work.source, batch |-> work.batch]
                 /\ UNCHANGED stored

Fails(type, says) ==
    /\ Raise(Because(type, says)) /\ NoMishap /\ UNCHANGED <<verdicts, unrun, jobs>>
FailsByChance(type, says) ==
    /\ Raise(Because(type, says)) /\ Mishap /\ UNCHANGED <<verdicts, unrun, jobs>>

Proceeds(pc) == Go(pc) /\ NoMishap /\ UNCHANGED <<verdicts, unrun, workdir, outside, jobs>>

\* The asset, the model, the background and, of a video, the copy in the workdir.
Opens ==
    /\ At("open")
    /\ IF ~KnownDevice(Device(work.params)) THEN Fails("RuntimeError", "plain")
       ELSE /\ work' = [work EXCEPT !.pc = IF Video(work.source) THEN "probe" ELSE "image",
                                   !.on = On(work.params)]
            /\ workdir' = IF Video(work.source) THEN {"source.bin"} ELSE workdir
            /\ NoMishap /\ UNCHANGED <<verdicts, unrun, outside, jobs>>

OpenFails ==
    At("open") /\ \E t \in {"ObjectNotFoundError", "ConnectionError", "WeightsUnavailableError"} :
                     FailsByChance(t, "plain")

-----------------------------------------------------------------------------
(* VideoPipeline.process *)

FrameCount(s) == IF s.declared > 0 THEN s.declared ELSE s.estimate

Probe ==
    /\ At("probe")
    /\ IF ~work.source.readable THEN Fails("UnsupportedCodecError", work.source.says)
       ELSE IF ~work.source.area THEN Fails("ValueError", "plain")
       ELSE Proceeds(IF Request.mode = "transparent" THEN "alpha" ELSE "limit")

Specified(container) == TRUE
AlphaWorks(container) == verdicts[container] = "works"
Unprobed == SelectSeq(ALPHA_CONTAINERS, LAMBDA c : verdicts[c] = "unknown")

\* _alpha_roundtrip_works, which caches the same False for a container that drops alpha
\* and for a probe that could not run.
ProbeAlpha(container) ==
    /\ \/ /\ verdicts' = [verdicts EXCEPT ![container] =
                            IF RoundTrips(container) THEN "works" ELSE "no"]
          /\ NoMishap /\ UNCHANGED unrun
       \/ /\ verdicts' = [verdicts EXCEPT ![container] = "no"]
          /\ Mishap /\ unrun' = unrun \cup {container}
    /\ UNCHANGED <<work, workdir, outside, jobs>>

\* The refusal names the containers that work, so all of them are probed.
CheckAlpha ==
    /\ At("alpha")
    /\ LET container == Request.container IN
       IF ~container_supports_alpha(container) THEN Fails("ValueError", "plain")
       ELSE IF verdicts[container] = "unknown" THEN ProbeAlpha(container)
       ELSE IF AlphaWorks(container) THEN Proceeds("limit")
       ELSE IF Unprobed # <<>> THEN ProbeAlpha(Head(Unprobed))
       ELSE Fails("ValueError", "plain")

Requested(request, source) ==
    IF request.max_frames > 0 THEN request.max_frames ELSE FrameCount(source)

\* The number in the refusal may contain 503.
CheckLimit ==
    /\ At("limit")
    /\ IF FrameLimit > 0 /\ Requested(Request, work.source) > FrameLimit
       THEN \E says \in {"plain", "transient"} : Fails("ValueError", says)
       ELSE /\ work' = [work EXCEPT !.pc = "render", !.done = 0, !.paths = <<>>]
            /\ NoMishap /\ UNCHANGED <<verdicts, unrun, workdir, outside, jobs>>

\* What the decoder was asked for.
Decoded(request, source) ==
    IF request.max_frames > 0 /\ request.max_frames < source.frames
    THEN request.max_frames ELSE source.frames

ContinuePass(w, n) == [w EXCEPT !.done = @ + n, !.paths = @ \o [k \in 1 .. n |-> k - 1]]
ExtendPass(w, n) == [w EXCEPT !.done = @ + n, !.paths = @ \o [k \in 1 .. n |-> w.done + k - 1]]

\* One batch is inferred and its frames are written: to the encoder, or as files.
Render ==
    /\ At("render")
    /\ LET left == Decoded(Request, work.source) - work.done
           batch == IF left < Request.batch_size THEN left ELSE Request.batch_size IN
       /\ left > 0
       /\ \/ Fails("OutOfMemoryError", "plain")
          \/ /\ work' = ExtendPass(work, batch) /\ NoMishap
             /\ UNCHANGED <<verdicts, unrun, workdir, outside, jobs>>

\* The stream is over: its decoder may have given up, unless max_frames ended it.
DecoderEnds ==
    /\ At("render") /\ work.done = Decoded(Request, work.source)
    /\ IF work.source.breaks /\ work.done = work.source.frames
       THEN Fails("UnsupportedCodecError", work.source.says)
       ELSE Proceeds(IF Request.mode = "frames" THEN "archive" ELSE "close")

Alpha(request) == request.mode = "transparent"
File(format, alpha, frames) == [format |-> format, alpha |-> alpha, frames |-> frames]

\* The encoder's verdict comes with its exit.  The source's audio is copied as it is,
\* and WebM takes only some codecs.
EncoderEnds ==
    /\ At("close")
    /\ LET ext == container_extension(Request.container)
           args == encoder_args(Request.container, Alpha(Request))
           refused == \/ ext \notin muxers
                      \/ ext = "webm" /\ Request.keep_audio /\ work.source.audio = "foreign"
           file == File(ext, Alpha(Request) /\ args.plane /\ Request.container \in Carries,
                        work.paths) IN
       IF refused THEN Fails("FFmpegError", "plain")
       ELSE \/ FailsByChance("FFmpegError", "transient")
            \/ /\ work' = [work EXCEPT !.pc = "deliver", !.file = file]
               /\ workdir' = workdir \cup {"output"}
               /\ NoMishap /\ UNCHANGED <<verdicts, unrun, outside, jobs>>

\* archive_frames: no frames, no archive, and the directory is the deliverable.
Archive ==
    /\ At("archive")
    /\ work' = [work EXCEPT !.pc = "deliver",
                           !.file = IF work.paths = <<>> THEN File("directory", FALSE, <<>>)
                                    ELSE File("zip", TRUE, work.paths)]
    /\ workdir' = workdir \cup {"frames"} \cup (IF work.paths = <<>> THEN {} ELSE {"frames.zip"})
    /\ NoMishap /\ UNCHANGED <<verdicts, unrun, outside, jobs>>

Succeeds(outputs, frames, has_alpha) ==
    /\ ended' = [status |-> "succeeded", params |-> work.params, source |-> work.source,
                 outputs |-> outputs, frames |-> frames, has_alpha |-> has_alpha]
    /\ work' = NoJob /\ workdir' = Swept(workdir)

Object(file, ext) == [type |-> ContentType(ext), format |-> file.format, alpha |-> file.alpha,
                      frames |-> file.frames]
Stores(name, object) ==
    stored' = [n \in DOMAIN stored \cup {name} |-> IF n = name THEN object ELSE stored[n]]

DeliverVideo ==
    /\ At("deliver") /\ work.file.format # "directory"
    /\ Stores(<<"output", work.file.format>>, Object(work.file, work.file.format))
    /\ Succeeds({<<"output", work.file.format>>}, work.done,
                Request.mode \in {"transparent", "frames"})
    /\ NoMishap /\ UNCHANGED <<verdicts, unrun, jobs>>

DeliveryFails ==
    \/ At("deliver") /\ work.file.format = "directory" /\ Fails("IsADirectoryError", "plain")
    \/ (At("deliver") \/ At("put")) /\ FailsByChance("ConnectionError", "plain")

-----------------------------------------------------------------------------
(* ImagePipeline.process_bytes *)

Refusing(request) == request.background = FALSE /\ "background_composite" \in Range(request.outputs)

\* Decoding checks the pixels before it converts, converting finds a truncated file,
\* and the outputs are all encoded before the first is stored.
ProcessImage ==
    /\ At("image")
    /\ IF work.source.large THEN Fails("ValueError", "plain")
       ELSE IF work.source.truncated THEN Fails("OSError", "plain")
       ELSE \/ Fails("OutOfMemoryError", "plain")
            \/ /\ Refusing(work.params) /\ Fails("ValueError", "plain")
            \/ /\ ~Refusing(work.params)
               /\ work' = [work EXCEPT !.pc = "put", !.left = Range(work.params.outputs)]
               /\ NoMishap /\ UNCHANGED <<verdicts, unrun, workdir, outside, jobs>>

\* The name under the job's prefix, and its extension.
Name(kind) == <<kind, OutputExtension(kind)>>

PutOutput(kind) ==
    /\ At("put") /\ kind \in work.left
    /\ Stores(Name(kind), Object(Encoded(kind), OutputExtension(kind)))
    /\ work' = [work EXCEPT !.left = @ \ {kind}]
    /\ NoMishap /\ UNCHANGED <<verdicts, unrun, workdir, ended, jobs>>

DeliverImage ==
    /\ At("put") /\ work.left = {}
    /\ Succeeds({Name(k) : k \in Range(work.params.outputs)}, 1, FALSE)
    /\ NoMishap /\ UNCHANGED <<verdicts, unrun, stored, jobs>>

\* A killed process takes its cache with it and leaves its temporary directory.
WorkerDies ==
    /\ InProgress /\ Mishap
    /\ work' = NoJob /\ verdicts' = [c \in DOMAIN verdicts |-> "unknown"] /\ unrun' = {}
    /\ UNCHANGED <<workdir, outside, jobs>>

-----------------------------------------------------------------------------

Step ==
    \/ Opens \/ OpenFails \/ Probe \/ CheckAlpha \/ CheckLimit \/ Render \/ DecoderEnds
    \/ EncoderEnds \/ Archive \/ DeliverVideo \/ DeliveryFails
    \/ ProcessImage \/ (\E k \in DOMAIN OUTPUT_EXTENSIONS : PutOutput(k)) \/ DeliverImage

Advance == Step /\ UNCHANGED site

Next ==
    \/ Advance
    \/ (WorkerDies \/ \E p \in Requests, s \in Sources : Begins(p, s)) /\ UNCHANGED site

Spec == Init /\ [][Next]_vars

\* The worker's code runs while the process does.
FairSpec == Spec /\ WF_vars(Advance)

-----------------------------------------------------------------------------

Succeeded == ended # None /\ ended.status = "succeeded"
Failed    == ended # None /\ ended.status = "failed"

\* A result that says it has alpha has it ("a silently opaque transparent video" is
\* what the round-trip probe is for).
AlphaIsReal ==
    Succeeded /\ ended.has_alpha => \A n \in ended.outputs : stored[n].alpha

\* A transparent video is refused only in a container whose alpha this ffmpeg drops, or
\* whose probe could not run in this process, for an earlier job maybe: until the process
\* ends, that one failure refuses a container the build carries.
RefusedRightly ==
    Failed /\ ended.at = "alpha" =>
        LET container == build_video_request(ended.params, ended.batch).container IN
        container \notin Carries \/ container \in unrun

\* No job renders more frames than the limit, when the container told how many it has.
WithinFrameLimit ==
    Succeeded /\ Video(ended.source) /\ FrameLimit > 0 =>
        \/ ended.frames <= FrameLimit
        \/ FrameCount(ended.source) < ended.source.frames

\* The deliverable holds the frames that were asked for, each once and in order, and
\* its result counts them, whatever passes ran out of memory before this one.
DeliversOnePass ==
    Succeeded /\ Video(ended.source) =>
        \A n \in ended.outputs :
            /\ stored[n].frames = [k \in 1 .. Decoded(ended.params, ended.source) |-> k - 1]
            /\ ended.frames = Len(stored[n].frames)

\* Every output that was asked for is stored, under a name and a content type that are
\* those of its bytes.
ServesWhatWasAsked ==
    Succeeded =>
        /\ ~Video(ended.source) =>
             \A kind \in Range(ended.params.outputs) : \E n \in ended.outputs :
                n \in DOMAIN stored /\ stored[n] = Object(Encoded(kind), Encoded(kind).format)
        /\ Cardinality(ended.outputs) =
             IF Video(ended.source) THEN 1 ELSE Cardinality(Range(ended.params.outputs))
        /\ Video(ended.source) /\ ended.params.mode # "frames" =>
             \E n \in ended.outputs : stored[n].format \in muxers

\* A request that no attempt can satisfy: a device no one has, a file no decoder reads,
\* alpha in a container that drops it, more frames or pixels than the limit.
Wrong(params, source) ==
    \/ ~KnownDevice(Device(params))
    \/ ~Video(source) /\ source.large
    \/ /\ Video(source)
       /\ \/ ~source.readable \/ ~source.area
          \/ /\ params.mode = "transparent"
             /\ build_video_request(params, 1).container \notin Carries
          \/ FrameLimit > 0 /\ Requested(params, source) > FrameLimit

\* What ffmpeg says of it reads as out of memory, which classify asks before the type.
ReadsAsOom(source) == Video(source) /\ ~source.readable /\ source.says = "oom"

\* No frame of a wrong request is rendered and none succeeds, and unless ffmpeg's words
\* read as out of memory, only a failure of the infrastructure has it tried again.
WrongRequestsFail ==
    /\ InProgress /\ Wrong(work.params, work.source) =>
         /\ work.pc \in {"open", "probe", "alpha", "limit", "image"}
         /\ work.try > 0 /\ ~ReadsAsOom(work.source) =>
              work.last.exc.type \in DOMAIN Infrastructure
    /\ Succeeded => ~Wrong(ended.params, ended.source)

\* A job fails for the infrastructure only at its last retry, and for memory, or for words
\* that read so, only at its last retry and on batches of one frame.
GivenUpLast ==
    Failed =>
        /\ ended.last.exc.type \in DOMAIN Infrastructure => ended.try = MaxRetries
        /\ is_oom(ended.last.verdict) =>
             ended.try = MaxRetries /\ (Video(ended.source) => ended.batch = 1)

\* The API and the worker may be two machines, and each decides for itself.  A job of a
\* GPU queue is in the queue of its kind ("a 4K video worker at the same concurrency
\* OOMs") and on the GPU ("CPU-only work should not idle on a GPU worker"), unless its
\* worker has none or it was given another device; a job of the cpu queue is on a GPU
\* only when the API has none; and the CPU a client named is what it gets.
RunsWhereRouted ==
    InProgress /\ work.on # None =>
        /\ Queue(work.params) # "cpu" =>
             /\ Queue(work.params) = GpuQueue(work.source.kind)
             /\ \/ work.on.device = "cuda"
                \/ ~cuda_available(site.worker)
                \/ Device(work.params) \notin {None, "auto", "cuda"}
        /\ Queue(work.params) = "cpu" /\ work.on.device = "cuda" => ~cuda_available(site.api)
        /\ work.params.device = "cpu" => Queue(work.params) = "cpu" /\ work.on.device = "cpu"

\* The precision a torch model reports is the one it computes in, on whatever it runs,
\* and no model reports bf16 on hardware without it.  An ONNX model reports the same
\* precision and computes in fp32: of it the first is not claimed.
PrecisionIsReal ==
    InProgress /\ work.on # None =>
        /\ work.params.runtime = "torch" =>
             Computes("torch", work.on.device, work.on.precision) = work.on.precision
        /\ work.on.precision = "bf16" => bf16_supported(work.on.device, site.worker)

\* An attempt that ended, well or not, left nothing on the worker's disk.
NothingLeftBehind ==
    (ended # None \/ (At("open") /\ work.try > 0)) => workdir = {}

\* A job comes to an end even if the device is out of memory whenever it is used.
JobsEnd == InProgress ~> ~InProgress

\* What a job says about alpha is so: a transparent result is transparent, and a refusal
\* has a container that drops alpha, or a probe that could not run, behind it.
AlphaIsTrue == AlphaIsReal /\ RefusedRightly

\* What cannot succeed is not attempted for long, and what might is not given up early.
RetriesWhatMayPass == WrongRequestsFail /\ GivenUpLast

\* The frames of the deliverable are those that were asked for, and no more of them
\* than the limit allows, whatever passes failed on the way.
RendersWhatWasAsked == DeliversOnePass /\ WithinFrameLimit

\* The queue, the device and the precision of a job agree, although the API, the
\* worker and the model each decide one of them.
RunsAsPlaced == RunsWhereRouted /\ PrecisionIsReal

\* Every part of the state has its shape, and what is stored is what was asked for.
StoresWhatWasAsked == TypeOK /\ ServesWhatWasAsked
=============================================================================
