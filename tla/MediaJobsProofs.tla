---------------------------- MODULE MediaJobsProofs ----------------------------
(***************************************************************************)
(* Proofs about MediaJobs and the Placement and ErrorPolicy it uses, for   *)
(* every deployment, source and request and every number of retries.       *)
(***************************************************************************)
EXTENDS MediaJobs, SequenceTheorems, FiniteSetTheorems, FunctionTheorems, TLAPS

USE MediaAssumption, NoneAssumption

-----------------------------------------------------------------------------
(* What an attempt keeps *)

Fields == {"pc", "params", "source", "try", "last", "batch", "on", "done", "paths", "file", "left"}

\* The last failure is one that deserved another attempt.
Deserved(last) == last.verdict = classify(last.exc) /\ retryable(last.verdict)

\* An attempt knows what it is about, why it is not the first, and, once its model is
\* loaded, where that was resolved to run.
Sound(w) ==
    /\ DOMAIN w = Fields
    /\ w.pc # "idle"
    /\ "kind" \in DOMAIN w.params /\ w.params.kind = w.source.kind
    /\ w.try \in 0 .. MaxRetries
    /\ w.try > 0 => Deserved(w.last)
    /\ w.on # None => w.on = On(w.params)

\* A job that ended has left its worker, and failed for something final or at the end
\* of its retries.
Over(e) ==
    e.status = "failed" =>
        /\ e.try \in 0 .. MaxRetries /\ e.last.verdict = classify(e.last.exc)
        /\ retryable(e.last.verdict) => e.try = MaxRetries

Inv ==
    /\ work = NoJob \/ Sound(work)
    /\ ended # None => work = NoJob /\ workdir = {} /\ Over(ended)
    /\ At("open") => workdir = {}

\* A step of an attempt changes how far it is, not what it is about.
Continues(w) ==
    /\ DOMAIN w = Fields
    /\ w.pc \notin {"idle", "open"}
    /\ w.params = work.params /\ w.source = work.source /\ w.try = work.try
    /\ w.last = work.last \/ Deserved(w.last)
    /\ w.on = work.on \/ w.on = On(work.params)

LEMMA ContinuesSound ==
    ASSUME Inv, InProgress, Continues(work'), ended' = ended, UNCHANGED site
    PROVE  Inv'
  <1>1. Sound(work) /\ ended = None  BY DEF Inv, InProgress, NoJob
  <1>2. On(work.params)' = On(work.params)  BY DEF Continues, On, Device
  <1>3. Sound(work)'  BY <1>1, <1>2 DEF Continues, Sound, Deserved
  <1> QED  BY <1>1, <1>3 DEF Inv, Continues, At

LEMMA GoContinues ==
    ASSUME Inv, InProgress, NEW pc, pc \notin {"idle", "open"}, Go(pc)
    PROVE  Continues(work')
  BY DEF Inv, InProgress, NoJob, Sound, Go, Continues, Fields

\* An exception ends the pass, the attempt or the job.
LEMMA RaiseSound ==
    ASSUME Inv, InProgress, NEW exc, Raise(exc), UNCHANGED site
    PROVE  Inv'
  <1> DEFINE verdict == classify(exc)
             last == [exc |-> exc, verdict |-> verdict]
             inLoop == Video(work.source) /\ ~At("open")
             first == Attempt(Again(verdict), work.source)
  <1>1. Sound(work) /\ ended = None  BY DEF Inv, InProgress, NoJob
  <1>2. last.exc = exc /\ last.verdict = classify(exc)  OBVIOUS
  <1>3. is_oom(verdict) => retryable(verdict)  BY DEF is_oom, retryable
  <1>4. CASE is_oom(verdict) /\ inLoop /\ CanShrink(work)
    <2>1. work' = [work EXCEPT !.pc = "probe", !.batch = _halve(@), !.last = last] /\ ended' = ended
      BY <1>4 DEF Raise, outside
    <2>2. Deserved(last)  BY <1>2, <1>3, <1>4 DEF Deserved
    <2>3. Continues(work')  BY <1>1, <2>1, <2>2 DEF Continues, Sound, Fields
    <2> QED  BY <2>1, <2>3, ContinuesSound
  <1>5. CASE ~(is_oom(verdict) /\ inLoop /\ CanShrink(work))
    <2>1. workdir' = {}  BY <1>5 DEF Raise, Swept
    <2>2. CASE retryable(verdict) /\ work.try < MaxRetries
      <3>1. ended' = ended  BY <1>5, <2>2 DEF Raise, outside
      <3>2. work' = [first EXCEPT !.try = work.try + 1, !.last = last]
        BY <1>5, <2>2 DEF Raise
      <3>3. "kind" \in DOMAIN Again(verdict) /\ Again(verdict).kind = work.source.kind
        BY <1>1 DEF Sound, Again
      <3>4. Deserved(last)  BY <1>2, <2>2 DEF Deserved
      <3>5. /\ DOMAIN work' = Fields /\ work'.pc = "open" /\ work'.params = Again(verdict)
            /\ work'.source = work.source /\ work'.try = work.try + 1 /\ work'.last = last
            /\ work'.on = None
        <4>1. /\ DOMAIN first = Fields /\ first.pc = "open" /\ first.on = None
              /\ first.params = Again(verdict) /\ first.source = work.source
          BY DEF Attempt, Fields
        <4> HIDE DEF first, last
        <4> QED  BY <3>2, <4>1 DEF Fields
      <3>6. work'.try \in 0 .. MaxRetries  BY <1>1, <2>2, <3>5 DEF Sound
      <3>7. Sound(work)'
        <4> HIDE DEF last
        <4> QED  BY <3>3, <3>4, <3>5, <3>6 DEF Sound, Deserved
      <3> QED  BY <1>1, <2>1, <3>1, <3>7 DEF Inv
    <2>3. CASE ~(retryable(verdict) /\ work.try < MaxRetries)
      <3>1. /\ work' = NoJob /\ ended'.status = "failed"
            /\ ended'.try = work.try /\ ended'.last = last
        BY <1>5, <2>3 DEF Raise
      <3>2. Over(ended)'  BY <1>1, <1>2, <2>3, <3>1 DEF Over, Sound
      <3> QED  BY <2>1, <3>1, <3>2 DEF Inv, At, NoJob
    <2> QED  BY <2>2, <2>3
  <1> QED  BY <1>4, <1>5

LEMMA FailsSound ==
    ASSUME Inv, InProgress, NEW type, NEW says, Fails(type, says) \/ FailsByChance(type, says),
           UNCHANGED site
    PROVE  Inv'
  BY RaiseSound DEF Fails, FailsByChance

LEMMA ProceedsSound ==
    ASSUME Inv, InProgress, NEW pc, pc \notin {"idle", "open"}, Proceeds(pc), UNCHANGED site
    PROVE  Inv'
  BY GoContinues, ContinuesSound DEF Proceeds, outside

LEMMA AtWork ==
    ASSUME NEW pc, pc # "idle", At(pc)
    PROVE  InProgress
  BY DEF At, InProgress

LEMMA SucceedsSound ==
    ASSUME Inv, InProgress, NEW outputs, NEW frames, NEW alpha, Succeeds(outputs, frames, alpha)
    PROVE  Inv'
  BY DEF Inv, Succeeds, Swept, Over, At, NoJob

-----------------------------------------------------------------------------
(* The steps *)

LEMMA OpenSound ==
    ASSUME Inv, Opens \/ OpenFails, UNCHANGED site
    PROVE  Inv'
  <1>1. InProgress  BY AtWork DEF Opens, OpenFails
  <1>2. CASE OpenFails  BY <1>1, <1>2, FailsSound DEF OpenFails
  <1>3. CASE Opens
    <2>1. CASE ~KnownDevice(Device(work.params))  BY <1>1, <1>3, <2>1, FailsSound DEF Opens
    <2>2. CASE KnownDevice(Device(work.params))
      <3>1. /\ work' = [work EXCEPT !.pc = IF Video(work.source) THEN "probe" ELSE "image",
                                    !.on = On(work.params)]
            /\ ended' = ended
        BY <1>3, <2>2 DEF Opens, outside
      <3>2. Continues(work')
        <4>1. Sound(work)  BY <1>1 DEF Inv, InProgress, NoJob
        <4>2. DOMAIN work = Fields  BY <4>1 DEF Sound
        <4> QED  BY <3>1, <4>2 DEF Continues, Fields
      <3> QED  BY <1>1, <3>1, <3>2, ContinuesSound
    <2> QED  BY <2>1, <2>2
  <1> QED  BY <1>2, <1>3

LEMMA ValidationSound ==
    ASSUME Inv, Probe \/ CheckAlpha \/ CheckLimit, UNCHANGED site
    PROVE  Inv'
  <1>1. InProgress  BY AtWork DEF Probe, CheckAlpha, CheckLimit
  <1>2. CASE Probe  BY <1>1, <1>2, FailsSound, ProceedsSound DEF Probe
  <1>3. CASE CheckAlpha
    <2>1. CASE \E c : ProbeAlpha(c)
      BY <2>1 DEF ProbeAlpha, outside, Inv, Sound, Over, At, On, Device, Deserved
    <2>2. CASE ~ \E c : ProbeAlpha(c)
      BY <1>1, <1>3, <2>2, FailsSound, ProceedsSound DEF CheckAlpha
    <2> QED  BY <2>1, <2>2
  <1>4. CASE CheckLimit
    <2>1. CASE \E t, says : Fails(t, says)  BY <1>1, <2>1, FailsSound
    <2>2. CASE work' = [work EXCEPT !.pc = "render", !.done = 0, !.paths = <<>>] /\ ended' = ended
      <3>1. DOMAIN work = Fields  BY <1>1 DEF Inv, InProgress, NoJob, Sound
      <3>2. Continues(work')  BY <2>2, <3>1 DEF Continues, Fields
      <3> QED  BY <1>1, <2>2, <3>2, ContinuesSound
    <2> QED  BY <1>4, <2>1, <2>2 DEF CheckLimit, outside
  <1> QED  BY <1>2, <1>3, <1>4

LEMMA PassSound ==
    ASSUME Inv, Render \/ DecoderEnds \/ EncoderEnds \/ Archive, UNCHANGED site
    PROVE  Inv'
  <1>1. InProgress  BY AtWork DEF Render, DecoderEnds, EncoderEnds, Archive
  <1>2. DOMAIN work = Fields  BY <1>1 DEF Inv, InProgress, NoJob, Sound
  <1>3. CASE \E t, says : Fails(t, says) \/ FailsByChance(t, says)  BY <1>1, <1>3, FailsSound
  <1>4. CASE Render
    <2>1. CASE \E n : work' = ExtendPass(work, n) /\ ended' = ended
      <3>1. Continues(work')
        <4>1. PICK n : work' = ExtendPass(work, n)  BY <2>1
        <4>2. work.pc = "render"  BY <1>4 DEF Render, At
        <4> QED  BY <1>2, <4>1, <4>2 DEF Continues, ExtendPass, Fields
      <3> QED  BY <1>1, <2>1, <3>1, ContinuesSound
    <2> QED  BY <1>3, <1>4, <2>1 DEF Render, outside
  <1>5. CASE DecoderEnds
    BY <1>1, <1>3, <1>5, ProceedsSound DEF DecoderEnds
  <1>6. CASE \E f : work' = [work EXCEPT !.pc = "deliver", !.file = f] /\ ended' = ended
    <2>1. Continues(work')  BY <1>2, <1>6 DEF Continues, Fields
    <2> QED  BY <1>1, <1>6, <2>1, ContinuesSound
  <1>7. CASE EncoderEnds  BY <1>3, <1>6, <1>7 DEF EncoderEnds, outside
  <1>8. CASE Archive  BY <1>6, <1>8 DEF Archive, outside
  <1> QED  BY <1>4, <1>5, <1>7, <1>8

LEMMA DeliverySound ==
    ASSUME Inv, DeliverVideo \/ DeliveryFails \/ DeliverImage, UNCHANGED site
    PROVE  Inv'
  <1>1. InProgress  BY AtWork DEF DeliverVideo, DeliveryFails, DeliverImage
  <1> QED  BY <1>1, FailsSound, SucceedsSound DEF DeliverVideo, DeliveryFails, DeliverImage

LEMMA ImageSound ==
    ASSUME Inv, ProcessImage \/ \E k \in DOMAIN OUTPUT_EXTENSIONS : PutOutput(k), UNCHANGED site
    PROVE  Inv'
  <1>1. InProgress  BY AtWork DEF ProcessImage, PutOutput
  <1>2. DOMAIN work = Fields  BY <1>1 DEF Inv, InProgress, NoJob, Sound
  <1>3. CASE ProcessImage
    <2>1. CASE \E t, says : Fails(t, says)  BY <1>1, <2>1, FailsSound
    <2>2. CASE work' = [work EXCEPT !.pc = "put", !.left = Range(work.params.outputs)] /\ ended' = ended
      <3>1. Continues(work')  BY <1>2, <2>2 DEF Continues, Fields
      <3> QED  BY <1>1, <2>2, <3>1, ContinuesSound
    <2> QED  BY <1>3, <2>1, <2>2 DEF ProcessImage, outside
  <1>4. CASE \E k \in DOMAIN OUTPUT_EXTENSIONS : PutOutput(k)
    <2>1. PICK k \in DOMAIN OUTPUT_EXTENSIONS : PutOutput(k)  BY <1>4
    <2>2. Continues(work')
      <3>1. work' = [work EXCEPT !.left = work.left \ {k}] /\ work.pc = "put"
        BY <2>1 DEF PutOutput, At
      <3> QED  BY <1>2, <3>1 DEF Continues, Fields
    <2> QED  BY <1>1, <2>1, <2>2, ContinuesSound DEF PutOutput
  <1> QED  BY <1>3, <1>4

LEMMA BeginSound ==
    ASSUME Inv, NEW p \in Requests, NEW s \in Sources, Begins(p, s)
    PROVE  Inv'
  <1>1. work' = Attempt(p, s) /\ p.kind = s.kind /\ workdir' = {} /\ ended' = None
    BY DEF Begins
  <1>2. Sound(work)'  BY <1>1 DEF Sound, Attempt, Fields
  <1> QED  BY <1>1, <1>2 DEF Inv

LEMMA Initial == Init => Inv
  BY DEF Init, Inv, At, NoJob

LEMMA Inductive == Inv /\ [Next]_vars => Inv'
<1> SUFFICES ASSUME Inv, [Next]_vars PROVE Inv'
  OBVIOUS
<1>1. CASE Advance
  BY <1>1, OpenSound, ValidationSound, PassSound, DeliverySound, ImageSound DEF Advance, Step
<1>2. CASE WorkerDies /\ UNCHANGED site
  BY <1>2 DEF WorkerDies, InProgress, Inv, At, NoJob, outside
<1>3. CASE \E p \in Requests, s \in Sources : Begins(p, s)
  BY <1>3, BeginSound
<1>4. CASE UNCHANGED vars
  BY <1>4 DEF vars, outside, Inv, Sound, Over, At, On, Device, Deserved
<1> QED  BY <1>1, <1>2, <1>3, <1>4 DEF Next

LEMMA Invariant == Spec => []Inv
BY Initial, Inductive, PTL DEF Spec

-----------------------------------------------------------------------------
(* What follows for every attempt *)

\* An attempt that ended left the worker's disk as it found it, whatever it had
\* written before it failed.
THEOREM NothingIsLeft == Spec => []NothingLeftBehind
<1>1. Inv => NothingLeftBehind  BY DEF Inv, NothingLeftBehind
<1> QED  BY <1>1, Invariant, PTL

LEMMA ResolvesToHardware ==
    ASSUME NEW requested, NEW hardware
    PROVE  /\ resolve_device(requested, hardware) \in {"cuda", "mps", "cpu"}
           /\ resolve_device(requested, hardware) = "cuda" =>
                cuda_available(hardware) /\ requested \in {None, "auto", "cuda"}
           /\ requested \in {None, "auto", "cuda"} /\ cuda_available(hardware) =>
                resolve_device(requested, hardware) = "cuda"
  BY DEF resolve_device, cuda_available, DeviceNames

LEMMA OnIs ==
    ASSUME NEW params
    PROVE  /\ On(params).device = resolve_device(Device(params), site.worker)
           /\ On(params).precision = resolve_precision(params.precision, On(params).device, site.worker)
  BY DEF On

\* The queue, chosen on the API's machine, and the device, resolved on the worker's, differ
\* only as far as the two machines or the settings do.
THEOREM RoutesAgree == Spec => []RunsWhereRouted
<1>1. Inv => RunsWhereRouted
  <2> SUFFICES ASSUME Inv, InProgress, work.on # None
               PROVE  /\ Queue(work.params) # "cpu" =>
                           /\ Queue(work.params) = GpuQueue(work.source.kind)
                           /\ \/ work.on.device = "cuda"
                              \/ ~cuda_available(site.worker)
                              \/ Device(work.params) \notin {None, "auto", "cuda"}
                      /\ Queue(work.params) = "cpu" /\ work.on.device = "cuda" =>
                           ~cuda_available(site.api)
                      /\ work.params.device = "cpu" =>
                           Queue(work.params) = "cpu" /\ work.on.device = "cpu"
    BY DEF RunsWhereRouted
  <2>1. work.on = On(work.params) /\ work.params.kind = work.source.kind
    BY DEF Inv, InProgress, NoJob, Sound
  <2>2. work.on.device = resolve_device(Device(work.params), site.worker)  BY <2>1, OnIs
  <2>3. work.params.device = "cpu" => Device(work.params) = "cpu"
    BY DEF Device, DeviceNames
  <2>4. resolve_device("cpu", site.worker) = "cpu"  BY DEF resolve_device, DeviceNames
  <2> QED  BY <2>1, <2>2, <2>3, <2>4, ResolvesToHardware DEF Queue, select_queue, GpuQueue, DeviceNames
<1> QED  BY <1>1, Invariant, PTL

LEMMA ResolvesToComputed ==
    ASSUME NEW requested, NEW device \in {"cuda", "mps", "cpu"}, NEW hardware
    PROVE  LET precision == resolve_precision(requested, device, hardware) IN
           /\ Computes("torch", device, precision) = precision
           /\ precision = "bf16" => bf16_supported(device, hardware)
  BY DEF resolve_precision, Computes, bf16_supported

\* The precision a loaded torch model reports is the one autocast gives it, on every
\* device and for every precision a request may name, and none reports a bf16 its device
\* does not have.
THEOREM PrecisionsAreReal == Spec => []PrecisionIsReal
<1>1. Inv => PrecisionIsReal
  <2> SUFFICES ASSUME Inv, InProgress, work.on # None
               PROVE  /\ Computes("torch", work.on.device, work.on.precision) = work.on.precision
                      /\ work.on.precision = "bf16" => bf16_supported(work.on.device, site.worker)
    BY DEF PrecisionIsReal
  <2>1. work.on = On(work.params)  BY DEF Inv, InProgress, NoJob, Sound
  <2> QED  BY <2>1, OnIs, ResolvesToHardware, ResolvesToComputed
<1> QED  BY <1>1, Invariant, PTL

-----------------------------------------------------------------------------
(* What the process remembers of its ffmpeg *)

\* A yes was measured; a no was, unless the probe could not run.
Remembers ==
    /\ verdicts \in [Range(ALPHA_CONTAINERS) -> {"unknown", "works", "no"}]
    /\ \A c \in DOMAIN verdicts : verdicts[c] = "no" => ~RoundTrips(c) \/ c \in unrun
    /\ \A c \in DOMAIN verdicts : verdicts[c] = "works" => RoundTrips(c)

LEMMA RoundTripsIfCarried ==
    ASSUME NEW c \in Carries
    PROVE  RoundTrips(c)
  BY DEF RoundTrips, encoder_args, DecodesAlpha, alpha_decoder_args

LEMMA ProbeRemembers ==
    ASSUME Remembers, NEW c, ProbeAlpha(c)
    PROVE  Remembers'
  <1>1. PICK v \in {"works", "no"} :
          /\ verdicts' = [verdicts EXCEPT ![c] = v]
          /\ v = "no" => ~RoundTrips(c) \/ c \in unrun'
          /\ v = "works" => RoundTrips(c)
    BY DEF ProbeAlpha
  <1>2. unrun \subseteq unrun'  BY DEF ProbeAlpha
  <1> QED  BY <1>1, <1>2 DEF Remembers

LEMMA RemembersHolds == Spec => []Remembers
<1>1. Init => Remembers  BY DEF Init, Remembers
<1>2. Remembers /\ [Next]_vars => Remembers'
  <2> SUFFICES ASSUME Remembers, [Next]_vars PROVE Remembers'  OBVIOUS
  <2>1. CASE \E c : ProbeAlpha(c)  BY <2>1, ProbeRemembers
  <2>2. CASE WorkerDies  BY <2>2 DEF WorkerDies, Remembers
  <2>3. CASE UNCHANGED <<verdicts, unrun>>  BY <2>3 DEF Remembers
  <2>4. \/ ProbeAlpha(Request.container) \/ ProbeAlpha(Head(Unprobed))
        \/ UNCHANGED <<verdicts, unrun>> \/ WorkerDies
    BY DEF Next, Advance, Step, Begins, Fails, FailsByChance, Proceeds, Opens, OpenFails, Probe,
           CheckAlpha, CheckLimit, Render, DecoderEnds, EncoderEnds, Archive, DeliverVideo,
           DeliveryFails, ProcessImage, PutOutput, DeliverImage, vars
  <2> QED  BY <2>1, <2>2, <2>3, <2>4
<1> QED  BY <1>1, <1>2, PTL DEF Spec

-----------------------------------------------------------------------------
(* What a pass over a video has checked and rendered so far *)

VideoPlaces == {"probe", "alpha", "limit", "render", "close", "archive", "deliver"}
Container(p) == IF p.container = None THEN DefaultContainer(p.mode) ELSE p.container

Known(w) ==
    /\ w.source \in Sources
    /\ Video(w.source) => VideoBody(w.params) /\ w.batch \in Nat \ {0}
    /\ w.pc \in VideoPlaces => Video(w.source)
    /\ w.pc \in {"image", "put"} => ~Video(w.source)

\* Past the checks, the alpha plane survives and the limit is kept.
Checked(w) ==
    /\ w.pc \in {"limit", "render", "close", "archive", "deliver"} /\ w.params.mode = "transparent" =>
         Container(w.params) \in Carries /\ encoder_args(Container(w.params), TRUE).plane
    /\ w.pc \in {"render", "close", "archive", "deliver"} /\ FrameLimit > 0 =>
         Requested(w.params, w.source) <= FrameLimit

\* The frames rendered are the first ones, and when the stream is over all of them.
Rendered(w) ==
    w.pc \in {"render", "close", "archive", "deliver"} =>
        /\ w.done \in 0 .. Decoded(w.params, w.source)
        /\ w.paths = [k \in 1 .. w.done |-> k - 1]
        /\ w.pc # "render" => w.done = Decoded(w.params, w.source)

\* What was made of them.
Filed(w) ==
    /\ w.pc = "close" => w.params.mode # "frames"
    /\ w.pc = "archive" => w.params.mode = "frames"
    /\ w.pc = "deliver" /\ w.file.format # "directory" =>
         /\ w.file.frames = w.paths
         /\ w.params.mode \in {"transparent", "frames"} => w.file.alpha

Passing(w) == Known(w) /\ Checked(w) /\ Rendered(w) /\ Filed(w)

Delivered(e, objects) ==
    e # None /\ e.status = "succeeded" /\ Video(e.source) =>
        /\ e.source \in Sources /\ VideoBody(e.params)
        /\ e.frames = Decoded(e.params, e.source)
        /\ FrameLimit > 0 => Requested(e.params, e.source) <= FrameLimit
        /\ \A n \in e.outputs :
             /\ objects[n].frames = [k \in 1 .. Decoded(e.params, e.source) |-> k - 1]
             /\ e.has_alpha => objects[n].alpha

Kept ==
    /\ work = NoJob \/ Passing(work)
    /\ Delivered(ended, stored)
    /\ ended # None /\ ended.status = "succeeded" /\ ~Video(ended.source) => ~ended.has_alpha

\* The request rebuilt from a body, and its batch size.
LEMMA RequestIs ==
    ASSUME VideoBody(work.params)
    PROVE  /\ Request.mode = work.params.mode /\ Request.max_frames = work.params.max_frames
           /\ Request.container = Container(work.params) /\ Request.batch_size = work.batch
  BY DEF VideoBody, Request, build_video_request, Container

LEMMA SameRequest ==
    ASSUME VideoBody(work.params)
    PROVE  /\ Requested(Request, work.source) = Requested(work.params, work.source)
           /\ Decoded(Request, work.source) = Decoded(work.params, work.source)
  BY RequestIs DEF Requested, Decoded

LEMMA Halved ==
    ASSUME NEW n \in Nat \ {0}
    PROVE  _halve(n) \in Nat \ {0}
  BY DEF _halve

\* An attempt, or a pass of one, that starts again has checked nothing.
LEMMA AgainPasses ==
    ASSUME Inv, Kept, InProgress, NEW exc, Raise(exc)
    PROVE  Kept'
  <1> DEFINE verdict == classify(exc)
             last == [exc |-> exc, verdict |-> verdict]
             inLoop == Video(work.source) /\ ~At("open")
             first == Attempt(Again(verdict), work.source)
  <1>1. Sound(work) /\ ended = None /\ Passing(work)  BY DEF Inv, Kept, InProgress, NoJob
  <1>2. CASE is_oom(verdict) /\ inLoop /\ CanShrink(work)
    <2>1. /\ work' = [work EXCEPT !.pc = "probe", !.batch = _halve(@), !.last = last]
          /\ UNCHANGED <<stored, ended>>
      BY <1>2 DEF Raise, outside
    <2>2. /\ work'.pc = "probe" /\ work'.source = work.source /\ work'.params = work.params
          /\ work'.batch = _halve(work.batch)
      BY <1>1, <2>1 DEF Sound, Fields
    <2>3. Known(work)'  BY <1>1, <1>2, <2>2, Halved DEF Passing, Known
    <2> QED  BY <1>1, <2>1, <2>2, <2>3 DEF Kept, Passing, Checked, Rendered, Filed, Delivered
  <1>3. CASE ~(is_oom(verdict) /\ inLoop /\ CanShrink(work))
    <2>1. CASE retryable(verdict) /\ work.try < MaxRetries
      <3>1. work' = [first EXCEPT !.try = work.try + 1, !.last = last] /\ UNCHANGED <<stored, ended>>
        BY <1>3, <2>1 DEF Raise, outside
      <3>2. /\ DOMAIN first = Fields /\ first.pc = "open" /\ first.source = work.source
            /\ first.params = Again(verdict)
            /\ Video(work.source) => first.batch = Again(verdict).batch_size
        BY DEF Attempt, Fields
      <3>3. /\ work'.pc = "open" /\ work'.source = work.source /\ work'.params = Again(verdict)
            /\ Video(work.source) => work'.batch = Again(verdict).batch_size
        <4> HIDE DEF first, last
        <4> QED  BY <3>1, <3>2 DEF Fields
      <3>4. Video(work.source) => VideoBody(Again(verdict))
        BY <1>1, Halved DEF Passing, Known, Again, VideoBody
      <3>5. Known(work)'  BY <1>1, <3>3, <3>4 DEF Passing, Known, VideoBody, VideoPlaces
      <3> QED  BY <1>1, <3>1, <3>3, <3>5 DEF Kept, Passing, Checked, Rendered, Filed, Delivered
    <2>2. CASE ~(retryable(verdict) /\ work.try < MaxRetries)
      BY <1>3, <2>2 DEF Raise, Kept, Delivered
    <2> QED  BY <2>1, <2>2
  <1> QED  BY <1>2, <1>3

LEMMA FailsKeep ==
    ASSUME Inv, Kept, InProgress, NEW type, NEW says, Fails(type, says) \/ FailsByChance(type, says)
    PROVE  Kept'
  BY AgainPasses DEF Fails, FailsByChance

\* Steps of an attempt that has not ended.
LEMMA MovesKeep ==
    ASSUME Inv, InProgress, Passing(work'), ended' = ended
    PROVE  Kept'
  BY DEF Inv, InProgress, Kept, NoJob, Delivered

LEMMA Under == Inv /\ Kept /\ InProgress => Sound(work) /\ DOMAIN work = Fields /\ Passing(work)
  BY DEF Inv, Kept, InProgress, NoJob, Sound

LEMMA OpensKeeps ==
    ASSUME Inv, Kept, Opens \/ OpenFails
    PROVE  Kept'
  <1>1. InProgress  BY AtWork DEF Opens, OpenFails
  <1>2. CASE \E t, says : Fails(t, says) \/ FailsByChance(t, says)  BY <1>1, <1>2, FailsKeep
  <1>3. CASE /\ work' = [work EXCEPT !.pc = IF Video(work.source) THEN "probe" ELSE "image",
                                     !.on = On(work.params)]
             /\ ended' = ended
    <2>1. /\ work'.pc = IF Video(work.source) THEN "probe" ELSE "image"
          /\ work'.params = work.params /\ work'.source = work.source /\ work'.batch = work.batch
      BY <1>1, <1>3, Under DEF Fields
    <2>2. Passing(work')
      BY <1>1, <2>1, Under DEF Passing, Known, Checked, Rendered, Filed, VideoPlaces
    <2> QED  BY <1>1, <1>3, <2>2, MovesKeep
  <1> QED  BY <1>2, <1>3 DEF Opens, OpenFails, outside

LEMMA ProceedsIs ==
    ASSUME Inv, Kept, InProgress, NEW pc, Proceeds(pc)
    PROVE  /\ work'.pc = pc /\ ended' = ended
           /\ work'.params = work.params /\ work'.source = work.source /\ work'.batch = work.batch
           /\ work'.done = work.done /\ work'.paths = work.paths /\ work'.file = work.file
  BY Under DEF Proceeds, Go, outside, Fields

LEMMA VideoAt ==
    ASSUME Inv, Kept, NEW pc \in VideoPlaces, At(pc)
    PROVE  InProgress /\ Video(work.source) /\ VideoBody(work.params) /\ work.batch \in Nat \ {0}
  <1>1. InProgress  BY AtWork DEF VideoPlaces
  <1> QED  BY <1>1, Under DEF Passing, Known, At

LEMMA ProbeKeeps ==
    ASSUME Inv, Kept, Probe
    PROVE  Kept'
  <1>1. At("probe")  BY DEF Probe
  <1>2. /\ InProgress /\ Request.mode = work.params.mode
        /\ Video(work.source) /\ VideoBody(work.params) /\ work.batch \in Nat \ {0}
    BY <1>1, VideoAt, RequestIs DEF VideoPlaces
  <1>3. CASE \E t, says : Fails(t, says)  BY <1>2, <1>3, FailsKeep
  <1>4. CASE Proceeds(IF Request.mode = "transparent" THEN "alpha" ELSE "limit")
    <2>1. /\ work'.pc = IF Request.mode = "transparent" THEN "alpha" ELSE "limit"
          /\ work'.params = work.params /\ work'.source = work.source /\ work'.batch = work.batch
          /\ ended' = ended
      BY <1>2, <1>4, ProceedsIs
    <2>2. Passing(work')
      BY <1>2, <2>1, Under DEF Passing, Known, Checked, Rendered, Filed, VideoPlaces
    <2> QED  BY <1>2, <2>1, <2>2, MovesKeep
  <1> QED  BY <1>3, <1>4 DEF Probe

LEMMA AlphaKeeps ==
    ASSUME Inv, Kept, Remembers, CheckAlpha
    PROVE  Kept'
  <1>1. At("alpha")  BY DEF CheckAlpha
  <1>2. /\ InProgress /\ Request.container = Container(work.params)
        /\ Video(work.source) /\ VideoBody(work.params) /\ work.batch \in Nat \ {0}
    BY <1>1, VideoAt, RequestIs DEF VideoPlaces
  <1>3. CASE \E t, says : Fails(t, says)  BY <1>2, <1>3, FailsKeep
  <1>4. CASE \E c : ProbeAlpha(c)
    <2>1. work' = work /\ ended' = ended /\ stored' = stored  BY <1>4 DEF ProbeAlpha, outside
    <2> QED  BY <2>1 DEF Kept
  <1>5. CASE /\ container_supports_alpha(Request.container)
             /\ AlphaWorks(Request.container) /\ Proceeds("limit")
    <2>1. Request.container \in Range(ALPHA_CONTAINERS)
      BY <1>2, <1>5
      DEF container_supports_alpha, Container, DefaultContainer, VideoBody, ALPHA_CONTAINERS, Range
    <2>2. RoundTrips(Container(work.params))  BY <1>2, <1>5, <2>1 DEF AlphaWorks, Remembers
    <2>3. /\ work'.pc = "limit"
          /\ work'.params = work.params /\ work'.source = work.source /\ work'.batch = work.batch
          /\ ended' = ended
      BY <1>2, <1>5, ProceedsIs
    <2>4. Passing(work')
      BY <1>2, <2>2, <2>3, Under
      DEF Passing, Known, Checked, Rendered, Filed, VideoPlaces, RoundTrips
    <2> QED  BY <1>2, <2>3, <2>4, MovesKeep
  <1> QED  BY <1>3, <1>4, <1>5 DEF CheckAlpha

LEMMA DecodedIsCount ==
    ASSUME NEW w, Known(w), Video(w.source)
    PROVE  Decoded(w.params, w.source) \in Nat
  BY RequestAssumption DEF Known, Video, VideoBody, Decoded

LEMMA LimitKeeps ==
    ASSUME Inv, Kept, CheckLimit
    PROVE  Kept'
  <1>1. At("limit")  BY DEF CheckLimit
  <1>2. /\ InProgress /\ Requested(Request, work.source) = Requested(work.params, work.source)
        /\ Video(work.source) /\ VideoBody(work.params) /\ work.batch \in Nat \ {0}
    BY <1>1, VideoAt, SameRequest DEF VideoPlaces
  <1>3. CASE \E t, says : Fails(t, says)  BY <1>2, <1>3, FailsKeep
  <1>4. CASE /\ ~(FrameLimit > 0 /\ Requested(Request, work.source) > FrameLimit)
             /\ work' = [work EXCEPT !.pc = "render", !.done = 0, !.paths = <<>>]
             /\ ended' = ended
    <2>1. /\ work'.pc = "render" /\ work'.done = 0 /\ work'.paths = <<>>
          /\ work'.params = work.params /\ work'.source = work.source /\ work'.batch = work.batch
      BY <1>2, <1>4, Under DEF Fields
    <2>2. Known(work')  BY <1>2, <2>1, Under DEF Passing, Known
    <2>3. Rendered(work')
      BY <1>2, <2>1, <2>2, DecodedIsCount DEF Rendered
    <2>4. Checked(work')
      <3>1. Requested(work.params, work.source) \in Nat
        BY <1>2, Under, RequestAssumption
        DEF Requested, VideoBody, FrameCount, Passing, Known, Video
      <3>2. FrameLimit > 0 => Requested(work.params, work.source) <= FrameLimit
        BY <1>2, <1>4, <3>1
      <3>3. work.params.mode = "transparent" =>
              Container(work.params) \in Carries /\ encoder_args(Container(work.params), TRUE).plane
        BY <1>1, <1>2, Under DEF Passing, Checked, At
      <3> QED  BY <2>1, <3>2, <3>3 DEF Checked
    <2>5. Filed(work')  BY <2>1 DEF Filed
    <2> QED  BY <1>2, <1>4, <2>2, <2>3, <2>4, <2>5, MovesKeep DEF Passing
  <1> QED  BY <1>3, <1>4 DEF CheckLimit, outside

LEMMA Extended ==
    ASSUME NEW n \in Nat, NEW m \in Nat
    PROVE  [k \in 1 .. n |-> k - 1] \o [k \in 1 .. m |-> n + k - 1] = [k \in 1 .. n + m |-> k - 1]
  <1> DEFINE s == [k \in 1 .. n |-> k - 1]
             t == [k \in 1 .. m |-> n + k - 1]
  <1>1. s \in Seq(Int) /\ Len(s) = n /\ t \in Seq(Int) /\ Len(t) = m  OBVIOUS
  <1>2. /\ s \o t \in Seq(Int) /\ Len(s \o t) = n + m
        /\ \A i \in 1 .. n + m : (s \o t)[i] = IF i <= n THEN s[i] ELSE t[i - n]
    <2> HIDE DEF s, t
    <2> QED  BY <1>1, ConcatProperties
  <1>3. \A i \in 1 .. n + m : (IF i <= n THEN s[i] ELSE t[i - n]) = i - 1  OBVIOUS
  <1>4. DOMAIN (s \o t) = 1 .. n + m  BY <1>2
  <1>5. s \o t = [i \in 1 .. n + m |-> (s \o t)[i]]
    <2> DEFINE u == s \o t
    <2>1. u \in Seq(Int) /\ DOMAIN u = 1 .. n + m  BY <1>2, <1>4
    <2> HIDE DEF s, t, u
    <2>2. u = [i \in DOMAIN u |-> u[i]]  BY <2>1
    <2> QED  BY <2>1, <2>2 DEF u
  <1> QED  BY <1>2, <1>3, <1>5

LEMMA RenderKeeps ==
    ASSUME Inv, Kept, Render
    PROVE  Kept'
  <1>1. At("render")  BY DEF Render
  <1>2. /\ InProgress /\ Decoded(Request, work.source) = Decoded(work.params, work.source)
        /\ Request.batch_size = work.batch
        /\ Video(work.source) /\ VideoBody(work.params) /\ work.batch \in Nat \ {0}
    BY <1>1, VideoAt, SameRequest, RequestIs DEF VideoPlaces
  <1> DEFINE left == Decoded(work.params, work.source) - work.done
             batch == IF left < work.batch THEN left ELSE work.batch
  <1>3. CASE \E t, says : Fails(t, says)  BY <1>2, <1>3, FailsKeep
  <1>4. CASE left > 0 /\ work' = ExtendPass(work, batch) /\ ended' = ended
    <2>1. /\ work'.pc = "render" /\ work'.done = work.done + batch
          /\ work'.paths = work.paths \o [k \in 1 .. batch |-> work.done + k - 1]
          /\ work'.params = work.params /\ work'.source = work.source /\ work'.batch = work.batch
      <3> HIDE DEF batch
      <3> QED  BY <1>1, <1>2, <1>4, Under DEF ExtendPass, Fields, At
    <2>2. /\ work.done \in 0 .. Decoded(work.params, work.source)
          /\ work.paths = [k \in 1 .. work.done |-> k - 1]
          /\ Decoded(work.params, work.source) \in Nat
      BY <1>1, <1>2, Under, DecodedIsCount DEF Passing, Rendered, At
    <2>3. batch \in Nat /\ work'.done \in 0 .. Decoded(work.params, work.source)
      BY <1>2, <1>4, <2>1, <2>2
    <2>4. work'.paths = [k \in 1 .. work'.done |-> k - 1]
      <3> HIDE DEF batch
      <3>1. work.done \in Nat  BY <2>2
      <3>2. [k \in 1 .. work.done |-> k - 1] \o [k \in 1 .. batch |-> work.done + k - 1]
              = [k \in 1 .. work.done + batch |-> k - 1]
        BY <2>3, <3>1, Extended, Zenon
      <3> QED  BY <2>1, <2>2, <3>2, Zenon
    <2>5. Passing(work')
      BY <1>1, <1>2, <2>1, <2>3, <2>4, Under DEF Passing, Known, Checked, Rendered, Filed, At
    <2> QED  BY <1>2, <1>4, <2>5, MovesKeep
  <1> QED  BY <1>2, <1>3, <1>4 DEF Render, outside

LEMMA StreamKeeps ==
    ASSUME Inv, Kept, DecoderEnds
    PROVE  Kept'
  <1>1. At("render") /\ work.done = Decoded(Request, work.source)  BY DEF DecoderEnds
  <1>2. /\ InProgress /\ Decoded(Request, work.source) = Decoded(work.params, work.source)
        /\ Request.mode = work.params.mode
        /\ Video(work.source) /\ VideoBody(work.params) /\ work.batch \in Nat \ {0}
    BY <1>1, VideoAt, SameRequest, RequestIs DEF VideoPlaces
  <1>3. CASE \E t, says : Fails(t, says)  BY <1>2, <1>3, FailsKeep
  <1>4. CASE Proceeds(IF Request.mode = "frames" THEN "archive" ELSE "close")
    <2>1. /\ work'.pc = IF Request.mode = "frames" THEN "archive" ELSE "close"
          /\ work'.params = work.params /\ work'.source = work.source /\ work'.batch = work.batch
          /\ work'.done = work.done /\ work'.paths = work.paths
          /\ ended' = ended
      BY <1>2, <1>4, ProceedsIs
    <2>2. Passing(work')
      BY <1>1, <1>2, <2>1, Under DEF Passing, Known, Checked, Rendered, Filed, VideoPlaces, At
    <2> QED  BY <1>2, <2>1, <2>2, MovesKeep
  <1> QED  BY <1>3, <1>4 DEF DecoderEnds

\* What was made of the frames, and the directory they are in.
LEMMA FileKeeps ==
    ASSUME Inv, Kept, EncoderEnds \/ Archive
    PROVE  Kept'
  <1>1. At("close") \/ At("archive")  BY DEF EncoderEnds, Archive
  <1>2. /\ InProgress /\ Request.mode = work.params.mode
        /\ Request.container = Container(work.params)
        /\ Video(work.source) /\ VideoBody(work.params) /\ work.batch \in Nat \ {0}
    BY <1>1, VideoAt, RequestIs DEF VideoPlaces
  <1>3. CASE \E t, says : Fails(t, says) \/ FailsByChance(t, says)  BY <1>2, <1>3, FailsKeep
  <1>4. ASSUME NEW file, work' = [work EXCEPT !.pc = "deliver", !.file = file], ended' = ended,
               file.format # "directory" =>
                 /\ file.frames = work.paths
                 /\ work.params.mode \in {"transparent", "frames"} => file.alpha
        PROVE  Kept'
    <2>1. /\ work'.pc = "deliver" /\ work'.file = file
          /\ work'.params = work.params /\ work'.source = work.source /\ work'.batch = work.batch
          /\ work'.done = work.done /\ work'.paths = work.paths
      BY <1>2, <1>4, Under DEF Fields
    <2>2. Passing(work')
      BY <1>1, <1>2, <1>4, <2>1, Under
      DEF Passing, Known, Checked, Rendered, Filed, VideoPlaces, At
    <2> QED  BY <1>2, <1>4, <2>2, MovesKeep
  <1>5. CASE EncoderEnds
    <2> DEFINE ext == container_extension(Request.container)
               args == encoder_args(Request.container, Alpha(Request))
               alpha == Alpha(Request) /\ args.plane /\ Request.container \in Carries
               file == File(ext, alpha, work.paths)
    <2>1. \/ \E t, says : Fails(t, says) \/ FailsByChance(t, says)
          \/ work' = [work EXCEPT !.pc = "deliver", !.file = file] /\ ended' = ended
      BY <1>5 DEF EncoderEnds, outside
    <2>2. /\ file.frames = work.paths
          /\ work.params.mode \in {"transparent", "frames"} => file.alpha
      <3>1. At("close")  BY <1>5 DEF EncoderEnds
      <3>2. work.params.mode \in {"transparent", "frames"} => alpha
        BY <1>2, <3>1, Under DEF Passing, Checked, Filed, At, Alpha
      <3> HIDE DEF alpha
      <3> QED  BY <3>2 DEF File
    <2> QED  BY <1>3, <1>4, <2>1, <2>2
  <1>6. CASE Archive
    <2> DEFINE file == IF work.paths = <<>> THEN File("directory", FALSE, <<>>)
                       ELSE File("zip", TRUE, work.paths)
    <2>1. work' = [work EXCEPT !.pc = "deliver", !.file = file] /\ ended' = ended
      BY <1>6 DEF Archive, outside
    <2>2. file.format # "directory" => file.frames = work.paths /\ file.alpha  BY DEF File
    <2> QED  BY <1>4, <2>1, <2>2
  <1> QED  BY <1>5, <1>6

LEMMA DeliveryKeeps ==
    ASSUME Inv, Kept, DeliverVideo \/ DeliveryFails
    PROVE  Kept'
  <1>1. InProgress  BY AtWork DEF DeliverVideo, DeliveryFails
  <1>2. CASE DeliveryFails  BY <1>1, <1>2, FailsKeep DEF DeliveryFails
  <1>3. CASE DeliverVideo
    <2> DEFINE name == <<"output", work.file.format>>
               object == Object(work.file, work.file.format)
    <2>1. At("deliver") /\ work.file.format # "directory"  BY <1>3 DEF DeliverVideo
    <2>2. /\ Request.mode = work.params.mode
          /\ Video(work.source) /\ VideoBody(work.params)
      BY <2>1, VideoAt, RequestIs DEF VideoPlaces
    <2>3. /\ ended' = [status |-> "succeeded", params |-> work.params, source |-> work.source,
                       outputs |-> {name}, frames |-> work.done,
                       has_alpha |-> Request.mode \in {"transparent", "frames"}]
          /\ work' = NoJob /\ stored'[name] = object
      BY <1>3 DEF DeliverVideo, Succeeds, Stores
    <2>4. /\ object.frames = work.file.frames /\ object.alpha = work.file.alpha
      BY DEF Object
    <2>5. /\ ended'.outputs = {name} /\ ended'.params = work.params /\ ended'.source = work.source
          /\ ended'.frames = work.done
          /\ ended'.has_alpha = (work.params.mode \in {"transparent", "frames"})
      <3> HIDE DEF name, object
      <3> QED  BY <2>2, <2>3
    <2>6. /\ work.done = Decoded(work.params, work.source)
          /\ FrameLimit > 0 => Requested(work.params, work.source) <= FrameLimit
          /\ work.source \in Sources
          /\ work.file.frames = [k \in 1 .. work.done |-> k - 1]
          /\ work.params.mode \in {"transparent", "frames"} => work.file.alpha
      BY <1>1, <2>1, Under DEF Passing, Known, Checked, Rendered, Filed, At
    <2>7. Delivered(ended', stored')
      <3> HIDE DEF name, object
      <3> QED  BY <2>2, <2>3, <2>4, <2>5, <2>6 DEF Delivered
    <2> QED  BY <2>2, <2>3, <2>5, <2>7 DEF Kept
  <1> QED  BY <1>2, <1>3

LEMMA ImageAt ==
    ASSUME Inv, Kept, At("image") \/ At("put")
    PROVE  InProgress /\ ~Video(work.source)
  <1>1. InProgress  BY AtWork
  <1> QED  BY <1>1, Under DEF Passing, Known, At

LEMMA ImageKeeps ==
    ASSUME Inv, Kept, ProcessImage \/ (\E k \in DOMAIN OUTPUT_EXTENSIONS : PutOutput(k)) \/ DeliverImage
    PROVE  Kept'
  <1>1. InProgress /\ ~Video(work.source)
    BY ImageAt DEF ProcessImage, PutOutput, DeliverImage
  <1>2. CASE \E t, says : Fails(t, says)  BY <1>1, <1>2, FailsKeep
  <1>3. ASSUME NEW left, \/ work' = [work EXCEPT !.left = left]
                         \/ work' = [work EXCEPT !.pc = "put", !.left = left],
               ended' = ended, At("image") \/ At("put")
        PROVE  Kept'
    <2>1. /\ work'.pc \in {"image", "put"}
          /\ work'.params = work.params /\ work'.source = work.source /\ work'.batch = work.batch
      BY <1>1, <1>3, Under DEF Fields, At
    <2>2. Passing(work')
      BY <1>1, <2>1, Under DEF Passing, Known, Checked, Rendered, Filed, VideoPlaces
    <2> QED  BY <1>1, <1>3, <2>2, MovesKeep
  <1>4. CASE ProcessImage  BY <1>2, <1>3, <1>4 DEF ProcessImage, outside
  <1>5. CASE \E k \in DOMAIN OUTPUT_EXTENSIONS : PutOutput(k)  BY <1>3, <1>5 DEF PutOutput
  <1>6. CASE DeliverImage
    <2>1. /\ work' = NoJob /\ ended'.source = work.source /\ ended'.has_alpha = FALSE
      BY <1>6 DEF DeliverImage, Succeeds
    <2> QED  BY <1>1, <2>1 DEF Kept, Delivered
  <1> QED  BY <1>4, <1>5, <1>6

LEMMA BeginKeeps ==
    ASSUME NEW p \in Requests, NEW s \in Sources, Begins(p, s)
    PROVE  Kept'
  <1>1. work' = Attempt(p, s) /\ p.kind = s.kind /\ ended' = None  BY DEF Begins
  <1>2. Video(s) => VideoBody(p)  BY <1>1, RequestAssumption DEF Video
  <1>3. /\ work'.pc = "open" /\ work'.source = s /\ work'.params = p
        /\ Video(s) => work'.batch = p.batch_size
    BY <1>1 DEF Attempt
  <1>4. Passing(work')
    BY <1>2, <1>3 DEF Passing, Known, Checked, Rendered, Filed, VideoBody, VideoPlaces
  <1> QED  BY <1>1, <1>4 DEF Kept, Delivered

LEMMA KeptIsInductive == Inv /\ Remembers /\ Kept /\ [Next]_vars => Kept'
<1> SUFFICES ASSUME Inv, Remembers, Kept, [Next]_vars PROVE Kept'
  OBVIOUS
<1>1. CASE Advance
  BY <1>1, OpensKeeps, ProbeKeeps, AlphaKeeps, LimitKeeps, RenderKeeps, StreamKeeps, FileKeeps,
     DeliveryKeeps, ImageKeeps
  DEF Advance, Step
<1>2. CASE WorkerDies
  BY <1>2 DEF WorkerDies, Kept, outside
<1>3. CASE \E p \in Requests, s \in Sources : Begins(p, s)
  BY <1>3, BeginKeeps
<1>4. CASE UNCHANGED vars
  BY <1>4 DEF vars, outside, Kept
<1> QED  BY <1>1, <1>2, <1>3, <1>4 DEF Next

LEMMA KeptHolds == Spec => []Kept
<1>1. Init => Kept  BY DEF Init, Kept, Delivered
<1> QED  BY <1>1, Invariant, RemembersHolds, KeptIsInductive, PTL DEF Spec

\* A job that says its output has alpha has stored one with alpha, for every ffmpeg
\* build and whatever its probes remembered.
THEOREM AlphaIsStored == Spec => []AlphaIsReal
<1>1. Kept => AlphaIsReal  BY DEF Kept, Delivered, AlphaIsReal, Succeeded
<1> QED  BY <1>1, KeptHolds, PTL

LEMMA DecodedWithin ==
    ASSUME NEW p, NEW s \in Sources, Video(s), VideoBody(p),
           FrameLimit > 0 => Requested(p, s) <= FrameLimit,
           ~(FrameCount(s) < s.frames)
    PROVE  FrameLimit > 0 => Decoded(p, s) <= FrameLimit
  BY RequestAssumption DEF Decoded, Requested, FrameCount, VideoBody, Video

\* No pass renders more frames than the limit, unless the container told fewer than
\* it has.
THEOREM LimitsFrames == Spec => []WithinFrameLimit
<1>1. Kept => WithinFrameLimit
  BY DecodedWithin DEF Kept, Delivered, WithinFrameLimit, Succeeded
<1> QED  BY <1>1, KeptHolds, PTL

\* However many passes ran out of memory before it, the one delivered has each frame
\* once and in order, and the job reports as many.
THEOREM DeliversThePass == Spec => []DeliversOnePass
<1>1. Kept => DeliversOnePass
  <2> SUFFICES ASSUME Kept, Succeeded, Video(ended.source), NEW n \in ended.outputs
               PROVE  /\ stored[n].frames = [k \in 1 .. Decoded(ended.params, ended.source) |-> k - 1]
                      /\ ended.frames = Len(stored[n].frames)
    BY DEF DeliversOnePass
  <2>1. /\ ended.source \in Sources /\ VideoBody(ended.params)
        /\ ended.frames = Decoded(ended.params, ended.source)
        /\ stored[n].frames = [k \in 1 .. Decoded(ended.params, ended.source) |-> k - 1]
    BY DEF Kept, Delivered, Succeeded
  <2>2. Decoded(ended.params, ended.source) \in Nat
    BY <2>1, RequestAssumption DEF Decoded, VideoBody, Video
  <2> QED  BY <2>1, <2>2
<1> QED  BY <1>1, KeptHolds, PTL

-----------------------------------------------------------------------------
(* What is stored *)

Counted == jobs \in 0 .. MaxJobs /\ mishaps \in 0 .. MaxMishaps /\ work.pc \in Places

Typed == \A name \in DOMAIN stored : stored[name].type \in Range(CONTENT_TYPES)

\* An output that is stored is there under its own name.
HasOutput(objects, kind) ==
    /\ kind \in DOMAIN OUTPUT_EXTENSIONS /\ Name(kind) \in DOMAIN objects
    /\ objects[Name(kind)] = Object(Encoded(kind), OutputExtension(kind))

Formats(mode) == IF mode = "frames" THEN {"directory", "zip"} ELSE {"mp4", "webm", "mov"}

\* The outputs of an image that are no longer to be stored are stored, and the file a
\* video is delivered as is one its mode can have.
Storing(w, objects) ==
    /\ ~Video(w.source) => w.batch = 1
    /\ w.pc = "put" => \A kind \in Range(w.params.outputs) \ w.left : HasOutput(objects, kind)
    /\ w.pc = "deliver" => w.file.format \in Formats(w.params.mode)

Served(e, objects) ==
    e # None /\ e.status = "succeeded" =>
        /\ ~Video(e.source) =>
             /\ \A kind \in Range(e.params.outputs) : HasOutput(objects, kind)
             /\ e.outputs = {Name(kind) : kind \in Range(e.params.outputs)}
        /\ Video(e.source) =>
             \E ext \in Formats(e.params.mode) :
                 e.outputs = {<<"output", ext>>} /\ objects[<<"output", ext>>].format = ext

Asked ==
    /\ Counted /\ Typed
    /\ work = NoJob \/ Storing(work, stored)
    /\ Served(ended, stored)

LEMMA AskedInit == Init => Asked
  BY DEF Init, Asked, Counted, Places, Typed, NoJob, Served

\* What the actions may do to the counters, the store and the place of an attempt.
LEMMA CountersKept ==
    ASSUME Counted, jobs' = jobs, NoMishap \/ Mishap, work'.pc \in Places
    PROVE  Counted'
  <1>1. mishaps' \in 0 .. MaxMishaps  BY DEF Counted, NoMishap, Mishap
  <1> QED  BY <1>1 DEF Counted

LEMMA StoringAt ==
    ASSUME Inv, Asked, InProgress
    PROVE  Storing(work, stored) /\ ended = None /\ Counted /\ Typed /\ DOMAIN work = Fields
  BY DEF Inv, Asked, InProgress, NoJob, Sound

LEMMA RaiseStores ==
    ASSUME Inv, Asked, InProgress, NEW exc, Raise(exc), jobs' = jobs, NoMishap \/ Mishap
    PROVE  Asked'
  <1> DEFINE verdict == classify(exc)
             last == [exc |-> exc, verdict |-> verdict]
             inLoop == Video(work.source) /\ ~At("open")
             first == Attempt(Again(verdict), work.source)
  <1>1. Storing(work, stored) /\ ended = None /\ Counted /\ Typed /\ DOMAIN work = Fields
    BY StoringAt
  <1>2. CASE is_oom(verdict) /\ inLoop /\ CanShrink(work)
    <2>1. /\ work' = [work EXCEPT !.pc = "probe", !.batch = _halve(@), !.last = last]
          /\ UNCHANGED <<stored, ended>>
      BY <1>2 DEF Raise, outside
    <2>2. work'.pc = "probe" /\ work'.source = work.source /\ Video(work.source)
      BY <1>1, <1>2, <2>1 DEF Fields
    <2>3. Counted'  BY <1>1, <2>2, CountersKept DEF Places
    <2>4. Storing(work', stored')  BY <2>2 DEF Storing, Video
    <2> QED  BY <1>1, <2>1, <2>3, <2>4 DEF Asked, Typed, Served
  <1>3. CASE ~(is_oom(verdict) /\ inLoop /\ CanShrink(work))
    <2>1. CASE retryable(verdict) /\ work.try < MaxRetries
      <3>1. work' = [first EXCEPT !.try = work.try + 1, !.last = last] /\ UNCHANGED <<stored, ended>>
        BY <1>3, <2>1 DEF Raise, outside
      <3>2. /\ DOMAIN first = Fields /\ first.pc = "open" /\ first.source = work.source
            /\ ~Video(work.source) => first.batch = 1
        BY DEF Attempt, Fields
      <3>3. /\ work'.pc = "open" /\ work'.source = work.source
            /\ ~Video(work.source) => work'.batch = 1
        <4> HIDE DEF first, last
        <4> QED  BY <3>1, <3>2 DEF Fields
      <3>4. Counted'  BY <1>1, <3>3, CountersKept DEF Places
      <3>5. Storing(work', stored')  BY <3>3 DEF Storing
      <3> QED  BY <1>1, <3>1, <3>4, <3>5 DEF Asked, Typed, Served
    <2>2. CASE ~(retryable(verdict) /\ work.try < MaxRetries)
      <3>1. work' = NoJob /\ ended'.status = "failed" /\ stored' = stored
        BY <1>3, <2>2 DEF Raise
      <3>2. Counted'  BY <1>1, <3>1, CountersKept DEF Places, NoJob
      <3> QED  BY <1>1, <3>1, <3>2 DEF Asked, Typed, Served
    <2> QED  BY <2>1, <2>2
  <1> QED  BY <1>2, <1>3

LEMMA FailsStores ==
    ASSUME Inv, Asked, InProgress, NEW type, NEW says, Fails(type, says) \/ FailsByChance(type, says)
    PROVE  Asked'
  BY RaiseStores DEF Fails, FailsByChance

\* A step that goes on to another place and stores nothing.
LEMMA MoveStores ==
    ASSUME Inv, Asked, InProgress, UNCHANGED <<jobs, mishaps, stored, ended>>,
           work'.pc \in Places \ {"put", "deliver"},
           work'.source = work.source, work'.batch = work.batch
    PROVE  Asked'
  <1>1. Storing(work, stored) /\ ended = None /\ Counted /\ Typed  BY StoringAt
  <1>2. Counted'  BY <1>1, CountersKept DEF NoMishap
  <1>3. Storing(work', stored')  BY <1>1 DEF Storing
  <1> QED  BY <1>1, <1>2, <1>3 DEF Asked, Typed, Served

LEMMA ProceedsStores ==
    ASSUME Inv, Kept, Asked, InProgress, NEW pc \in Places \ {"put", "deliver"}, Proceeds(pc)
    PROVE  Asked'
  <1>1. work'.pc = pc /\ work'.source = work.source /\ work'.batch = work.batch
    BY ProceedsIs
  <1> QED  BY <1>1, MoveStores DEF Proceeds, NoMishap, outside

LEMMA ChecksStore ==
    ASSUME Inv, Kept, Asked,
           Opens \/ OpenFails \/ Probe \/ CheckAlpha \/ CheckLimit \/ Render \/ DecoderEnds
    PROVE  Asked'
  <1>1. InProgress
    BY AtWork DEF Opens, OpenFails, Probe, CheckAlpha, CheckLimit, Render, DecoderEnds
  <1>2. CASE \E t, says : Fails(t, says) \/ FailsByChance(t, says)  BY <1>1, <1>2, FailsStores
  <1>3. CASE \E pc \in Places \ {"put", "deliver"} : Proceeds(pc)  BY <1>1, <1>3, ProceedsStores
  <1>4. DOMAIN work = Fields  BY <1>1, StoringAt
  <1>5. CASE Opens
    <2>1. CASE /\ work' = [work EXCEPT !.pc = IF Video(work.source) THEN "probe" ELSE "image",
                                       !.on = On(work.params)]
               /\ NoMishap /\ UNCHANGED <<verdicts, unrun, outside, jobs>>
      <3>1. work'.pc \in {"probe", "image"} /\ work'.source = work.source /\ work'.batch = work.batch
        BY <1>4, <2>1 DEF Fields
      <3> QED  BY <1>1, <2>1, <3>1, MoveStores DEF Places, NoMishap, outside
    <2> QED  BY <1>2, <1>5, <2>1 DEF Opens
  <1>6. CASE OpenFails  BY <1>2, <1>6 DEF OpenFails
  <1>7. CASE Probe  BY <1>2, <1>3, <1>7 DEF Probe, Places
  <1>8. CASE CheckAlpha
    <2>1. CASE \E c : ProbeAlpha(c)
      <3>1. work' = work /\ UNCHANGED <<stored, ended, jobs>> /\ (NoMishap \/ Mishap)
        BY <2>1 DEF ProbeAlpha, outside
      <3>2. Counted'  BY <1>1, <3>1, StoringAt, CountersKept DEF Counted
      <3> QED  BY <3>1, <3>2 DEF Asked, Typed
    <2> QED  BY <1>2, <1>3, <1>8, <2>1 DEF CheckAlpha, Places
  <1>9. CASE CheckLimit
    <2>1. CASE /\ work' = [work EXCEPT !.pc = "render", !.done = 0, !.paths = <<>>]
               /\ NoMishap /\ UNCHANGED <<verdicts, unrun, workdir, outside, jobs>>
      <3>1. work'.pc = "render" /\ work'.source = work.source /\ work'.batch = work.batch
        BY <1>4, <2>1 DEF Fields
      <3> QED  BY <1>1, <2>1, <3>1, MoveStores DEF Places, NoMishap, outside
    <2> QED  BY <1>2, <1>9, <2>1 DEF CheckLimit
  <1>10. CASE Render
    <2>1. CASE \E n : /\ work' = ExtendPass(work, n)
                      /\ NoMishap /\ UNCHANGED <<verdicts, unrun, workdir, outside, jobs>>
      <3>1. PICK n : work' = ExtendPass(work, n)  BY <2>1
      <3>2. work'.pc = "render" /\ work'.source = work.source /\ work'.batch = work.batch
        BY <1>4, <1>10, <3>1 DEF ExtendPass, Fields, Render, At
      <3> QED  BY <1>1, <2>1, <3>2, MoveStores DEF Places, NoMishap, outside
    <2> QED  BY <1>2, <1>10, <2>1 DEF Render
  <1>11. CASE DecoderEnds  BY <1>2, <1>3, <1>11 DEF DecoderEnds, Places
  <1> QED  BY <1>5, <1>6, <1>7, <1>8, <1>9, <1>10, <1>11

\* A body's container has a suffix ffmpeg takes for a muxer and the store has a type for.
LEMMA BodySuffix ==
    ASSUME VideoBody(work.params)
    PROVE  container_extension(Container(work.params)) \in {"mp4", "webm", "mov"}
  <1>1. Container(work.params) \in {"mp4", "webm", "mov", "qtrle"}
    <2>1. work.params.container \in {None, "mp4", "webm", "mov", "qtrle"}  BY DEF VideoBody
    <2>2. DefaultContainer(work.params.mode) \in {"mp4", "webm"}  BY DEF DefaultContainer
    <2> QED  BY <2>1, <2>2 DEF Container
  <1> QED  BY <1>1 DEF container_extension, CONTAINER_EXTENSIONS

LEMMA FilesStore ==
    ASSUME Inv, Kept, Asked, EncoderEnds \/ Archive
    PROVE  Asked'
  <1>1. At("close") \/ At("archive")  BY DEF EncoderEnds, Archive
  <1>2. /\ InProgress /\ Request.container = Container(work.params)
        /\ Video(work.source) /\ VideoBody(work.params)
    BY <1>1, VideoAt, RequestIs DEF VideoPlaces
  <1>3. CASE \E t, says : Fails(t, says) \/ FailsByChance(t, says)  BY <1>2, <1>3, FailsStores
  <1>4. ASSUME NEW file, work' = [work EXCEPT !.pc = "deliver", !.file = file],
               NoMishap, UNCHANGED <<stored, ended, jobs>>,
               file.format \in Formats(work.params.mode)
        PROVE  Asked'
    <2>1. /\ Storing(work, stored) /\ ended = None /\ Counted /\ Typed /\ DOMAIN work = Fields
      BY <1>2, StoringAt
    <2>2. /\ work'.pc = "deliver" /\ work'.file = file /\ work'.params = work.params
          /\ work'.source = work.source
      BY <1>4, <2>1 DEF Fields
    <2>3. Counted'  BY <1>4, <2>1, <2>2, CountersKept DEF Places
    <2>4. Storing(work', stored')  BY <1>2, <1>4, <2>2 DEF Storing
    <2> QED  BY <1>4, <2>1, <2>3, <2>4 DEF Asked, Typed, Served
  <1>5. CASE EncoderEnds
    <2> DEFINE ext == container_extension(Request.container)
               args == encoder_args(Request.container, Alpha(Request))
               alpha == Alpha(Request) /\ args.plane /\ Request.container \in Carries
               file == File(ext, alpha, work.paths)
    <2>1. \/ \E t, says : Fails(t, says) \/ FailsByChance(t, says)
          \/ /\ work' = [work EXCEPT !.pc = "deliver", !.file = file]
             /\ NoMishap /\ UNCHANGED <<stored, ended, jobs>>
      BY <1>5 DEF EncoderEnds, outside
    <2>2. work.params.mode # "frames"
      <3>1. At("close")  BY <1>5 DEF EncoderEnds
      <3> QED  BY <1>2, <3>1, Under DEF Passing, Filed, At
    <2>3. file.format \in Formats(work.params.mode)
      <3>1. container_extension(Container(work.params)) \in {"mp4", "webm", "mov"}
        BY <1>2, BodySuffix
      <3>a. ext \in {"mp4", "webm", "mov"}  BY <1>2, <3>1
      <3> HIDE DEF ext, alpha
      <3> QED  BY <2>2, <3>a DEF File, Formats
    <2> HIDE DEF file
    <2> QED  BY <1>3, <1>4, <2>1, <2>3
  <1>6. CASE Archive
    <2> DEFINE file == IF work.paths = <<>> THEN File("directory", FALSE, <<>>)
                       ELSE File("zip", TRUE, work.paths)
    <2>1. /\ work' = [work EXCEPT !.pc = "deliver", !.file = file]
          /\ NoMishap /\ UNCHANGED <<stored, ended, jobs>>
      BY <1>6 DEF Archive, outside
    <2>2. work.params.mode = "frames"
      <3>1. At("archive")  BY <1>6 DEF Archive
      <3> QED  BY <1>2, <3>1, Under DEF Passing, Filed, At
    <2>3. file.format \in Formats(work.params.mode)  BY <2>2 DEF File, Formats
    <2> HIDE DEF file
    <2> QED  BY <1>4, <2>1, <2>3
  <1> QED  BY <1>5, <1>6

\* Storing one object types what it stores and leaves the others.
LEMMA StoresOne ==
    ASSUME Typed, NEW name, NEW object, Stores(name, object), object.type \in Range(CONTENT_TYPES)
    PROVE  /\ Typed' /\ name \in DOMAIN stored' /\ stored'[name] = object
           /\ \A n \in DOMAIN stored : n \in DOMAIN stored' /\ (n # name => stored'[n] = stored[n])
  BY DEF Typed, Stores

LEMMA TypeOfObject ==
    ASSUME NEW file, NEW ext, ext \in DOMAIN CONTENT_TYPES
    PROVE  Object(file, ext).type \in Range(CONTENT_TYPES) /\ Object(file, ext).format = file.format
  <1>1. ContentType(ext) = CONTENT_TYPES[ext]  BY DEF ContentType
  <1>2. CONTENT_TYPES[ext] \in Range(CONTENT_TYPES)
    <2> HIDE DEF CONTENT_TYPES
    <2> QED  BY DEF Range
  <1> QED  BY <1>1, <1>2 DEF Object

LEMMA VideoStores ==
    ASSUME Inv, Kept, Asked, DeliverVideo \/ DeliveryFails
    PROVE  Asked'
  <1>1. InProgress  BY AtWork DEF DeliverVideo, DeliveryFails
  <1>2. CASE DeliveryFails  BY <1>1, <1>2, FailsStores DEF DeliveryFails
  <1>3. CASE DeliverVideo
    <2> DEFINE ext == work.file.format
               name == <<"output", ext>>
               object == Object(work.file, ext)
    <2>1. At("deliver") /\ ext # "directory"  BY <1>3 DEF DeliverVideo
    <2>2. /\ Storing(work, stored) /\ Counted /\ Typed /\ Video(work.source)
      BY <1>1, <2>1, StoringAt, VideoAt DEF VideoPlaces
    <2>3. ext \in Formats(work.params.mode)  BY <2>1, <2>2 DEF Storing, At
    <2>4. ext \in {"mp4", "webm", "mov", "zip"}  BY <2>1, <2>3 DEF Formats
    <2>5. ext \in DOMAIN CONTENT_TYPES  BY <2>4 DEF CONTENT_TYPES
    <2>6. object.type \in Range(CONTENT_TYPES) /\ object.format = ext  BY <2>5, TypeOfObject
    <2>7. /\ ended' = [status |-> "succeeded", params |-> work.params, source |-> work.source,
                       outputs |-> {name}, frames |-> work.done,
                       has_alpha |-> Request.mode \in {"transparent", "frames"}]
          /\ work' = NoJob /\ Stores(name, object) /\ NoMishap /\ jobs' = jobs
      BY <1>3 DEF DeliverVideo, Succeeds
    <2>8. ended'.source = work.source /\ ended'.params = work.params /\ ended'.outputs = {name}
      <3> HIDE DEF name
      <3> QED  BY <2>7
    <2>9. Typed' /\ stored'[name] = object
      <3> HIDE DEF name, object
      <3> QED  BY <2>2, <2>6, <2>7, StoresOne
    <2>10. Counted'  BY <2>2, <2>7, CountersKept DEF Places, NoJob
    <2>11. Served(ended', stored')
      <3> HIDE DEF object, ext
      <3> QED  BY <2>2, <2>3, <2>6, <2>8, <2>9 DEF Served, Video
    <2> QED  BY <2>7, <2>9, <2>10, <2>11 DEF Asked
  <1> QED  BY <1>2, <1>3

LEMMA KindsAreNamed ==
    ASSUME NEW a, NEW b, Name(a) = Name(b)
    PROVE  a = b
  BY DEF Name

LEMMA ImageStores ==
    ASSUME Inv, Kept, Asked, ProcessImage \/ (\E k \in DOMAIN OUTPUT_EXTENSIONS : PutOutput(k)) \/ DeliverImage
    PROVE  Asked'
  <1>1. InProgress /\ ~Video(work.source)
    BY ImageAt DEF ProcessImage, PutOutput, DeliverImage
  <1>2. Storing(work, stored) /\ ended = None /\ Counted /\ Typed /\ DOMAIN work = Fields
    BY <1>1, StoringAt
  <1>3. CASE \E t, says : Fails(t, says)  BY <1>1, <1>3, FailsStores
  <1>4. CASE ProcessImage
    <2>1. CASE /\ work' = [work EXCEPT !.pc = "put", !.left = Range(work.params.outputs)]
               /\ NoMishap /\ UNCHANGED <<verdicts, unrun, workdir, outside, jobs>>
      <3>1. /\ work'.pc = "put" /\ work'.left = Range(work.params.outputs)
            /\ work'.params = work.params /\ work'.source = work.source /\ work'.batch = work.batch
        BY <1>2, <2>1 DEF Fields
      <3>2. Counted'  BY <1>2, <2>1, <3>1, CountersKept DEF Places
      <3>3. Storing(work', stored')  BY <1>2, <3>1 DEF Storing
      <3> QED  BY <1>2, <2>1, <3>2, <3>3 DEF Asked, Typed, Served, outside
    <2> QED  BY <1>3, <1>4, <2>1 DEF ProcessImage
  <1>5. ASSUME NEW k \in DOMAIN OUTPUT_EXTENSIONS, PutOutput(k) PROVE Asked'
    <2> DEFINE object == Object(Encoded(k), OutputExtension(k))
    <2>1. /\ work.pc = "put" /\ k \in work.left /\ Stores(Name(k), object)
          /\ work' = [work EXCEPT !.left = work.left \ {k}]
          /\ NoMishap /\ ended' = ended /\ jobs' = jobs
      BY <1>5 DEF PutOutput, At
    <2>2. /\ work'.pc = "put" /\ work'.left = work.left \ {k} /\ work'.params = work.params
          /\ work'.source = work.source /\ work'.batch = work.batch
      BY <1>2, <2>1 DEF Fields
    <2>3. OutputExtension(k) \in {"png", "webp"}
      BY DEF OutputExtension, OUTPUT_EXTENSIONS
    <2>4. OutputExtension(k) \in DOMAIN CONTENT_TYPES  BY <2>3 DEF CONTENT_TYPES
    <2>5. object.type \in Range(CONTENT_TYPES)  BY <2>4, TypeOfObject
    <2> HIDE DEF object
    <2>6. /\ Typed' /\ Name(k) \in DOMAIN stored' /\ stored'[Name(k)] = object
          /\ \A n \in DOMAIN stored : n \in DOMAIN stored' /\ (n # Name(k) => stored'[n] = stored[n])
      BY <1>2, <2>1, <2>5, StoresOne
    <2>7. Counted'  BY <1>2, <2>1, <2>2, CountersKept DEF Places
    <2>8. ASSUME NEW kind \in Range(work.params.outputs) \ (work.left \ {k})
          PROVE  HasOutput(stored', kind)
      <3>1. CASE kind = k  BY <3>1, <2>6 DEF HasOutput, object
      <3>2. CASE kind # k
        <4>1. HasOutput(stored, kind)  BY <1>2, <2>1, <2>8, <3>2 DEF Storing
        <4>2. Name(kind) # Name(k)  BY <3>2, KindsAreNamed
        <4> QED  BY <4>1, <4>2, <2>6 DEF HasOutput
      <3> QED  BY <3>1, <3>2
    <2>9. Storing(work', stored')  BY <1>1, <1>2, <2>2, <2>8 DEF Storing
    <2> QED  BY <1>2, <2>1, <2>6, <2>7, <2>9 DEF Asked, Served
  <1>6. CASE DeliverImage
    <2> DEFINE names == {Name(k) : k \in Range(work.params.outputs)}
    <2>1. /\ work.pc = "put" /\ work.left = {} /\ work' = NoJob /\ stored' = stored
          /\ NoMishap /\ jobs' = jobs
          /\ ended' = [status |-> "succeeded", params |-> work.params, source |-> work.source,
                       outputs |-> names, frames |-> 1, has_alpha |-> FALSE]
      BY <1>6 DEF DeliverImage, Succeeds, At
    <2>2. ended'.source = work.source /\ ended'.params = work.params /\ ended'.outputs = names
      <3> HIDE DEF names
      <3> QED  BY <2>1
    <2>3. \A kind \in Range(work.params.outputs) : HasOutput(stored, kind)
      BY <1>2, <2>1 DEF Storing
    <2>4. Served(ended', stored')  BY <1>1, <2>1, <2>2, <2>3 DEF Served, Video
    <2>5. Counted'  BY <1>2, <2>1, CountersKept DEF Places, NoJob
    <2> QED  BY <1>2, <2>1, <2>4, <2>5 DEF Asked, Typed
  <1> QED  BY <1>4, <1>5, <1>6

LEMMA AskedIsInductive == Inv /\ Kept /\ Asked /\ [Next]_vars => Asked'
<1> SUFFICES ASSUME Inv, Kept, Asked, [Next]_vars PROVE Asked'
  OBVIOUS
<1>1. CASE Advance
  BY <1>1, ChecksStore, FilesStore, VideoStores, ImageStores DEF Advance, Step
<1>2. CASE WorkerDies
  <2>1. InProgress /\ Mishap /\ work' = NoJob /\ UNCHANGED <<stored, ended, jobs>>
    BY <1>2 DEF WorkerDies, outside
  <2>2. Counted'  BY <2>1, StoringAt, CountersKept DEF Places, NoJob
  <2> QED  BY <2>1, <2>2 DEF Asked, Typed
<1>3. ASSUME NEW p \in Requests, NEW s \in Sources, Begins(p, s) PROVE Asked'
  <2>1. /\ work' = Attempt(p, s) /\ jobs' = jobs + 1 /\ jobs < MaxJobs /\ mishaps' = mishaps
        /\ stored' = [n \in {} |-> None] /\ ended' = None
    BY <1>3 DEF Begins
  <2>2. work'.pc = "open" /\ work'.source = s /\ (~Video(s) => work'.batch = 1)
    BY <2>1 DEF Attempt
  <2>3. Counted'  BY <2>1, <2>2 DEF Asked, Counted, Places
  <2>4. Storing(work', stored')  BY <2>2 DEF Storing
  <2> QED  BY <2>1, <2>3, <2>4 DEF Asked, Typed, Served
<1>4. CASE UNCHANGED vars
  BY <1>4 DEF vars, outside, Asked, Counted, Typed
<1> QED  BY <1>1, <1>2, <1>3, <1>4 DEF Next

LEMMA AskedHolds == Spec => []Asked
BY AskedInit, Invariant, KeptHolds, AskedIsInductive, PTL DEF Spec

\* As many names as outputs: no two kinds share one.
LEMMA OneNameEach ==
    ASSUME NEW kinds \in SUBSET DOMAIN OUTPUT_EXTENSIONS
    PROVE  Cardinality({Name(k) : k \in kinds}) = Cardinality(kinds)
  <1> DEFINE names == {Name(k) : k \in kinds}
             f == [k \in kinds |-> Name(k)]
  <1>1. DOMAIN OUTPUT_EXTENSIONS =
          {"transparent_png", "transparent_webp", "mask_png", "color_composite",
           "background_composite", "blurred_background"}
    BY DEF OUTPUT_EXTENSIONS
  <1>2. IsFiniteSet(DOMAIN OUTPUT_EXTENSIONS)
    <2>1. IsFiniteSet({})  BY FS_EmptySet
    <2>2. IsFiniteSet({"transparent_png"})  BY FS_Singleton
    <2>3. IsFiniteSet({"transparent_png", "transparent_webp"})
      <3>1. {"transparent_png", "transparent_webp"} = {"transparent_png"} \cup {"transparent_webp"}  OBVIOUS
      <3> QED  BY <2>2, <3>1, FS_AddElement
    <2>4. IsFiniteSet({"transparent_png", "transparent_webp"} \cup {"mask_png"})  BY <2>3, FS_AddElement
    <2>5. IsFiniteSet(({"transparent_png", "transparent_webp"} \cup {"mask_png"})
                      \cup {"color_composite"})
      BY <2>4, FS_AddElement
    <2>6. IsFiniteSet((({"transparent_png", "transparent_webp"} \cup {"mask_png"})
                       \cup {"color_composite"}) \cup {"background_composite"})
      BY <2>5, FS_AddElement
    <2>7. IsFiniteSet(((({"transparent_png", "transparent_webp"} \cup {"mask_png"})
                        \cup {"color_composite"}) \cup {"background_composite"})
                      \cup {"blurred_background"})
      BY <2>6, FS_AddElement
    <2>8. DOMAIN OUTPUT_EXTENSIONS = ((({"transparent_png", "transparent_webp"} \cup {"mask_png"})
                                       \cup {"color_composite"}) \cup {"background_composite"})
                                     \cup {"blurred_background"}
      BY <1>1
    <2> QED  BY <2>7, <2>8
  <1>3. IsFiniteSet(kinds)  BY <1>2, FS_Subset
  <1>4. f \in [kinds -> names] /\ \A a, b \in kinds : f[a] = f[b] => a = b
    BY KindsAreNamed
  <1>5. f \in Injection(kinds, names)  BY <1>4, Fun_IsInj
  <1>6. \A n \in names : \E k \in kinds : f[k] = n  OBVIOUS
  <1>7. f \in Surjection(kinds, names)  BY <1>4, <1>6, Fun_IsSurj
  <1> HIDE DEF f, names
  <1>8. Cardinality(names) = Cardinality(kinds)  BY <1>3, <1>5, <1>7, FS_Surjection
  <1> QED  BY <1>8 DEF names

LEMMA ServedIsAsked ==
    ASSUME Served(ended, stored)
    PROVE  ServesWhatWasAsked
  <1> SUFFICES ASSUME Succeeded
               PROVE  /\ ~Video(ended.source) =>
                           \A kind \in Range(ended.params.outputs) : \E n \in ended.outputs :
                              n \in DOMAIN stored /\ stored[n] = Object(Encoded(kind), Encoded(kind).format)
                      /\ Cardinality(ended.outputs) =
                           IF Video(ended.source) THEN 1 ELSE Cardinality(Range(ended.params.outputs))
                      /\ Video(ended.source) /\ ended.params.mode # "frames" =>
                           \E n \in ended.outputs : stored[n].format \in muxers
    BY DEF ServesWhatWasAsked
  <1>1. CASE Video(ended.source)
    <2>1. PICK ext \in Formats(ended.params.mode) :
            ended.outputs = {<<"output", ext>>} /\ stored[<<"output", ext>>].format = ext
      BY <1>1 DEF Served, Succeeded
    <2> DEFINE name == <<"output", ext>>
    <2> HIDE DEF name
    <2>2. ended.outputs = {name} /\ stored[name].format = ext  BY <2>1 DEF name
    <2>3. Cardinality(ended.outputs) = 1  BY <2>2, FS_Singleton
    <2>4. ended.params.mode # "frames" => ext \in muxers  BY <2>1 DEF Formats, muxers
    <2> QED  BY <1>1, <2>2, <2>3, <2>4
  <1>2. CASE ~Video(ended.source)
    <2> DEFINE kinds == Range(ended.params.outputs)
    <2>1. /\ \A kind \in kinds : HasOutput(stored, kind)
          /\ ended.outputs = {Name(kind) : kind \in kinds}
      BY <1>2 DEF Served, Succeeded
    <2>2. kinds \in SUBSET DOMAIN OUTPUT_EXTENSIONS  BY <2>1 DEF HasOutput
    <2> HIDE DEF kinds
    <2>3. Cardinality(ended.outputs) = Cardinality(kinds)  BY <2>1, <2>2, OneNameEach
    <2>4. ASSUME NEW kind \in kinds
          PROVE  \E n \in ended.outputs :
                    n \in DOMAIN stored /\ stored[n] = Object(Encoded(kind), Encoded(kind).format)
      <3>1. Name(kind) \in ended.outputs /\ HasOutput(stored, kind)  BY <2>1
      <3>2. kind \in DOMAIN OUTPUT_EXTENSIONS  BY <2>2
      <3>3. OutputExtension(kind) = Encoded(kind).format
        BY <3>2 DEF OutputExtension, OUTPUT_EXTENSIONS, Encoded
      <3> QED  BY <3>1, <3>3 DEF HasOutput
    <2> QED  BY <1>2, <2>3, <2>4 DEF kinds
  <1> QED  BY <1>1, <1>2

\* Each output a job was asked for is stored, under a name of its own and a type that is
\* that of its bytes, a video is one file a muxer exists for, and the state keeps its
\* shape, for every request and whatever attempts failed before.
THEOREM StoresTheRequest == Spec => []StoresWhatWasAsked
<1>1. Inv /\ Remembers /\ Kept /\ Asked => StoresWhatWasAsked
  <2> SUFFICES ASSUME Inv, Remembers, Kept, Asked PROVE StoresWhatWasAsked  OBVIOUS
  <2>1. InProgress => work.try \in 0 .. MaxRetries /\ work.batch >= 1
    <3> SUFFICES ASSUME InProgress PROVE work.try \in 0 .. MaxRetries /\ work.batch >= 1  OBVIOUS
    <3>1. Sound(work) /\ Passing(work) /\ Storing(work, stored)  BY Under, StoringAt
    <3>2. work.batch \in Nat \ {0}  BY <3>1 DEF Passing, Known, Storing
    <3> QED  BY <3>1, <3>2 DEF Sound
  <2>2. TypeOK  BY <2>1 DEF TypeOK, Asked, Counted, Typed, Remembers
  <2>3. ServesWhatWasAsked  BY ServedIsAsked DEF Asked
  <2> QED  BY <2>2, <2>3 DEF StoresWhatWasAsked
<1> QED  BY <1>1, Invariant, RemembersHolds, KeptHolds, AskedHolds, PTL

-----------------------------------------------------------------------------
(* What is refused, and what is tried again *)

\* What an attempt that has come so far got right.
Passed(w) ==
    /\ w.pc # "open" => KnownDevice(Device(w.params))
    /\ w.pc \in VideoPlaces \ {"probe"} => w.source.readable /\ w.source.area
    /\ w.pc = "put" => ~w.source.large

Excused(w) ==
    Wrong(w.params, w.source) /\ w.try > 0 /\ ~ReadsAsOom(w.source) =>
        w.last.exc.type \in DOMAIN Infrastructure

\* The container cannot be promised: it drops alpha, or was never measured.
Unproven(container) == container \notin Carries \/ container \in unrun

Final(e) ==
    /\ is_oom(e.last.verdict) /\ Video(e.source) => e.batch = 1
    /\ e.at = "alpha" => Unproven(build_video_request(e.params, e.batch).container)

Judged ==
    /\ InProgress => Passed(work) /\ Excused(work)
    /\ Failed => Final(ended)
    /\ Succeeded => ~Wrong(ended.params, ended.source)

LEMMA HopelessNotRetried ==
    ASSUME NEW exc, exc.type \in DOMAIN Hopeless, exc.says # "oom"
    PROVE  ~retryable(classify(exc))
  BY DEF Hopeless, Exhausted, classify, retryable, Verdict

LEMMA InfrastructureRetried ==
    ASSUME NEW exc, exc.type \in DOMAIN Infrastructure
    PROVE  retryable(classify(exc))
  BY DEF Hopeless, Infrastructure, Exhausted, classify, retryable, Verdict

\* What is wrong with a request does not depend on the size of its batches.
LEMMA SameWrong ==
    ASSUME NEW p, NEW s, NEW b, Video(s), VideoBody(p)
    PROVE  Wrong([p EXCEPT !.batch_size = b], s) <=> Wrong(p, s)
  <1> DEFINE q == [p EXCEPT !.batch_size = b]
  <1>1. /\ q.device = p.device /\ q.mode = p.mode /\ q.max_frames = p.max_frames
        /\ q.container = p.container /\ {"container", "batch_size"} \subseteq DOMAIN q
    BY DEF VideoBody
  <1>2. Device(q) = Device(p) /\ Requested(q, s) = Requested(p, s)
    BY <1>1 DEF Device, Requested
  <1>3. build_video_request(q, 1).container = build_video_request(p, 1).container
    BY <1>1 DEF build_video_request, VideoBody
  <1>4. Wrong(q, s) <=> Wrong(p, s)
    <2> HIDE DEF q
    <2> QED  BY <1>1, <1>2, <1>3 DEF Wrong
  <1> QED  BY <1>4

\* Past its checks a request is not wrong.
LEMMA RightByNow ==
    ASSUME Inv, Kept, Asked, Judged, InProgress,
           work.pc \notin {"open", "probe", "alpha", "limit", "image"}
    PROVE  ~Wrong(work.params, work.source)
  <1>1. Passing(work) /\ Passed(work) /\ work.pc \in Places
    BY Under, StoringAt DEF Judged, Counted
  <1>2. work.pc = "put" \/ work.pc \in {"render", "close", "archive", "deliver"}
    BY <1>1 DEF Places, InProgress
  <1>3. CASE work.pc = "put"  BY <1>1, <1>3 DEF Passing, Known, Passed, Wrong
  <1>4. CASE work.pc \in {"render", "close", "archive", "deliver"}
    <2>1. /\ KnownDevice(Device(work.params)) /\ work.source.readable /\ work.source.area
          /\ Video(work.source) /\ VideoBody(work.params) /\ work.source \in Sources
      BY <1>1, <1>4 DEF Passing, Known, Passed, VideoPlaces
    <2>2. build_video_request(work.params, 1).container = Container(work.params)
      BY <2>1 DEF build_video_request, Container, VideoBody
    <2>3. work.params.mode = "transparent" => Container(work.params) \in Carries
      BY <1>1, <1>4 DEF Passing, Checked
    <2>4. Requested(work.params, work.source) \in Nat
      BY <2>1, RequestAssumption DEF Requested, VideoBody, FrameCount, Video
    <2>5. FrameLimit > 0 => Requested(work.params, work.source) <= FrameLimit
      BY <1>1, <1>4 DEF Passing, Checked
    <2> QED  BY <2>1, <2>2, <2>3, <2>4, <2>5 DEF Wrong
  <1> QED  BY <1>2, <1>3, <1>4

\* Nothing of an attempt but how far it is changes.
LEMMA MovesJudge ==
    ASSUME Inv, Judged, InProgress, ended' = ended, UNCHANGED site,
           work'.params = work.params, work'.source = work.source,
           work'.try = work.try, work'.last = work.last, Passed(work)'
    PROVE  Judged'
  <1>1. ended = None /\ Excused(work)  BY DEF Inv, Judged, InProgress, NoJob
  <1>2. Device(work.params)' = Device(work.params)  BY DEF Device
  <1>3. Excused(work)'
    BY <1>1, <1>2 DEF Excused, Wrong, ReadsAsOom, Video, Requested, FrameCount
  <1> QED  BY <1>1, <1>3 DEF Judged, Failed, Succeeded

\* What an exception may be for a wrong request: one it is not tried again for, unless
\* its text reads as out of memory, and never that while the attempt opens.
Fitting(exc) ==
    /\ At("open") => ~is_oom(classify(exc))
    /\ Wrong(work.params, work.source) /\ ~ReadsAsOom(work.source) /\ retryable(classify(exc)) =>
         exc.type \in DOMAIN Infrastructure
    /\ At("alpha") => Unproven(Request.container)

LEMMA RaiseJudges ==
    ASSUME Inv, Kept, Judged, InProgress, NEW exc, Raise(exc), Fitting(exc), UNCHANGED <<site, unrun>>
    PROVE  Judged'
  <1> DEFINE verdict == classify(exc)
             last == [exc |-> exc, verdict |-> verdict]
             inLoop == Video(work.source) /\ ~At("open")
             first == Attempt(Again(verdict), work.source)
  <1>1. Sound(work) /\ ended = None /\ Passing(work) /\ Passed(work)
    BY Under DEF Inv, Judged, InProgress, NoJob
  <1>2. last.exc = exc /\ last.verdict = verdict  OBVIOUS
  <1>3. is_oom(verdict) => retryable(verdict)  BY DEF is_oom, retryable
  <1>4. CASE is_oom(verdict) /\ inLoop /\ CanShrink(work)
    <2>1. /\ work' = [work EXCEPT !.pc = "probe", !.batch = _halve(@), !.last = last]
          /\ ended' = ended
      BY <1>4 DEF Raise, outside
    <2>2. /\ work'.pc = "probe" /\ work'.source = work.source /\ work'.params = work.params
          /\ work'.try = work.try /\ work'.last = last
      BY <1>1, <2>1 DEF Sound, Fields
    <2>3. Device(work.params)' = Device(work.params)  BY <2>2 DEF Device
    <2>4. Wrong(work.params, work.source)' <=> Wrong(work.params, work.source)
      BY <2>2, <2>3 DEF Wrong, Video, Requested, FrameCount
    <2>5. Excused(work)'
      <3> HIDE DEF last, verdict
      <3> QED  BY <1>2, <1>3, <1>4, <2>2, <2>4 DEF Excused, Fitting, ReadsAsOom, Video, verdict
    <2>6. Passed(work)'
      BY <1>1, <1>4, <2>2, <2>3 DEF Passed, At
    <2> QED  BY <1>1, <2>1, <2>5, <2>6 DEF Judged, Failed, Succeeded
  <1>5. CASE ~(is_oom(verdict) /\ inLoop /\ CanShrink(work))
    <2>1. CASE retryable(verdict) /\ work.try < MaxRetries
      <3>1. work' = [first EXCEPT !.try = work.try + 1, !.last = last] /\ ended' = ended
        BY <1>5, <2>1 DEF Raise, outside
      <3>2. /\ DOMAIN first = Fields /\ first.pc = "open" /\ first.source = work.source
            /\ first.params = Again(verdict)
        BY DEF Attempt, Fields
      <3>3. /\ work'.pc = "open" /\ work'.source = work.source /\ work'.params = Again(verdict)
            /\ work'.last = last
        <4> HIDE DEF first, last
        <4> QED  BY <3>1, <3>2 DEF Fields
      <3>4. Wrong(Again(verdict), work.source) <=> Wrong(work.params, work.source)
        <4>1. Video(work.source) => VideoBody(work.params)  BY <1>1 DEF Passing, Known
        <4> QED  BY <4>1, SameWrong DEF Again
      <3>5. Wrong(work.params, work.source)' <=> Wrong(Again(verdict), work.source)
        <4>1. Device(work.params)' = Device(Again(verdict))  BY <3>3 DEF Device
        <4> QED  BY <3>3, <4>1 DEF Wrong, Video, Requested, FrameCount
      <3>6. Excused(work)'
        <4> HIDE DEF last
        <4> QED  BY <1>2, <2>1, <3>3, <3>4, <3>5 DEF Excused, Fitting, ReadsAsOom, Video
      <3>7. Passed(work)'  BY <3>3 DEF Passed, VideoPlaces
      <3> QED  BY <1>1, <3>1, <3>6, <3>7 DEF Judged, Failed, Succeeded
    <2>2. CASE ~(retryable(verdict) /\ work.try < MaxRetries)
      <3>1. /\ work' = NoJob /\ ended'.status = "failed" /\ ended'.last = last
            /\ ended'.at = work.pc /\ ended'.params = work.params
            /\ ended'.source = work.source /\ ended'.batch = work.batch
        BY <1>5, <2>2 DEF Raise
      <3>2. is_oom(verdict) /\ Video(work.source) => work.batch = 1
        BY <1>1, <1>5 DEF Fitting, CanShrink, Passing, Known
      <3>3. At("alpha") => Unproven(build_video_request(work.params, work.batch).container)
        BY DEF Fitting, Request
      <3>4. Final(ended)'
        <4> HIDE DEF last, verdict
        <4> QED  BY <1>2, <3>1, <3>2, <3>3 DEF Final, Unproven, At, Video, build_video_request, verdict
      <3> QED  BY <3>1, <3>4 DEF Judged, InProgress, NoJob, Failed, Succeeded
    <2> QED  BY <2>1, <2>2
  <1> QED  BY <1>4, <1>5

LEMMA FailsJudge ==
    ASSUME Inv, Kept, Judged, InProgress, NEW type, NEW says, UNCHANGED site,
           Fails(type, says) \/ FailsByChance(type, says), Fitting(Because(type, says))
    PROVE  Judged'
  BY RaiseJudges DEF Fails, FailsByChance

\* Past its checks a request may fail as it likes.
LEMMA LateFailsJudge ==
    ASSUME Inv, Kept, Asked, Judged, InProgress, NEW type, NEW says, UNCHANGED site,
           Fails(type, says) \/ FailsByChance(type, says),
           work.pc \notin {"open", "probe", "alpha", "limit", "image"}
    PROVE  Judged'
  <1>1. Fitting(Because(type, says))  BY RightByNow DEF Fitting, At
  <1> QED  BY <1>1, FailsJudge

\* The exceptions of the first steps.
LEMMA EarlyExceptions ==
    /\ ~retryable(classify(Because("RuntimeError", "plain")))
    /\ ~is_oom(classify(Because("ObjectNotFoundError", "plain")))
    /\ ~retryable(classify(Because("ObjectNotFoundError", "plain")))
    /\ ~is_oom(classify(Because("ConnectionError", "plain")))
    /\ "ConnectionError" \in DOMAIN Infrastructure
    /\ ~is_oom(classify(Because("WeightsUnavailableError", "plain")))
    /\ ~retryable(classify(Because("WeightsUnavailableError", "plain")))
    /\ ~is_oom(classify(Because("RuntimeError", "plain")))
    /\ \A says \in {"plain", "transient"} : ~retryable(classify(Because("ValueError", says)))
    /\ \A says : says # "oom" => ~retryable(classify(Because("UnsupportedCodecError", says)))
  BY DEF Because, classify, retryable, is_oom, Verdict, Exhausted, Hopeless, Infrastructure, SystemErrors

LEMMA OpensJudge ==
    ASSUME Inv, Kept, Judged, Opens \/ OpenFails, UNCHANGED site
    PROVE  Judged'
  <1>1. InProgress /\ At("open") /\ DOMAIN work = Fields
    BY AtWork, Under DEF Opens, OpenFails
  <1>2. CASE OpenFails
    <2>1. PICK t \in {"ObjectNotFoundError", "ConnectionError", "WeightsUnavailableError"} :
             FailsByChance(t, "plain")
      BY <1>2 DEF OpenFails
    <2>2. Fitting(Because(t, "plain"))
      BY <1>1, EarlyExceptions DEF Fitting, Because, At
    <2> QED  BY <1>1, <2>1, <2>2, FailsJudge
  <1>3. CASE Opens
    <2>1. CASE ~KnownDevice(Device(work.params))
      <3>1. Fitting(Because("RuntimeError", "plain"))
        BY <1>1, EarlyExceptions DEF Fitting, At
      <3> QED  BY <1>1, <1>3, <2>1, <3>1, FailsJudge DEF Opens
    <2>2. CASE KnownDevice(Device(work.params))
      <3>1. /\ work' = [work EXCEPT !.pc = IF Video(work.source) THEN "probe" ELSE "image",
                                    !.on = On(work.params)]
            /\ ended' = ended
        BY <1>3, <2>2 DEF Opens, outside
      <3>2. /\ work'.pc \in {"probe", "image"} /\ work'.params = work.params
            /\ work'.source = work.source /\ work'.try = work.try /\ work'.last = work.last
        BY <1>1, <3>1 DEF Fields
      <3>3. Device(work.params)' = Device(work.params)  BY <3>2 DEF Device
      <3>4. Passed(work)'  BY <2>2, <3>2, <3>3 DEF Passed, VideoPlaces
      <3> QED  BY <1>1, <3>1, <3>2, <3>4, MovesJudge
    <2> QED  BY <2>1, <2>2
  <1> QED  BY <1>2, <1>3

LEMMA ProceedsJudges ==
    ASSUME Inv, Kept, Judged, InProgress, NEW pc, Proceeds(pc), UNCHANGED site,
           KnownDevice(Device(work.params)), pc # "put",
           pc \in VideoPlaces \ {"probe"} => work.source.readable /\ work.source.area
    PROVE  Judged'
  <1>1. /\ work'.pc = pc /\ ended' = ended /\ work'.params = work.params
        /\ work'.source = work.source /\ work'.try = work.try /\ work'.last = work.last
    BY Under DEF Proceeds, Go, outside, Fields
  <1>2. Device(work.params)' = Device(work.params)  BY <1>1 DEF Device
  <1>3. Passed(work)'  BY <1>1, <1>2 DEF Passed
  <1> QED  BY <1>1, <1>3, MovesJudge

\* An attempt that has opened has a device.
LEMMA Opened ==
    ASSUME Judged, NEW pc \in Places \ {"idle", "open"}, At(pc)
    PROVE  InProgress /\ KnownDevice(Device(work.params)) /\ Passed(work)
  BY DEF Judged, At, InProgress, Passed

LEMMA ProbeJudges ==
    ASSUME Inv, Kept, Judged, Probe, UNCHANGED site
    PROVE  Judged'
  <1>1. At("probe")  BY DEF Probe
  <1>2. InProgress /\ KnownDevice(Device(work.params))  BY <1>1, Opened DEF Places
  <1>3. Video(work.source)  BY <1>1, VideoAt DEF VideoPlaces
  <1>4. CASE ~work.source.readable
    <2>1. Fails("UnsupportedCodecError", work.source.says)  BY <1>4 DEF Probe
    <2>2. Fitting(Because("UnsupportedCodecError", work.source.says))
      BY <1>1, <1>3, <1>4, EarlyExceptions DEF Fitting, ReadsAsOom, At
    <2> QED  BY <1>2, <2>1, <2>2, FailsJudge
  <1>5. CASE work.source.readable /\ ~work.source.area
    <2>1. Fails("ValueError", "plain")  BY <1>5 DEF Probe
    <2>2. Fitting(Because("ValueError", "plain"))  BY <1>1, EarlyExceptions DEF Fitting, At
    <2> QED  BY <1>2, <2>1, <2>2, FailsJudge
  <1>6. CASE work.source.readable /\ work.source.area
    BY <1>2, <1>6, ProceedsJudges DEF Probe
  <1> QED  BY <1>4, <1>5, <1>6

LEMMA AlphaJudges ==
    ASSUME Inv, Remembers, Kept, Judged, CheckAlpha, UNCHANGED site
    PROVE  Judged'
  <1>1. At("alpha")  BY DEF CheckAlpha
  <1>2. InProgress /\ KnownDevice(Device(work.params)) /\ work.source.readable /\ work.source.area
    BY <1>1, Opened DEF Places, Passed, VideoPlaces, At
  <1>3. CASE \E c : ProbeAlpha(c)
    <2>1. work' = work /\ ended' = ended  BY <1>3 DEF ProbeAlpha, outside
    <2>2. Device(work.params)' = Device(work.params)  BY <2>1 DEF Device
    <2>3. Passed(work)'  BY <1>2, <2>1, <2>2 DEF Passed, Judged
    <2> QED  BY <1>2, <2>1, <2>3, MovesJudge
  <1>4. CASE Proceeds("limit")  BY <1>2, <1>4, ProceedsJudges
  <1>5. CASE Fails("ValueError", "plain") /\ Unproven(Request.container)
    <2>1. Fitting(Because("ValueError", "plain"))
      BY <1>1, <1>5, EarlyExceptions DEF Fitting, At
    <2> QED  BY <1>2, <1>5, <2>1, FailsJudge
  <1>6. ASSUME ~container_supports_alpha(Request.container)
        PROVE  Unproven(Request.container)
    BY <1>6 DEF Unproven, container_supports_alpha
  <1>7. ASSUME container_supports_alpha(Request.container), ~AlphaWorks(Request.container),
               verdicts[Request.container] # "unknown"
        PROVE  Unproven(Request.container)
    <2>1. Request.container \in Range(ALPHA_CONTAINERS)
      <3>1. Request.container = Container(work.params) /\ VideoBody(work.params)
        BY <1>1, VideoAt, RequestIs DEF VideoPlaces
      <3> QED  BY <1>7, <3>1
        DEF container_supports_alpha, Container, DefaultContainer, VideoBody, ALPHA_CONTAINERS, Range
    <2>2. verdicts[Request.container] = "no"  BY <1>7, <2>1 DEF AlphaWorks, Remembers
    <2> QED  BY <2>1, <2>2, RoundTripsIfCarried DEF Remembers, Unproven
  <1> QED  BY <1>3, <1>4, <1>5, <1>6, <1>7 DEF CheckAlpha

LEMMA LimitJudges ==
    ASSUME Inv, Kept, Judged, CheckLimit, UNCHANGED site
    PROVE  Judged'
  <1>1. At("limit")  BY DEF CheckLimit
  <1>2. InProgress /\ KnownDevice(Device(work.params)) /\ work.source.readable /\ work.source.area
    BY <1>1, Opened DEF Places, Passed, VideoPlaces, At
  <1>3. CASE \E says \in {"plain", "transient"} : Fails("ValueError", says)
    <2>1. PICK says \in {"plain", "transient"} : Fails("ValueError", says)  BY <1>3
    <2>2. Fitting(Because("ValueError", says))  BY <1>1, EarlyExceptions DEF Fitting, At
    <2> QED  BY <1>2, <2>1, <2>2, FailsJudge
  <1>4. CASE work' = [work EXCEPT !.pc = "render", !.done = 0, !.paths = <<>>] /\ ended' = ended
    <2>1. /\ work'.pc = "render" /\ work'.params = work.params
          /\ work'.source = work.source /\ work'.try = work.try /\ work'.last = work.last
      BY <1>2, <1>4, Under DEF Fields
    <2>2. Device(work.params)' = Device(work.params)  BY <2>1 DEF Device
    <2>3. Passed(work)'  BY <1>2, <2>1, <2>2 DEF Passed
    <2> QED  BY <1>2, <1>4, <2>1, <2>3, MovesJudge
  <1> QED  BY <1>3, <1>4 DEF CheckLimit, outside

LEMMA PassJudges ==
    ASSUME Inv, Kept, Asked, Judged, Render \/ DecoderEnds \/ EncoderEnds \/ Archive, UNCHANGED site
    PROVE  Judged'
  <1>1. work.pc \in {"render", "close", "archive"}
    BY DEF Render, DecoderEnds, EncoderEnds, Archive, At
  <1>2. InProgress /\ KnownDevice(Device(work.params)) /\ work.source.readable /\ work.source.area
    BY <1>1, Opened DEF Places, Passed, VideoPlaces, At
  <1>3. CASE \E t, says : Fails(t, says) \/ FailsByChance(t, says)
    BY <1>1, <1>2, <1>3, LateFailsJudge
  <1>4. CASE \E pc \in {"close", "archive"} : Proceeds(pc)
    BY <1>2, <1>4, ProceedsJudges
  <1>5. ASSUME work'.pc \in {"render", "deliver"}, work'.params = work.params,
               work'.source = work.source, work'.try = work.try, work'.last = work.last,
               ended' = ended
        PROVE  Judged'
    <2>1. Device(work.params)' = Device(work.params)  BY <1>5 DEF Device
    <2>2. Passed(work)'  BY <1>2, <1>5, <2>1 DEF Passed
    <2> QED  BY <1>2, <1>5, <2>2, MovesJudge
  <1>6. CASE work.pc = "render" /\ ended' = ended /\ \E n : work' = ExtendPass(work, n)
    <2>1. PICK n : work' = ExtendPass(work, n)  BY <1>6
    <2> QED  BY <1>2, <1>5, <1>6, <2>1, Under DEF ExtendPass, Fields
  <1>7. CASE \E f : work' = [work EXCEPT !.pc = "deliver", !.file = f] /\ ended' = ended
    BY <1>2, <1>5, <1>7, Under DEF Fields
  <1> QED
    BY <1>3, <1>4, <1>6, <1>7 DEF Render, DecoderEnds, EncoderEnds, Archive, outside, At

LEMMA SucceedsJudges ==
    ASSUME Inv, Kept, Asked, Judged, InProgress, UNCHANGED site,
           NEW outputs, NEW frames, NEW alpha, Succeeds(outputs, frames, alpha),
           work.pc \in {"deliver", "put"}
    PROVE  Judged'
  <1>1. ~Wrong(work.params, work.source)  BY RightByNow
  <1>2. /\ work' = NoJob /\ ended'.status = "succeeded"
        /\ ended'.params = work.params /\ ended'.source = work.source
    BY DEF Succeeds
  <1>3. Device(ended.params)' = Device(work.params)  BY <1>2 DEF Device
  <1>4. ~Wrong(ended.params, ended.source)'
    BY <1>1, <1>2, <1>3 DEF Wrong, Video, Requested, FrameCount
  <1> QED  BY <1>2, <1>4 DEF Judged, InProgress, NoJob, Failed, Succeeded

LEMMA DeliveryJudges ==
    ASSUME Inv, Kept, Asked, Judged, DeliverVideo \/ DeliveryFails \/ DeliverImage, UNCHANGED site
    PROVE  Judged'
  <1>1. work.pc \in {"deliver", "put"} /\ InProgress
    BY AtWork DEF DeliverVideo, DeliveryFails, DeliverImage, At
  <1> QED  BY <1>1, LateFailsJudge, SucceedsJudges DEF DeliverVideo, DeliveryFails, DeliverImage

LEMMA ImageJudges ==
    ASSUME Inv, Kept, Asked, Judged,
           ProcessImage \/ \E k \in DOMAIN OUTPUT_EXTENSIONS : PutOutput(k), UNCHANGED site
    PROVE  Judged'
  <1>1. work.pc \in {"image", "put"}  BY DEF ProcessImage, PutOutput, At
  <1>2. InProgress /\ KnownDevice(Device(work.params)) /\ Passed(work)
    BY <1>1, Opened DEF Places, At
  <1>3. ~Video(work.source)  BY <1>1, ImageAt DEF At
  <1>4. ASSUME ~work.source.large, ended' = ended, NEW left,
               \/ work' = [work EXCEPT !.left = left] /\ work.pc = "put"
               \/ work' = [work EXCEPT !.pc = "put", !.left = left]
        PROVE  Judged'
    <2>1. /\ work'.pc = "put" /\ work'.params = work.params
          /\ work'.source = work.source /\ work'.try = work.try /\ work'.last = work.last
      BY <1>2, <1>4, Under DEF Fields
    <2>2. Device(work.params)' = Device(work.params)  BY <2>1 DEF Device
    <2>3. Passed(work)'  BY <1>2, <1>4, <2>1, <2>2 DEF Passed, VideoPlaces
    <2> QED  BY <1>2, <1>4, <2>1, <2>3, MovesJudge
  <1>5. CASE ProcessImage
    <2>1. work.pc = "image"  BY <1>5 DEF ProcessImage, At
    <2>2. CASE work.source.large
      <3>1. Fitting(Because("ValueError", "plain"))
        BY <2>1, EarlyExceptions DEF Fitting, At
      <3> QED  BY <1>2, <1>5, <2>2, <3>1, FailsJudge DEF ProcessImage
    <2>3. CASE ~work.source.large
      <3>1. ~Wrong(work.params, work.source)  BY <1>2, <1>3, <2>3 DEF Wrong
      <3>2. \A t, says : Fitting(Because(t, says))  BY <2>1, <3>1 DEF Fitting, At
      <3>3. CASE \E t, says : Fails(t, says)  BY <1>2, <3>2, <3>3, FailsJudge
      <3>4. CASE work' = [work EXCEPT !.pc = "put", !.left = Range(work.params.outputs)] /\ ended' = ended
        BY <1>4, <2>3, <3>4
      <3> QED  BY <1>5, <2>3, <3>3, <3>4 DEF ProcessImage, outside
    <2> QED  BY <2>2, <2>3
  <1>6. CASE \E k \in DOMAIN OUTPUT_EXTENSIONS : PutOutput(k)
    <2>1. PICK k \in DOMAIN OUTPUT_EXTENSIONS : PutOutput(k)  BY <1>6
    <2>2. /\ work.pc = "put" /\ work' = [work EXCEPT !.left = work.left \ {k}] /\ ended' = ended
      BY <2>1 DEF PutOutput, At
    <2>3. ~work.source.large  BY <1>2, <2>2 DEF Passed
    <2> QED  BY <1>4, <2>2, <2>3
  <1> QED  BY <1>5, <1>6

LEMMA JudgedIsInductive == Inv /\ Remembers /\ Kept /\ Asked /\ Judged /\ [Next]_vars => Judged'
<1> SUFFICES ASSUME Inv, Remembers, Kept, Asked, Judged, [Next]_vars PROVE Judged'
  OBVIOUS
<1>1. CASE Advance
  BY <1>1, OpensJudge, ProbeJudges, AlphaJudges, LimitJudges, PassJudges, DeliveryJudges, ImageJudges
  DEF Advance, Step
<1>2. CASE WorkerDies
  <2>1. work' = NoJob /\ ended' = None
    BY <1>2 DEF WorkerDies, outside, Inv, InProgress, NoJob
  <2> QED  BY <2>1 DEF Judged, InProgress, NoJob, Failed, Succeeded
<1>3. ASSUME NEW p \in Requests, NEW s \in Sources, Begins(p, s) PROVE Judged'
  <2>1. work' = Attempt(p, s) /\ ended' = None  BY <1>3 DEF Begins
  <2>2. work'.pc = "open" /\ work'.try = 0  BY <2>1 DEF Attempt
  <2>3. Passed(work)' /\ Excused(work)'  BY <2>2 DEF Passed, Excused, VideoPlaces
  <2> QED  BY <2>1, <2>3 DEF Judged, Failed, Succeeded
<1>4. CASE UNCHANGED vars
  <2>1. UNCHANGED <<site, unrun, work, ended>>  BY <1>4 DEF vars, outside
  <2>2. \A p : Device(p)' = Device(p)  BY <2>1 DEF Device
  <2> QED
    BY <2>1, <2>2
    DEF Judged, InProgress, Failed, Succeeded, Passed, Excused, Wrong, Final, Unproven
<1> QED  BY <1>1, <1>2, <1>3, <1>4 DEF Next

LEMMA JudgedHolds == Spec => []Judged
<1>1. Init => Judged  BY DEF Init, Judged, InProgress, NoJob, Failed, Succeeded
<1> QED  BY <1>1, Invariant, RemembersHolds, KeptHolds, AskedHolds, JudgedIsInductive, PTL DEF Spec

\* A transparent video is refused only where this build drops alpha, or where the probe
\* could not run in this process.
THEOREM RefusalsAreRight == Spec => []RefusedRightly
<1>1. Judged => RefusedRightly  BY DEF Judged, Final, Unproven, RefusedRightly
<1> QED  BY <1>1, JudgedHolds, PTL

\* A wrong request fails before anything is made of it, and is tried again only for what
\* the infrastructure did, or for words that read as out of memory; and a failure that
\* might pass is final only at the last retry, out of memory on a batch of one.
THEOREM RetriesMayPass == Spec => []RetriesWhatMayPass
<1>1. Inv /\ Kept /\ Asked /\ Judged => WrongRequestsFail
  <2> SUFFICES ASSUME Inv, Kept, Asked, Judged PROVE WrongRequestsFail  OBVIOUS
  <2> QED  BY RightByNow DEF WrongRequestsFail, Judged, Excused
<1>2. Inv /\ Judged => GivenUpLast
  <2> SUFFICES ASSUME Inv, Judged, Failed
               PROVE  /\ ended.last.exc.type \in DOMAIN Infrastructure => ended.try = MaxRetries
                      /\ is_oom(ended.last.verdict) =>
                           ended.try = MaxRetries /\ (Video(ended.source) => ended.batch = 1)
    BY DEF GivenUpLast
  <2>1. Over(ended) /\ ended.status = "failed" /\ Final(ended)  BY DEF Failed, Inv, Judged
  <2>2. is_oom(ended.last.verdict) => retryable(ended.last.verdict)  BY DEF is_oom, retryable
  <2> QED  BY <2>1, <2>2, InfrastructureRetried DEF Over, Final
<1> QED  BY <1>1, <1>2, Invariant, KeptHolds, AskedHolds, JudgedHolds, PTL DEF RetriesWhatMayPass

-----------------------------------------------------------------------------
(* Together *)

\* A job that says its output has alpha has stored one with alpha, and one that is refused
\* has a container this build drops or a probe that could not run, for every ffmpeg build.
THEOREM AlphaStaysTrue == Spec => []AlphaIsTrue
BY AlphaIsStored, RefusalsAreRight, PTL DEF AlphaIsTrue

\* The deliverable has the frames that were asked for and allowed.
THEOREM RendersTheRequest == Spec => []RendersWhatWasAsked
BY DeliversThePass, LimitsFrames, PTL DEF RendersWhatWasAsked

\* Queue, device and precision of a job agree, wherever the API and the worker run.
THEOREM PlacementsAgree == Spec => []RunsAsPlaced
BY RoutesAgree, PrecisionsAreReal, PTL DEF RunsAsPlaced
=============================================================================
