----------------------------- MODULE MCMediaJobs -----------------------------
(* Instances of MediaJobs: sources good and bad, a request of each mode, one machine
   with each kind of hardware, and an API and a worker of which one has a GPU. *)
EXTENDS MediaJobs

Clip == [kind |-> "video", readable |-> TRUE, says |-> "plain", area |-> TRUE,
         declared |-> 3, estimate |-> 3, frames |-> 3, breaks |-> FALSE, audio |-> "none"]
MCSources ==
    { Clip,
      [Clip EXCEPT !.declared = 0, !.audio = "foreign"],
      [Clip EXCEPT !.declared = 0, !.estimate = 5, !.frames = 5],
      [Clip EXCEPT !.declared = 0, !.estimate = 0, !.frames = 5],
      [Clip EXCEPT !.frames = 1, !.breaks = TRUE, !.says = "oom"],
      [Clip EXCEPT !.declared = 0, !.estimate = 0, !.frames = 0],
      [Clip EXCEPT !.readable = FALSE], [Clip EXCEPT !.readable = FALSE, !.says = "oom"],
      [Clip EXCEPT !.area = FALSE] }
    \cup [kind : {"image"}, large : BOOLEAN, truncated : BOOLEAN]

Plain == [kind |-> "video", mode |-> "composite", container |-> None, max_frames |-> 0,
          batch_size |-> 2, keep_audio |-> TRUE, device |-> None, precision |-> "fp16",
          runtime |-> "torch"]
Picture == [kind |-> "image", outputs |-> <<"transparent_webp", "mask_png">>, background |-> FALSE,
            device |-> None, precision |-> "bf16", runtime |-> "onnxruntime"]
MCRequests ==
    { Plain, [Plain EXCEPT !.max_frames = 2, !.device = "cpu", !.batch_size = 8],
      [Plain EXCEPT !.container = "qtrle", !.device = "cuda"],
      [Plain EXCEPT !.mode = "frames", !.runtime = "onnxruntime"],
      [Plain EXCEPT !.mode = "transparent"],
      [Plain EXCEPT !.mode = "transparent", !.container = "mov"],
      [Plain EXCEPT !.mode = "transparent", !.container = "mp4"],
      Picture, [Picture EXCEPT !.outputs = <<"background_composite">>, !.device = "mps"],
      [Picture EXCEPT !.device = "tpu"],
      [Picture EXCEPT !.outputs = <<"background_composite", "mask_png">>, !.background = TRUE] }

Site(api, worker, queues, device) ==
    [api |-> api, worker |-> worker, queues |-> queues, device |-> device]
MCSites ==
    { Site({}, {}, {"cpu"}, "auto"), Site({"cuda"}, {"cuda"}, {"cpu", "image-gpu"}, "cpu"),
      Site({"cuda", "bf16"}, {"cuda", "bf16"}, {"image-gpu", "video-gpu"}, "auto"),
      Site({"mps"}, {"mps"}, {"cpu"}, "auto"), Site({}, {"cuda"}, {"cpu"}, "cuda"),
      Site({"cuda"}, {}, {"image-gpu"}, "auto") }
=============================================================================
