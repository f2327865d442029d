------------------------------ MODULE Placement ------------------------------
(***************************************************************************)
(* Where a job is sent and what it runs on: the API routes it by the       *)
(* hardware of its own machine (core/queues.py), and the worker resolves   *)
(* the same request against the hardware of its machine (core/devices.py). *)
(*                                                                         *)
(* Hardware is the set of "cuda", "mps" and "bf16" (a CUDA device that     *)
(* computes in bf16) that torch finds.  None is a parameter left out.      *)
(***************************************************************************)
CONSTANT None

\* What a client may name: the last is no device.
DeviceNames == {"auto", "cpu", "cuda", "mps", "tpu"}

ASSUME NoneAssumption == None \notin DeviceNames

cuda_available(hardware) == "cuda" \in hardware

GpuQueue(kind) == IF kind = "video" THEN "video-gpu" ELSE "image-gpu"

\* Any device but the CPU has the GPU queues, wherever there is one.
follow_the_hardware(kind, device, hardware) ==
    IF cuda_available(hardware) THEN GpuQueue(kind) ELSE "cpu"
select_queue(kind, device, hardware) ==
    IF device # "cpu" /\ cuda_available(hardware) THEN GpuQueue(kind) ELSE "cpu"

KnownDevice(requested) == requested # "tpu"
resolve_device(requested, hardware) ==
    CASE requested \in {None, "auto"} -> IF cuda_available(hardware) THEN "cuda"
                                         ELSE IF "mps" \in hardware THEN "mps" ELSE "cpu"
      [] requested \in {"cuda", "mps"} -> IF requested \in hardware THEN requested ELSE "cpu"
      [] OTHER -> "cpu"

bf16_supported(device, hardware) == device = "cpu" \/ (device = "cuda" /\ "bf16" \in hardware)

as_requested(requested, device, hardware) == requested
resolve_precision(requested, device, hardware) ==
    CASE requested = "fp16" /\ device = "cuda" -> "fp16"
      [] requested \in {"fp16", "bf16"} /\ ~(requested = "fp16" /\ device = "cuda") ->
             IF bf16_supported(device, hardware) THEN "bf16" ELSE "fp32"
      [] OTHER -> "fp32"

\* What the network is run in: torch under autocast_context, ONNX Runtime on a graph and
\* an input of float32 whatever precision was resolved (onnx_adapter.py:237-239).
Computes(runtime, device, precision) ==
    IF runtime = "torch" /\ device \in {"cuda", "cpu"} THEN precision ELSE "fp32"
=============================================================================
