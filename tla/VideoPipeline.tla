---------------------------- MODULE VideoPipeline ----------------------------
(***************************************************************************)
(* One video job's pipeline: an ffmpeg that decodes, the worker that       *)
(* batches, infers, smooths and renders, and an ffmpeg that encodes, joined *)
(* by pipes that block when they are full; and the runner's loop around it *)
(* that starts over with half the batch when the model runs out of memory. *)
(*                                                                         *)
(* Frames are numbered from 1.  What leaves the worker for a frame is the  *)
(* frame and the alphas its own alpha was smoothed from.                   *)
(***************************************************************************)
EXTENDS Naturals, Sequences

CONSTANTS
    MaxFrames,      \* bound: frames of the source
    InitialBatch,   \* params["video"]["batch_size"]
    Window,         \* alphas the smoother combines: 1 for none, all for ema
    Modes,          \* "encode" for a video file, "frames" for a sequence of files
    Buffers,        \* frames that fit the buffer Python keeps in front of the encoder's pipe
    StdoutCap,      \* frames the decoder's stdout pipe holds
    StdinCap,       \* frames the encoder's stdin pipe holds
    StderrCap,      \* messages a stderr pipe holds
    MaxMessages,    \* bound: messages each ffmpeg writes to its stderr
    MaxFaults       \* bound: failures of an ffmpeg or of inference, and interrupts

ASSUME PipelineAssumption ==
    /\ MaxFrames \in Nat /\ MaxMessages \in Nat /\ MaxFaults \in Nat
    /\ InitialBatch \in Nat \ {0} /\ Window \in Nat \ {0}
    /\ StdoutCap \in Nat \ {0} /\ StdinCap \in Nat \ {0} /\ StderrCap \in Nat
    /\ Modes \subseteq {"encode", "frames"}
    /\ Buffers \subseteq 0 .. StdinCap

VARIABLES
    source,         \* frames the source decodes to
    mode,           \* VideoRequest.mode
    fits,           \* frames of this size that Python's buffer holds: 0 for large ones
    batch_size,     \* the batch size of this pass
    py,             \* where the worker is
    raised,         \* the exception that is propagating
    interrupted,    \* the soft time limit has fired
    batch,          \* the list _batched is filling
    held,           \* the list process() is looping over, or last looped over
    pos,            \* frames of held that were written
    checked,        \* _check_exit has returned: the stream is over
    smoother,       \* the smoother's buffer
    decoder,        \* the decoding process: pc, frames sent, messages on stderr
    stdout,         \* the pipe from the decoder
    encoder,        \* the encoding process: pc, messages on stderr
    stdin,          \* frames written for the encoder, the last of them not in the pipe yet
    unflushed,      \* how many of those Python still holds
    eof,            \* that pipe is closed
    output,         \* the destination's frames
    faults

worker  == <<py, raised, batch, held, pos, checked, smoother, unflushed>>
fixed   == <<source, mode, fits>>
ffmpegs == <<decoder, stdout, encoder, stdin, eof, output>>
vars    == <<fixed, batch_size, worker, interrupted, ffmpegs, faults>>

-----------------------------------------------------------------------------

Frames  == 1 .. MaxFrames
Outputs == [frame : Frames, alphas : Seq(Frames)]

Alive(p) == p.pc \in {"run", "logging"}
Gone     == {"off", "ok", "error"}

DecoderState == [pc : Gone \cup {"run", "logging"}, sent : 0 .. MaxFrames, log : Nat,
                 err : 0 .. StderrCap]
EncoderState == [pc : Gone \cup {"run", "logging"}, log : Nat, err : 0 .. StderrCap]

ControlOK ==
    /\ source \in 0 .. MaxFrames /\ mode \in Modes /\ fits \in Buffers
    /\ batch_size \in 1 .. InitialBatch
    /\ py \in {"start", "decode", "check", "yield", "infer", "write", "close_writer", "drain", "wait",
               "close_reader", "ended", "done", "failed"}
    /\ raised \in {"none", "oom", "error", "time_limit"}
    /\ interrupted \in BOOLEAN /\ checked \in BOOLEAN /\ eof \in BOOLEAN
    /\ faults \in 0 .. MaxFaults

ListsOK ==
    /\ batch \in Seq(Frames) /\ held \in Seq(Frames) /\ smoother \in Seq(Frames)
    /\ pos \in Nat /\ pos <= Len(held)

PipesOK ==
    /\ decoder \in DecoderState /\ encoder \in EncoderState
    /\ stdout \in Seq(Frames) /\ Len(stdout) <= StdoutCap
    /\ stdin \in Seq(Outputs) /\ Len(stdin) <= StdinCap + unflushed
    /\ unflushed \in 0 .. fits /\ unflushed <= Len(stdin)
    /\ output \in Seq(Outputs)

TypeOK == ControlOK /\ ListsOK /\ PipesOK

NoDecoder == [pc |-> "off", sent |-> 0, log |-> 0, err |-> 0]
NoEncoder == [pc |-> "off", log |-> 0, err |-> 0]

Init ==
    /\ source \in 0 .. MaxFrames
    /\ mode \in Modes /\ fits \in Buffers
    /\ batch_size = InitialBatch
    /\ py = "start" /\ raised = "none"
    /\ interrupted = FALSE /\ checked = FALSE /\ eof = FALSE
    /\ batch = <<>> /\ held = <<>> /\ pos = 0 /\ smoother = <<>>
    /\ decoder = NoDecoder /\ stdout = <<>>
    /\ encoder = NoEncoder /\ stdin = <<>> /\ unflushed = 0 /\ output = <<>>
    /\ faults = 0

Fault == faults < MaxFaults /\ faults' = faults + 1

-----------------------------------------------------------------------------
(* The ffmpeg processes *)

Decode ==
    /\ decoder.pc = "run" /\ decoder.sent < source
    /\ Len(stdout) < StdoutCap
    /\ stdout' = Append(stdout, decoder.sent + 1)
    /\ decoder' = [decoder EXCEPT !.sent = @ + 1]
    /\ UNCHANGED <<fixed, batch_size, worker, interrupted, encoder, stdin, eof, output, faults>>

\* A damaged or cut off source is a shorter one; a last frame that is cut off is
\* dropped by frames(), so it is none.
DecoderExits ==
    /\ decoder.pc = "run"
    /\ \/ decoder.sent = source /\ decoder' = [decoder EXCEPT !.pc = "ok"] /\ faults' = faults
       \/ Fault /\ decoder' = [decoder EXCEPT !.pc = "error"]
    /\ UNCHANGED <<fixed, batch_size, worker, interrupted, stdout, encoder, stdin, eof, output>>

\* ffmpeg starts to write a message, and goes on once the pipe has taken it.
DecoderComplains ==
    /\ decoder.pc = "run" /\ decoder.log < MaxMessages
    /\ decoder' = [decoder EXCEPT !.pc = "logging", !.log = @ + 1]
    /\ UNCHANGED <<fixed, batch_size, worker, interrupted, stdout, encoder, stdin, eof, output,
                   faults>>

DecoderLogs ==
    /\ decoder.pc = "logging" /\ decoder.err < StderrCap
    /\ decoder' = [decoder EXCEPT !.pc = "run", !.err = @ + 1]
    /\ UNCHANGED <<fixed, batch_size, worker, interrupted, stdout, encoder, stdin, eof, output,
                   faults>>

Encode ==
    /\ encoder.pc = "run" /\ Len(stdin) > unflushed
    /\ output' = Append(output, Head(stdin))
    /\ stdin' = Tail(stdin)
    /\ UNCHANGED <<fixed, batch_size, worker, interrupted, decoder, stdout, encoder, eof, faults>>

EncoderExits ==
    /\ encoder.pc = "run"
    /\ \/ eof /\ stdin = <<>> /\ encoder' = [encoder EXCEPT !.pc = "ok"] /\ faults' = faults
       \/ Fault /\ encoder' = [encoder EXCEPT !.pc = "error"]
    /\ UNCHANGED <<fixed, batch_size, worker, interrupted, decoder, stdout, stdin, eof, output>>

EncoderComplains ==
    /\ encoder.pc = "run" /\ encoder.log < MaxMessages
    /\ encoder' = [encoder EXCEPT !.pc = "logging", !.log = @ + 1]
    /\ UNCHANGED <<fixed, batch_size, worker, interrupted, decoder, stdout, stdin, eof, output,
                   faults>>

EncoderLogs ==
    /\ encoder.pc = "logging" /\ encoder.err < StderrCap
    /\ encoder' = [encoder EXCEPT !.pc = "run", !.err = @ + 1]
    /\ UNCHANGED <<fixed, batch_size, worker, interrupted, decoder, stdout, stdin, eof, output,
                   faults>>

-----------------------------------------------------------------------------
(* The worker: VideoPipeline.process, _batched and FrameReader.frames *)

SmootherOfLastPass == smoother                     \* mutant: the smoother is not new
NewSmoother        == <<>>

\* The encoder, and the names of the frame files, overwrite what a pass left.
Start ==
    /\ py = "start"
    /\ py' = "decode"
    /\ batch' = <<>> /\ held' = <<>> /\ pos' = 0 /\ checked' = FALSE
    /\ smoother' = NewSmoother
    /\ decoder' = [NoDecoder EXCEPT !.pc = "run"] /\ stdout' = <<>>
    /\ encoder' = [NoEncoder EXCEPT !.pc = IF mode = "encode" THEN "run" ELSE "off"]
    /\ stdin' = <<>> /\ unflushed' = 0 /\ eof' = FALSE /\ output' = <<>>
    /\ UNCHANGED <<fixed, batch_size, raised, interrupted, faults>>

KeepFilling(list) == Len(list) <= batch_size       \* mutant: one frame too many
StillFilling(list) == Len(list) < batch_size

ReadFrame ==
    /\ py = "decode" /\ stdout # <<>>
    /\ stdout' = Tail(stdout)
    /\ batch' = Append(batch, Head(stdout))
    /\ py' = IF StillFilling(batch') THEN "decode" ELSE "yield"
    /\ UNCHANGED <<fixed, batch_size, raised, interrupted, held, pos, checked, smoother, unflushed,
                   decoder, encoder, stdin, eof, output, faults>>

\* A read returns nothing once every writer of the pipe is gone.
ReadEof ==
    /\ py = "decode" /\ stdout = <<>> /\ ~Alive(decoder)
    /\ py' = "check"
    /\ UNCHANGED <<fixed, batch_size, raised, interrupted, batch, held, pos, checked, smoother,
                   unflushed,
                   ffmpegs, faults>>

Throw(exception) == raised' = exception /\ py' = "close_writer"

DecodedAll == decoder.pc = "ok"

\* _check_exit, then the last batch if it is not empty.
CheckExit ==
    /\ py = "check"
    /\ \/ ~DecodedAll /\ Throw("error") /\ checked' = checked
       \/ DecodedAll /\ checked' = TRUE /\ raised' = raised
          /\ py' = IF batch = <<>> THEN "close_writer" ELSE "yield"
    /\ UNCHANGED <<fixed, batch_size, interrupted, batch, held, pos, smoother, unflushed,
                   ffmpegs, faults>>

\* process() binds its loop variable to the list it is given, and only then lets
\* go of the last one; from here the two names are of one list, until the
\* generator goes on with a new one.
Yield ==
    /\ py = "yield"
    /\ held' = batch /\ batch' = <<>> /\ pos' = 0
    /\ py' = "infer"
    /\ UNCHANGED <<fixed, batch_size, raised, interrupted, checked, smoother, unflushed,
                   ffmpegs, faults>>

Infer ==
    /\ py = "infer"
    /\ py' = "write"
    /\ UNCHANGED <<fixed, batch_size, raised, interrupted, batch, held, pos, checked, smoother,
                   unflushed,
                   ffmpegs, faults>>

\* The model runs out of memory, or inference or refinement fails otherwise.
InferFails ==
    /\ py = "infer"
    /\ Fault
    /\ \E exception \in {"oom", "error"} : Throw(exception)
    /\ UNCHANGED <<fixed, batch_size, interrupted, batch, held, pos, checked, smoother,
                   unflushed, ffmpegs>>

\* The alphas the smoother's buffer holds once it has taken this frame's.
Smoothed(frame) ==
    LET all == Append(smoother, frame) IN
    IF Len(all) > Window THEN Tail(all) ELSE all

Frame == held[pos + 1]

\* The pipe takes what Python holds for it and n frames more.
Takes(n) == Alive(encoder) /\ Len(stdin) + n <= StdinCap

\* Python's buffered writer holds back small frames until one does not fit, and
\* lets through the ones that are larger than its buffer.
Put ==
    \/ unflushed < fits /\ unflushed' = unflushed + 1
    \/ fits = 0 /\ Takes(1) /\ unflushed' = 0
    \/ fits > 0 /\ unflushed = fits /\ Takes(0) /\ unflushed' = 1

\* Smoothing, rendering and writing of one frame; the loop ends with the batch.
WriteFrame ==
    /\ py = "write" /\ pos < Len(held)
    /\ smoother' = Smoothed(Frame)
    /\ LET rendered == [frame |-> Frame, alphas |-> Smoothed(Frame)] IN
        \/ /\ mode = "encode" /\ Put
           /\ stdin' = Append(stdin, rendered) /\ output' = output
        \/ /\ mode = "frames" /\ output' = Append(output, rendered)
           /\ UNCHANGED <<stdin, unflushed>>
    /\ pos' = pos + 1
    /\ UNCHANGED <<fixed, batch_size, py, raised, interrupted, batch, held, checked,
                   decoder, stdout, encoder, eof, faults>>

BrokenPipe ==
    /\ py = "write" /\ pos < Len(held)
    /\ mode = "encode" /\ unflushed = fits /\ ~Alive(encoder)
    /\ Throw("error")
    /\ UNCHANGED <<fixed, batch_size, interrupted, batch, held, pos, checked, smoother, unflushed,
                   ffmpegs, faults>>

NextBatch ==
    /\ py = "write" /\ pos = Len(held)
    /\ py' = IF checked THEN "close_writer" ELSE "decode"
    /\ UNCHANGED <<fixed, batch_size, raised, interrupted, batch, held, pos, checked, smoother,
                   unflushed,
                   ffmpegs, faults>>

\* The soft time limit interrupts whatever the worker is doing or blocked in; the
\* actions below say what becomes of it while close() suppresses exceptions.
Interrupt ==
    /\ ~interrupted /\ Fault
    /\ interrupted' = TRUE
    /\ py \in {"decode", "check", "yield", "infer", "write"}
    /\ Throw("time_limit")
    /\ UNCHANGED <<fixed, batch_size, batch, held, pos, checked, smoother, unflushed, ffmpegs>>

-----------------------------------------------------------------------------
(* Leaving the two context managers, the writer's first *)

LeaveOpen  == eof                                  \* mutant: stdin is not closed
CloseStdin == TRUE

\* Closing the pipe flushes the buffer, and waits for room; close() suppresses the
\* error of an encoder that is gone.
CloseWriter ==
    /\ py = "close_writer"
    /\ unflushed > 0 /\ Alive(encoder) => Takes(0)
    /\ py' = IF mode = "encode" THEN "drain" ELSE "close_reader"
    /\ eof' = CloseStdin
    /\ unflushed' = IF Alive(encoder) THEN 0 ELSE unflushed
    /\ UNCHANGED <<fixed, batch_size, raised, interrupted, batch, held, pos, checked, smoother,
                   decoder, stdout, encoder, stdin, output, faults>>

\* It suppresses the soft time limit's exception too, and the pipe is closed
\* without the frames that had not found room by then.
InterruptClose ==
    /\ py = "close_writer" /\ mode = "encode"
    /\ ~interrupted /\ Fault
    /\ interrupted' = TRUE
    /\ \E lost \in 0 .. unflushed :
        /\ Len(stdin) - lost <= StdinCap
        /\ stdin' = SubSeq(stdin, 1, Len(stdin) - lost)
    /\ py' = "drain"
    /\ eof' = CloseStdin /\ unflushed' = 0
    /\ UNCHANGED <<fixed, batch_size, raised, batch, held, pos, checked, smoother,
                   decoder, stdout, encoder, output>>

\* stderr.read() takes what the encoder still has to say, until it exits.
DrainStderr ==
    /\ py = "drain" /\ encoder.err > 0
    /\ encoder' = [encoder EXCEPT !.err = 0]
    /\ UNCHANGED <<fixed, batch_size, worker, interrupted, decoder, stdout, stdin, eof, output,
                   faults>>

FailureToReport == IF raised = "none" /\ encoder.pc = "error" THEN "error" ELSE raised

Reap ==
    /\ py \in {"drain", "wait"} /\ ~Alive(encoder)
    /\ raised' = FailureToReport
    /\ py' = "close_reader"
    /\ UNCHANGED <<fixed, batch_size, interrupted, batch, held, pos, checked, smoother, unflushed,
                   ffmpegs, faults>>

\* close() suppresses the exception the soft time limit raises in its read, and
\* waits for the encoder without reading any more.
InterruptDrain ==
    /\ py = "drain"
    /\ ~interrupted /\ Fault
    /\ interrupted' = TRUE
    /\ py' = "wait"
    /\ UNCHANGED <<fixed, batch_size, raised, batch, held, pos, checked, smoother, unflushed,
                   ffmpegs>>

Leak      == decoder                               \* mutant: nobody terminates the decoder
Terminate == IF Alive(decoder) THEN [decoder EXCEPT !.pc = "error"] ELSE decoder

CloseReader ==
    /\ py = "close_reader"
    /\ decoder' = Terminate
    /\ py' = "ended"
    /\ UNCHANGED <<fixed, batch_size, raised, interrupted, batch, held, pos, checked, smoother,
                   unflushed,
                   stdout, encoder, stdin, eof, output, faults>>

-----------------------------------------------------------------------------
(* JobRunner._run_video *)

\* A frame sequence of no frames is a directory, which cannot be stored.
Deliverable == mode = "encode" \/ output # <<>>

CanShrink == raised = "oom" /\ batch_size > 1

\* process() has returned or raised, and its lists are gone.
Leave(next) ==
    /\ py = "ended" /\ py' = next
    /\ batch' = <<>> /\ held' = <<>> /\ pos' = 0
    /\ UNCHANGED <<fixed, interrupted, checked, smoother, unflushed, ffmpegs, faults>>

Deliver ==
    /\ raised = "none" /\ Deliverable
    /\ Leave("done")
    /\ UNCHANGED <<raised, batch_size>>

\* An out-of-memory failure is retried with half the batch, down to one frame.
OomRetry ==
    /\ CanShrink
    /\ Leave("start")
    /\ raised' = "none" /\ batch_size' = batch_size \div 2

Fail ==
    /\ IF raised = "none" THEN ~Deliverable ELSE ~CanShrink
    /\ Leave("failed")
    /\ UNCHANGED <<raised, batch_size>>

-----------------------------------------------------------------------------

Decoder == Decode \/ DecoderExits \/ DecoderComplains \/ DecoderLogs
Encoder == Encode \/ EncoderExits \/ EncoderComplains \/ EncoderLogs

Worker ==
    \/ Start \/ ReadFrame \/ ReadEof \/ CheckExit \/ Yield \/ Infer \/ InferFails \/ WriteFrame
    \/ BrokenPipe \/ NextBatch \/ CloseWriter \/ DrainStderr \/ Reap \/ CloseReader
    \/ Deliver \/ OomRetry \/ Fail

Next ==
    Decoder \/ Encoder \/ Worker \/ Interrupt \/ InterruptClose \/ InterruptDrain

Spec == Init /\ [][Next]_vars

\* The operating system runs all three processes, and each ffmpeg goes on as
\* long as it can read and write.
FairSpec == Spec /\ WF_vars(Decoder) /\ WF_vars(Encoder) /\ WF_vars(Worker)

-----------------------------------------------------------------------------

\* What a pass that nothing disturbs writes for frame k: the frame, with its
\* alpha smoothed over the last Window alphas of the same pass.
Expected(k) ==
    [frame  |-> k,
     alphas |-> [i \in 1 .. (IF k < Window THEN k ELSE Window) |->
                   IF k < Window THEN i ELSE k - Window + i]]

Whole == [k \in 1 .. source |-> Expected(k)]

\* A job that ends well delivers the frames of the source once and in order, each
\* smoothed from its predecessors, whatever the batch size, the retries after
\* running out of memory, and what they had written or buffered; and every frame,
\* but for the last ones in Python's buffer when close() swallowed the soft limit.
DeliversVideo ==
    py = "done" =>
        /\ output = SubSeq(Whole, 1, Len(output))
        /\ IF interrupted THEN Len(output) + fits >= source ELSE output = Whole

\* The worker holds at most two batches, which it does when _batched has filled a
\* list and process() still has the last one; also after a retry halved the batch.
HoldsTwoBatches == Len(batch) + Len(held) <= 2 * batch_size

\* When the worker is finished with a video no ffmpeg of it is left.
NoOrphans == py \in {"ended", "done", "failed"} => ~Alive(decoder) /\ ~Alive(encoder)

Stuck(p) == p.pc = "logging" /\ p.err = StderrCap

\* The pipeline ends, unless an ffmpeg has more to say than its stderr pipe holds
\* while nobody reads it.
HangsOnlyOnStderr == <>(py \in {"done", "failed"}) \/ <>[](Stuck(decoder) \/ Stuck(encoder))
=============================================================================
