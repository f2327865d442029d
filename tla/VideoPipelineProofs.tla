------------------------- MODULE VideoPipelineProofs -------------------------
(***************************************************************************)
(* What VideoPipeline promises for every source, batch size, window, pipe  *)
(* and bound: its types, the frames it holds at once, that no ffmpeg       *)
(* outlives it, and that the video it delivers is whole and in order.      *)
(***************************************************************************)
EXTENDS VideoPipeline, SequenceTheorems, TLAPS


(* Memory: neither list exceeds the batch size, and a full one is handed over
   before another frame is read. *)
ListsBounded ==
    /\ Len(batch) <= batch_size /\ Len(held) <= batch_size
    /\ py \in {"decode", "check"} => Len(batch) < batch_size
    /\ py \in {"infer", "write"} => Len(batch) = 0

(* Children: what is left of the two processes at the end of a pass. *)
ChildrenReaped ==
    /\ mode = "frames" => encoder.pc = "off"
    /\ py = "close_reader" => ~Alive(encoder)
    /\ NoOrphans

(* Frames the worker has read, and frames it has written. *)
Received == decoder.sent - Len(stdout)
Written  == Len(output) + Len(stdin)

(* The pipe holds the last frames sent, and an ffmpeg that exits well sent all. *)
DecodedInOrder ==
    /\ decoder.sent <= source
    /\ Len(stdout) <= decoder.sent
    /\ \A i \in 1 .. Len(stdout) : stdout[i] = Received + i
    /\ decoder.pc = "ok" => decoder.sent = source
    /\ py = "check" => stdout = <<>> /\ ~Alive(decoder)
    /\ checked => stdout = <<>> /\ decoder.pc = "ok"

(* The frames between those written and those read are in the worker's list. *)
ListsInOrder ==
    /\ py \in {"decode", "check"} => ~checked
    /\ py \in {"decode", "check", "yield"} =>
        /\ Written + Len(batch) = Received
        /\ \A i \in 1 .. Len(batch) : batch[i] = Written + i
    /\ py \in {"infer", "write"} =>
        /\ batch = <<>>
        /\ Written + Len(held) = Received + pos
        /\ \A i \in pos + 1 .. Len(held) : held[i] = Written + i - pos

Recent(k) == Expected(k).alphas

(* What was written is what an undisturbed pass writes. *)
WrittenInOrder ==
    /\ \A k \in 1 .. Len(output) : output[k] = Expected(k)
    /\ \A k \in 1 .. Len(stdin) : stdin[k] = Expected(Len(output) + k)
    /\ py \in {"decode", "check", "yield", "infer", "write"} => smoother = Recent(Written)

Closing == {"close_writer", "drain", "wait", "close_reader", "ended", "done"}

Open    == py \in {"decode", "check", "yield", "infer", "write", "close_writer"}

(* A pass that ends without an exception wrote everything, and its encoder took it,
   but for what was in Python's buffer when an interrupt was suppressed. *)
EndsWhole ==
    /\ py \in Closing /\ raised = "none" =>
        /\ Written <= source /\ source <= Written + fits
        /\ ~interrupted \/ py = "close_writer" => Written = source
    /\ Open => ~eof
    /\ py = "done" => raised = "none"
    /\ mode = "frames" => stdin = <<>>
    /\ encoder.pc = "ok" => eof /\ stdin = <<>>
    /\ mode = "encode" /\ py # "start" => encoder.pc # "off"
    /\ mode = "encode" /\ raised = "none" /\ py \in {"close_reader", "ended", "done"} =>
           encoder.pc = "ok"

-----------------------------------------------------------------------------
(* What the steps leave alone *)

Lists == <<batch, held, pos, smoother, unflushed>>

\* The ffmpegs do not touch the worker, nor each other.
LEMMA DecoderAlone ==
    Decoder => UNCHANGED <<source, mode, fits, batch_size, py, raised, interrupted, Lists, checked,
                           encoder, stdin, eof, output>>
  <1> USE DEF worker, fixed, Lists
  <1>1. CASE Decode            BY <1>1 DEF Decode
  <1>2. CASE DecoderExits      BY <1>2 DEF DecoderExits
  <1>3. CASE DecoderComplains  BY <1>3 DEF DecoderComplains
  <1>4. CASE DecoderLogs       BY <1>4 DEF DecoderLogs
  <1> QED  BY <1>1, <1>2, <1>3, <1>4 DEF Decoder

LEMMA EncoderAlone ==
    Encoder => UNCHANGED <<source, mode, fits, batch_size, py, raised, interrupted, Lists, checked,
                           decoder, stdout, eof>>
  <1> USE DEF worker, fixed, Lists
  <1>1. CASE Encode            BY <1>1 DEF Encode
  <1>2. CASE EncoderExits      BY <1>2 DEF EncoderExits
  <1>3. CASE EncoderComplains  BY <1>3 DEF EncoderComplains
  <1>4. CASE EncoderLogs       BY <1>4 DEF EncoderLogs
  <1> QED  BY <1>1, <1>2, <1>3, <1>4 DEF Encoder

\* Steps of the worker that move no frame and speak to no ffmpeg.
Turn == ReadEof \/ Infer \/ InferFails \/ BrokenPipe \/ NextBatch \/ Interrupt
Exit == Reap \/ InterruptDrain
Run  == Deliver \/ OomRetry \/ Fail

LEMMA TurnAlone ==
    Turn \/ Exit => UNCHANGED <<source, mode, fits, batch_size, Lists, checked,
                                decoder, stdout, encoder, stdin, eof, output>>
  <1> USE DEF ffmpegs, fixed, Lists
  <1>1. CASE ReadEof         BY <1>1 DEF ReadEof
  <1>2. CASE Infer           BY <1>2 DEF Infer
  <1>3. CASE InferFails      BY <1>3 DEF InferFails
  <1>4. CASE BrokenPipe      BY <1>4 DEF BrokenPipe
  <1>5. CASE NextBatch       BY <1>5 DEF NextBatch
  <1>6. CASE Interrupt       BY <1>6 DEF Interrupt
  <1>7. CASE Reap            BY <1>7 DEF Reap
  <1>8. CASE InterruptDrain  BY <1>8 DEF InterruptDrain
  <1> QED  BY <1>1, <1>2, <1>3, <1>4, <1>5, <1>6, <1>7, <1>8 DEF Turn, Exit

LEMMA RunAlone ==
    Run => /\ UNCHANGED <<source, mode, fits, smoother, unflushed, checked, decoder, stdout, encoder, stdin, eof,
                          output>>
           /\ py = "ended" /\ py' \in {"start", "done", "failed"}
           /\ batch' = <<>> /\ held' = <<>> /\ pos' = 0
           /\ py' = "done" => raised = "none" /\ raised' = "none"
  <1> USE DEF ffmpegs, fixed, Leave
  <1>1. CASE Deliver   BY <1>1 DEF Deliver
  <1>2. CASE OomRetry  BY <1>2 DEF OomRetry
  <1>3. CASE Fail      BY <1>3 DEF Fail
  <1> QED  BY <1>1, <1>2, <1>3 DEF Run

\* Where the worker goes when it moves no frame.
LEMMA TurnIs ==
    Turn => /\ py \in {"decode", "check", "yield", "infer", "write"}
            /\ \/ py = "decode" /\ py' = "check" /\ stdout = <<>> /\ ~Alive(decoder)
               \/ py = "infer" /\ py' = "write"
               \/ /\ py = "write" /\ pos = Len(held) /\ raised' = raised
                  /\ py' = IF checked THEN "close_writer" ELSE "decode"
               \/ py' = "close_writer" /\ raised' # "none"
  <1>1. CASE ReadEof     BY <1>1 DEF ReadEof
  <1>2. CASE Infer       BY <1>2 DEF Infer
  <1>3. CASE InferFails  BY <1>3 DEF InferFails, Throw
  <1>4. CASE BrokenPipe  BY <1>4 DEF BrokenPipe, Throw
  <1>5. CASE NextBatch   BY <1>5 DEF NextBatch
  <1>6. CASE Interrupt   BY <1>6 DEF Interrupt, Throw
  <1> QED  BY <1>1, <1>2, <1>3, <1>4, <1>5, <1>6 DEF Turn

LEMMA ExitIs ==
    Exit => /\ py \in {"drain", "wait"} /\ (raised' = "none" => raised = "none")
            /\ \/ py' = "wait"
               \/ /\ py' = "close_reader" /\ ~Alive(encoder)
                  /\ raised' = "none" => encoder.pc # "error"
  <1>1. CASE Reap            BY <1>1 DEF Reap, FailureToReport
  <1>2. CASE InterruptDrain  BY <1>2 DEF InterruptDrain
  <1> QED  BY <1>1, <1>2 DEF Exit

\* The actions of Next by what they can disturb.
LEMMA Steps ==
    ASSUME [Next]_vars
    PROVE  \/ Decoder \/ Encoder \/ Turn \/ Exit \/ Run
           \/ Start \/ ReadFrame \/ CheckExit \/ Yield \/ WriteFrame
           \/ CloseWriter \/ InterruptClose \/ DrainStderr \/ CloseReader
           \/ UNCHANGED vars
  BY DEF Next, Worker, Turn, Exit, Run

LEMMA Stutter ==
    UNCHANGED vars =>
        UNCHANGED <<source, mode, fits, batch_size, py, raised, interrupted, Lists, checked,
                    decoder, stdout, encoder, stdin, eof, output, faults>>
  BY DEF vars, fixed, worker, ffmpegs, Lists

-----------------------------------------------------------------------------
(* Types *)

LEMMA InitTyped == Init => TypeOK
  <1> SUFFICES ASSUME Init PROVE TypeOK
    OBVIOUS
  <1>1. ControlOK
    <2>1. InitialBatch \in 1 .. InitialBatch /\ 0 \in 0 .. MaxFaults
      BY PipelineAssumption DEF PipelineAssumption
    <2> QED  BY <2>1 DEF ControlOK, Init
  <1>2. ListsOK    BY DEF ListsOK, Init
  <1>3. PipesOK
    BY PipelineAssumption DEF PipelineAssumption, Init, PipesOK, NoDecoder, NoEncoder,
       DecoderState, EncoderState, Gone
  <1> QED  BY <1>1, <1>2, <1>3 DEF TypeOK

\* A fault is one of at most MaxFaults.
LEMMA FaultTyped == ControlOK /\ Fault => faults' \in 0 .. MaxFaults
  BY PipelineAssumption DEF PipelineAssumption, ControlOK, Fault

LEMMA ControlTyped ==
    ASSUME TypeOK, [Next]_vars
    PROVE  ControlOK'
  <1> USE DEF TypeOK
  <1>1. CASE Decoder
    <2>1. faults' \in 0 .. MaxFaults
      BY <1>1, FaultTyped DEF Decoder, Decode, DecoderExits, DecoderComplains, DecoderLogs, ControlOK
    <2> QED  BY <1>1, <2>1, DecoderAlone DEF ControlOK, Lists
  <1>2. CASE Encoder
    <2>1. faults' \in 0 .. MaxFaults
      BY <1>2, FaultTyped DEF Encoder, Encode, EncoderExits, EncoderComplains, EncoderLogs, ControlOK
    <2> QED  BY <1>2, <2>1, EncoderAlone DEF ControlOK, Lists
  <1>3. CASE Turn
    <2> USE DEF ControlOK, fixed, ffmpegs
    <2>1. CASE ReadEof                  BY <2>1 DEF ReadEof
    <2>2. CASE Infer \/ NextBatch       BY <2>2 DEF Infer, NextBatch
    <2>3. CASE InferFails               BY <2>3, FaultTyped DEF InferFails, Throw
    <2>4. CASE BrokenPipe               BY <2>4 DEF BrokenPipe, Throw
    <2>5. CASE Interrupt                BY <2>5, FaultTyped DEF Interrupt, Throw
    <2> QED  BY <1>3, <2>1, <2>2, <2>3, <2>4, <2>5 DEF Turn
  <1>4. CASE Exit
    <2> USE DEF ControlOK, fixed, ffmpegs
    <2>1. CASE Reap            BY <2>1 DEF Reap, FailureToReport
    <2>2. CASE InterruptDrain  BY <2>2, FaultTyped DEF InterruptDrain
    <2> QED  BY <1>4, <2>1, <2>2 DEF Exit
  <1>5. CASE Run
    <2>1. batch_size' \in 1 .. InitialBatch
      <3>1. CASE OomRetry
        BY <3>1, PipelineAssumption DEF PipelineAssumption, OomRetry, CanShrink, ControlOK
      <3>2. CASE Deliver \/ Fail
        BY <3>2 DEF Deliver, Fail, ControlOK
      <3> QED  BY <1>5, <3>1, <3>2 DEF Run
    <2>2. raised' \in {"none", "oom", "error", "time_limit"} /\ UNCHANGED <<interrupted, faults>>
      BY <1>5 DEF Run, Deliver, OomRetry, Fail, Leave, ControlOK
    <2> QED  BY <1>5, <2>1, <2>2, RunAlone DEF ControlOK
  <1>6. CASE Start        BY <1>6 DEF Start, ControlOK, fixed
  <1>7. CASE ReadFrame    BY <1>7 DEF ReadFrame, ControlOK, fixed
  <1>8. CASE CheckExit    BY <1>8 DEF CheckExit, Throw, ControlOK, fixed, ffmpegs
  <1>9. CASE WriteFrame   BY <1>9 DEF WriteFrame, ControlOK, fixed
  <1>10. CASE CloseWriter BY <1>10 DEF CloseWriter, CloseStdin, ControlOK, fixed
  <1>11. CASE DrainStderr BY <1>11 DEF DrainStderr, ControlOK, fixed, worker
  <1>12. CASE CloseReader BY <1>12 DEF CloseReader, ControlOK, fixed
  <1>13. CASE Yield       BY <1>13 DEF Yield, ControlOK, fixed, ffmpegs
  <1>14. CASE InterruptClose
    BY <1>14, FaultTyped DEF InterruptClose, CloseStdin, ControlOK, fixed
  <1>15. CASE UNCHANGED vars
    BY <1>15, Stutter DEF ControlOK, Lists
  <1> QED
    BY Steps, <1>1, <1>2, <1>3, <1>4, <1>5, <1>6, <1>7, <1>8, <1>9, <1>10, <1>11, <1>12, <1>13,
       <1>14, <1>15

LEMMA SmoothedTyped ==
    ASSUME NEW frame \in Frames, smoother \in Seq(Frames)
    PROVE  Smoothed(frame) \in Seq(Frames)
  <1>1. Append(smoother, frame) \in Seq(Frames) /\ Append(smoother, frame) # <<>>
    BY AppendProperties
  <1>2. Tail(Append(smoother, frame)) \in Seq(Frames)
    BY <1>1, HeadTailProperties
  <1> QED  BY <1>1, <1>2 DEF Smoothed

\* The frame that WriteFrame takes, and what it makes of it.
Rendered == [frame |-> Frame, alphas |-> Smoothed(Frame)]

LEMMA RenderedTyped ==
    ASSUME ListsOK, pos < Len(held)
    PROVE  /\ Frame \in Frames /\ Smoothed(Frame) \in Seq(Frames)
           /\ Rendered \in Outputs
  <1>1. Frame \in Frames  BY DEF Frame, ListsOK
  <1>2. Smoothed(Frame) \in Seq(Frames)  BY <1>1, SmoothedTyped DEF ListsOK
  <1> QED  BY <1>1, <1>2 DEF Rendered, Outputs

LEMMA WriteFrameIs ==
    WriteFrame =>
        /\ py = "write" /\ pos < Len(held) /\ pos' = pos + 1
        /\ smoother' = Smoothed(Frame)
        /\ \/ /\ mode = "encode" /\ Put
              /\ stdin' = Append(stdin, Rendered) /\ output' = output
           \/ /\ mode = "frames" /\ output' = Append(output, Rendered)
              /\ stdin' = stdin /\ unflushed' = unflushed
        /\ UNCHANGED <<source, mode, fits, batch_size, py, raised, batch, held, checked,
                       decoder, stdout, encoder, eof, interrupted>>
  BY DEF WriteFrame, Rendered, fixed

LEMMA ReadFrameIs ==
    ReadFrame =>
        /\ py = "decode" /\ stdout # <<>> /\ stdout' = Tail(stdout)
        /\ batch' = Append(batch, Head(stdout))
        /\ \/ py' = "decode" /\ Len(batch') < batch_size
           \/ py' = "yield"
        /\ UNCHANGED <<held, pos, source, mode, fits, batch_size, raised, interrupted, checked, smoother,
                       unflushed, decoder, encoder, stdin, eof, output>>
  BY DEF ReadFrame, StillFilling, fixed

LEMMA YieldIs ==
    Yield =>
        /\ py = "yield" /\ py' = "infer"
        /\ held' = batch /\ batch' = <<>> /\ pos' = 0
        /\ UNCHANGED <<source, mode, fits, batch_size, raised, interrupted, checked, smoother,
                       unflushed, decoder, stdout, encoder, stdin, eof, output>>
  BY DEF Yield, fixed, ffmpegs

LEMMA CheckExitIs ==
    CheckExit =>
        /\ py = "check"
        /\ \/ raised' = "error" /\ py' = "close_writer" /\ checked' = checked
           \/ /\ decoder.pc = "ok" /\ checked' = TRUE /\ raised' = raised
              /\ \/ batch # <<>> /\ py' = "yield"
                 \/ batch = <<>> /\ py' = "close_writer"
        /\ UNCHANGED <<source, mode, fits, batch_size, interrupted, Lists,
                       decoder, stdout, encoder, stdin, eof, output>>
  BY DEF CheckExit, Throw, DecodedAll, fixed, ffmpegs, Lists

LEMMA StartIs ==
    Start =>
        /\ py = "start" /\ py' = "decode"
        /\ batch' = <<>> /\ held' = <<>> /\ pos' = 0 /\ checked' = FALSE /\ smoother' = <<>>
        /\ decoder' = [pc |-> "run", sent |-> 0, log |-> 0, err |-> 0] /\ stdout' = <<>>
        /\ encoder' = [pc |-> IF mode = "encode" THEN "run" ELSE "off", log |-> 0, err |-> 0]
        /\ stdin' = <<>> /\ output' = <<>> /\ unflushed' = 0 /\ eof' = FALSE
        /\ UNCHANGED <<source, mode, fits, batch_size, raised, interrupted>>
  BY DEF Start, NewSmoother, NoDecoder, NoEncoder, fixed

LEMMA ListsTyped ==
    ASSUME TypeOK, [Next]_vars
    PROVE  ListsOK'
  <1> USE DEF TypeOK
  <1>1. CASE Decoder \/ Encoder \/ Turn \/ Exit
    BY <1>1, DecoderAlone, EncoderAlone, TurnAlone DEF ListsOK, Lists
  <1>2. CASE Run          BY <1>2, RunAlone DEF ListsOK
  <1>3. CASE Start        BY <1>3, StartIs DEF ListsOK
  <1>4. CASE ReadFrame
    <2>1. Append(batch, Head(stdout)) \in Seq(Frames)
      BY <1>4, ReadFrameIs DEF ListsOK, PipesOK
    <2> QED  BY <1>4, <2>1, ReadFrameIs DEF ListsOK
  <1>5. CASE Yield
    <2>1. batch' = <<>> /\ held' = batch /\ pos' = 0 /\ smoother' = smoother
      BY <1>5, YieldIs
    <2>2. <<>> \in Seq(Frames) /\ Len(batch) \in Nat
      BY EmptySeq, LenProperties DEF ListsOK
    <2> QED  BY <2>1, <2>2 DEF ListsOK
  <1>6. CASE WriteFrame
    <2>1. smoother' \in Seq(Frames)  BY <1>6, WriteFrameIs, RenderedTyped
    <2>2. pos' \in Nat /\ pos' <= Len(held)  BY <1>6, WriteFrameIs DEF ListsOK
    <2> QED  BY <1>6, <2>1, <2>2, WriteFrameIs DEF ListsOK
  <1>7. CASE CheckExit    BY <1>7, CheckExitIs DEF ListsOK, Lists
  <1>8. CASE CloseWriter \/ InterruptClose \/ DrainStderr \/ CloseReader \/ UNCHANGED vars
    BY <1>8, Stutter
       DEF CloseWriter, InterruptClose, DrainStderr, CloseReader, worker, Lists, ListsOK
  <1> QED  BY Steps, <1>1, <1>2, <1>3, <1>4, <1>5, <1>6, <1>7, <1>8

\* An ffmpeg's record with another pc, and one message or frame more.
LEMMA FfmpegTyped ==
    ASSUME PipesOK, NEW pc \in Gone \cup {"run", "logging"}
    PROVE  /\ [decoder EXCEPT !.pc = pc] \in DecoderState
           /\ [encoder EXCEPT !.pc = pc] \in EncoderState
           /\ [encoder EXCEPT !.err = 0] \in EncoderState
           /\ [decoder EXCEPT !.pc = pc, !.log = @ + 1] \in DecoderState
           /\ [encoder EXCEPT !.pc = pc, !.log = @ + 1] \in EncoderState
           /\ decoder.err < StderrCap => [decoder EXCEPT !.pc = pc, !.err = @ + 1] \in DecoderState
           /\ encoder.err < StderrCap => [encoder EXCEPT !.pc = pc, !.err = @ + 1] \in EncoderState
  <1>1. decoder \in DecoderState /\ encoder \in EncoderState  BY DEF PipesOK
  <1>2. 0 \in 0 .. StderrCap  BY PipelineAssumption DEF PipelineAssumption
  <1>3. /\ decoder.log + 1 \in Nat
        /\ decoder.err < StderrCap => decoder.err + 1 \in 0 .. StderrCap
    BY <1>1, PipelineAssumption DEF PipelineAssumption, DecoderState
  <1>4. /\ encoder.log + 1 \in Nat
        /\ encoder.err < StderrCap => encoder.err + 1 \in 0 .. StderrCap
    BY <1>1, PipelineAssumption DEF PipelineAssumption, EncoderState
  <1>5. /\ [decoder EXCEPT !.pc = pc] \in DecoderState
        /\ [decoder EXCEPT !.pc = pc, !.log = @ + 1] \in DecoderState
        /\ decoder.err < StderrCap => [decoder EXCEPT !.pc = pc, !.err = @ + 1] \in DecoderState
    BY <1>1, <1>3 DEF DecoderState
  <1>6. /\ [encoder EXCEPT !.pc = pc] \in EncoderState
        /\ [encoder EXCEPT !.err = 0] \in EncoderState
        /\ [encoder EXCEPT !.pc = pc, !.log = @ + 1] \in EncoderState
        /\ encoder.err < StderrCap => [encoder EXCEPT !.pc = pc, !.err = @ + 1] \in EncoderState
    BY <1>1, <1>2, <1>4 DEF EncoderState
  <1> QED  BY <1>5, <1>6

LEMMA Sizes ==
    ASSUME TypeOK
    PROVE  /\ fits \in Nat /\ unflushed \in Nat /\ Len(stdin) \in Nat /\ StdinCap \in Nat
           /\ unflushed <= fits /\ unflushed <= Len(stdin) /\ Len(stdin) <= StdinCap + unflushed
  <1>1. fits \in Nat /\ StdinCap \in Nat
    BY PipelineAssumption DEF PipelineAssumption, TypeOK, ControlOK
  <1>2. Len(stdin) \in Nat  BY LenProperties DEF TypeOK, PipesOK
  <1> QED  BY <1>1, <1>2 DEF TypeOK, PipesOK

\* A frame more, in the buffer or in the pipe.
LEMMA PutIs ==
    ASSUME TypeOK, Put
    PROVE  /\ unflushed' \in 0 .. fits /\ unflushed' <= Len(stdin) + 1
           /\ Len(stdin) + 1 <= StdinCap + unflushed'
           /\ unflushed < fits \/ Alive(encoder)
  <1>1. CASE unflushed < fits /\ unflushed' = unflushed + 1
    BY <1>1, Sizes
  <1>2. CASE fits = 0 /\ Takes(1) /\ unflushed' = 0
    BY <1>2, Sizes DEF Takes
  <1>3. CASE fits > 0 /\ unflushed = fits /\ Takes(0) /\ unflushed' = 1
    BY <1>3, Sizes DEF Takes
  <1> QED  BY <1>1, <1>2, <1>3 DEF Put

\* What close() leaves of the frames that were not in the pipe yet.
LEMMA InterruptCloseIs ==
    ASSUME TypeOK, InterruptClose
    PROVE  /\ py = "close_writer" /\ py' = "drain" /\ mode = "encode"
           /\ unflushed' = 0 /\ interrupted' /\ Len(stdin') <= StdinCap
           /\ stdin' \in Seq(Outputs) /\ Len(stdin') \in Nat
           /\ Len(stdin') <= Len(stdin) /\ Len(stdin) <= Len(stdin') + fits
           /\ \A k \in 1 .. Len(stdin') : stdin'[k] = stdin[k]
           /\ UNCHANGED <<source, mode, fits, batch_size, raised, batch, held, pos, checked, smoother,
                          decoder, stdout, encoder, output>>
  <1>1. PICK lost \in 0 .. unflushed : /\ stdin' = SubSeq(stdin, 1, Len(stdin) - lost)
                                   /\ Len(stdin) - lost <= StdinCap
    BY DEF InterruptClose
  <1>2. stdin \in Seq(Outputs)  BY DEF TypeOK, PipesOK
  <1> DEFINE n == Len(stdin) - lost
  <1>3. n \in Nat /\ n <= Len(stdin) /\ Len(stdin) <= n + fits  BY <1>1, Sizes
  <1>5. n <= StdinCap  BY <1>1
  <1> HIDE DEF n
  <1>4. /\ stdin' \in Seq(Outputs) /\ Len(stdin') = n
        /\ \A k \in 1 .. n : stdin'[k] = stdin[k]
    BY <1>1, <1>2, <1>3, SubSeqProperties DEF n
  <1> QED  BY <1>3, <1>4, <1>5 DEF InterruptClose, fixed

LEMMA PipesTyped ==
    ASSUME TypeOK, [Next]_vars
    PROVE  PipesOK'
  <1> USE DEF TypeOK
  <1>1. CASE Decoder
    <2>1. decoder' \in DecoderState
      <3>1. CASE Decode
        <4>3. decoder.sent \in Nat /\ source <= MaxFrames /\ decoder.sent < source
          BY <3>1 DEF ControlOK, PipesOK, DecoderState, Decode
        <4>1. decoder.sent + 1 \in 0 .. MaxFrames
          BY <4>3, PipelineAssumption DEF PipelineAssumption, ControlOK
        <4>2. decoder' = [decoder EXCEPT !.sent = decoder.sent + 1]  BY <3>1 DEF Decode
        <4> QED  BY <4>1, <4>2 DEF PipesOK, DecoderState
      <3>2. CASE DecoderExits  BY <3>2, FfmpegTyped DEF DecoderExits, Gone
      <3>3. CASE DecoderComplains  BY <3>3, FfmpegTyped DEF DecoderComplains
      <3>4. CASE DecoderLogs  BY <3>4, FfmpegTyped DEF DecoderLogs
      <3> QED  BY <1>1, <3>1, <3>2, <3>3, <3>4 DEF Decoder
    <2>2. stdout' \in Seq(Frames) /\ Len(stdout') <= StdoutCap
      <3>1. CASE Decode
        <4>1. decoder.sent \in Nat /\ source <= MaxFrames /\ decoder.sent < source
          BY <3>1 DEF ControlOK, PipesOK, DecoderState, Decode
        <4>3. decoder.sent + 1 \in Frames
          BY <4>1, PipelineAssumption DEF PipelineAssumption, ControlOK, Frames
        <4>2. stdout' = Append(stdout, decoder.sent + 1) /\ Len(stdout) < StdoutCap
          BY <3>1 DEF Decode
        <4> QED  BY <4>2, <4>3, PipelineAssumption DEF PipelineAssumption, PipesOK
      <3>2. CASE UNCHANGED stdout  BY <3>2 DEF PipesOK
      <3> QED
        BY <1>1, <3>1, <3>2 DEF Decoder, DecoderExits, DecoderComplains, DecoderLogs
    <2> QED  BY <1>1, <2>1, <2>2, DecoderAlone DEF PipesOK, Lists
  <1>2. CASE Encoder
    <2>1. encoder' \in EncoderState
      <3>1. CASE Encode  BY <3>1 DEF Encode, PipesOK
      <3>2. CASE EncoderExits  BY <3>2, FfmpegTyped DEF EncoderExits, Gone
      <3>3. CASE EncoderComplains  BY <3>3, FfmpegTyped DEF EncoderComplains
      <3>4. CASE EncoderLogs  BY <3>4, FfmpegTyped DEF EncoderLogs
      <3> QED  BY <1>2, <3>1, <3>2, <3>3, <3>4 DEF Encoder
    <2>3. unflushed' = unflushed /\ fits' = fits  BY <1>2, EncoderAlone DEF Lists
    <2>2. /\ stdin' \in Seq(Outputs) /\ output' \in Seq(Outputs)
          /\ Len(stdin') <= StdinCap + unflushed /\ unflushed <= Len(stdin')
      <3>1. CASE Encode
        <4>1. stdin # <<>> /\ Len(stdin) >= 1  BY <3>1, Sizes, EmptySeq DEF Encode
        <4>2. /\ Head(stdin) \in Outputs /\ Tail(stdin) \in Seq(Outputs)
              /\ Len(Tail(stdin)) = Len(stdin) - 1
          BY <4>1, HeadTailProperties DEF PipesOK
        <4> QED  BY <3>1, <4>1, <4>2, Sizes, AppendProperties DEF Encode, PipesOK
      <3>2. CASE UNCHANGED <<stdin, output>>  BY <3>2 DEF PipesOK
      <3> QED
        BY <1>2, <3>1, <3>2 DEF Encoder, EncoderExits, EncoderComplains, EncoderLogs
    <2> QED  BY <1>2, <2>1, <2>2, <2>3, EncoderAlone DEF PipesOK
  <1>3. CASE Turn \/ Exit \/ Run
    BY <1>3, TurnAlone, RunAlone DEF PipesOK, Lists
  <1>4. CASE Start
    <2>1. decoder' \in DecoderState /\ encoder' \in EncoderState
      BY <1>4, StartIs, PipelineAssumption DEF PipelineAssumption, DecoderState, EncoderState, Gone
    <2>2. Len(<<>>) = 0  BY EmptySeq
    <2> QED  BY <1>4, <2>1, <2>2, StartIs, Sizes, PipelineAssumption DEF PipelineAssumption, PipesOK
  <1>5. CASE ReadFrame
    <2>1. stdout' \in Seq(Frames) /\ Len(stdout') <= StdoutCap
      <3>1. stdout # <<>> /\ stdout' = Tail(stdout)  BY <1>5, ReadFrameIs
      <3> QED  BY <3>1, PipelineAssumption DEF PipelineAssumption, PipesOK
    <2> QED  BY <1>5, <2>1, ReadFrameIs DEF PipesOK
  <1>6. CASE CheckExit \/ Yield  BY <1>6, CheckExitIs, YieldIs DEF PipesOK, Lists
  <1>7. CASE WriteFrame
    <2>1. /\ stdin' \in Seq(Outputs) /\ output' \in Seq(Outputs)
          /\ Len(stdin') <= StdinCap + unflushed'
          /\ unflushed' \in 0 .. fits /\ unflushed' <= Len(stdin')
      <3>1. Rendered \in Outputs  BY <1>7, WriteFrameIs, RenderedTyped
      <3>2. \/ Put /\ stdin' = Append(stdin, Rendered) /\ output' = output
            \/ output' = Append(output, Rendered) /\ stdin' = stdin /\ unflushed' = unflushed
        BY <1>7, WriteFrameIs
      <3>3. CASE Put /\ stdin' = Append(stdin, Rendered) /\ output' = output
        <4>1. stdin' \in Seq(Outputs) /\ Len(stdin') = Len(stdin) + 1
          BY <3>1, <3>3, AppendProperties DEF PipesOK
        <4> QED  BY <3>3, <4>1, PutIs DEF PipesOK
      <3>4. CASE output' = Append(output, Rendered) /\ stdin' = stdin /\ unflushed' = unflushed
        BY <3>1, <3>4, AppendProperties DEF PipesOK
      <3> QED  BY <3>2, <3>3, <3>4
    <2> QED  BY <1>7, <2>1, WriteFrameIs DEF PipesOK
  <1>8. CASE CloseWriter
    BY <1>8, Sizes DEF CloseWriter, Takes, PipesOK, fixed
  <1>9. CASE DrainStderr  BY <1>9, FfmpegTyped DEF DrainStderr, PipesOK, fixed, worker
  <1>10. CASE CloseReader
    <2>1. decoder' \in DecoderState
      BY <1>10, FfmpegTyped DEF CloseReader, Terminate, PipesOK, Gone
    <2> QED  BY <1>10, <2>1 DEF CloseReader, PipesOK, fixed
  <1>11. CASE UNCHANGED vars  BY <1>11, Stutter DEF PipesOK, Lists
  <1>12. CASE InterruptClose
    <2>1. fits \in Nat /\ StdinCap \in Nat  BY Sizes
    <2> QED  BY <1>12, <2>1, InterruptCloseIs DEF PipesOK
  <1> QED
    BY Steps, <1>1, <1>2, <1>3, <1>4, <1>5, <1>6, <1>7, <1>8, <1>9, <1>10, <1>11, <1>12

LEMMA NextTyped == TypeOK /\ [Next]_vars => TypeOK'
  BY ControlTyped, ListsTyped, PipesTyped DEF TypeOK

\* Every variable of the pipeline keeps its type: in particular the batch size
\* stays between 1 and the one asked for, however often memory runs out.
THEOREM PipelineTyped == Spec => []TypeOK
  BY InitTyped, NextTyped, PTL DEF Spec

-----------------------------------------------------------------------------
(* Memory *)

LEMMA NextBounded ==
    ASSUME TypeOK, TypeOK', ListsBounded, [Next]_vars
    PROVE  ListsBounded'
  <1> USE DEF ListsBounded
  <1>1. batch_size \in Nat \ {0} /\ batch_size' \in Nat \ {0} /\ Len(batch) \in Nat
    BY LenProperties, PipelineAssumption DEF PipelineAssumption, TypeOK, ControlOK, ListsOK
  <1>2. Len(<<>>) = 0  BY EmptySeq
  <1>3. CASE Decoder \/ Encoder \/ Turn \/ Exit
    BY <1>1, <1>3, DecoderAlone, EncoderAlone, TurnAlone, TurnIs, ExitIs DEF Lists
  <1>4. CASE Run    BY <1>1, <1>2, <1>4, RunAlone
  <1>5. CASE Start  BY <1>1, <1>2, <1>5, StartIs
  <1>6. CASE ReadFrame
    <2>1. Len(batch') = Len(batch) + 1
      <3>1. Head(stdout) \in Frames
        BY <1>6, ReadFrameIs, HeadTailProperties DEF TypeOK, PipesOK
      <3> QED  BY <1>6, <3>1, ReadFrameIs, AppendProperties DEF TypeOK, ListsOK
    <2>2. /\ Len(batch) < batch_size /\ batch_size' = batch_size /\ held' = held
          /\ py' = "yield" \/ (py' = "decode" /\ Len(batch') < batch_size)
      BY <1>6, ReadFrameIs
    <2> QED  BY <1>1, <2>1, <2>2
  <1>7. CASE CheckExit   BY <1>7, CheckExitIs DEF Lists
  <1>8. CASE Yield       BY <1>1, <1>2, <1>8, YieldIs
  <1>9. CASE WriteFrame  BY <1>9, WriteFrameIs
  <1>10. CASE CloseWriter \/ InterruptClose \/ CloseReader
    BY <1>10 DEF CloseWriter, InterruptClose, CloseReader
  <1>11. CASE DrainStderr \/ UNCHANGED vars
    BY <1>11, Stutter DEF DrainStderr, worker, Lists
  <1> QED  BY Steps, <1>3, <1>4, <1>5, <1>6, <1>7, <1>8, <1>9, <1>10, <1>11

\* The worker never holds more than two batches of decoded frames, however its
\* memory failures shrink the batch size.
THEOREM MemoryBounded == Spec => []HoldsTwoBatches
  <1>1. Init => TypeOK /\ ListsBounded
    <2> SUFFICES ASSUME Init PROVE ListsBounded
      BY InitTyped
    <2>1. Len(batch) = 0 /\ Len(held) = 0  BY EmptySeq DEF Init
    <2> QED  BY <2>1, PipelineAssumption DEF PipelineAssumption, Init, ListsBounded
  <1>2. TypeOK /\ ListsBounded /\ [Next]_vars => (TypeOK /\ ListsBounded)'
    BY NextTyped, NextBounded
  <1>3. TypeOK /\ ListsBounded => HoldsTwoBatches
    <2> SUFFICES ASSUME TypeOK, ListsBounded PROVE HoldsTwoBatches
      OBVIOUS
    <2>1. Len(batch) \in Nat /\ Len(held) \in Nat /\ batch_size \in Nat
      BY LenProperties, PipelineAssumption DEF PipelineAssumption, TypeOK, ControlOK, ListsOK
    <2> QED  BY <2>1 DEF ListsBounded, HoldsTwoBatches
  <1> QED  BY <1>1, <1>2, <1>3, PTL DEF Spec

-----------------------------------------------------------------------------
(* Children *)

\* What the rest of the worker does to the two processes.
LEMMA DrainStderrIs ==
    ASSUME TypeOK, DrainStderr
    PROVE  /\ encoder'.pc = encoder.pc
           /\ UNCHANGED <<source, mode, fits, batch_size, py, raised, interrupted, Lists,
                          checked, decoder, stdout, stdin, eof, output>>
  <1>1. encoder' = [encoder EXCEPT !.err = 0]  BY DEF DrainStderr
  <1>2. encoder'.pc = encoder.pc  BY <1>1 DEF TypeOK, PipesOK, EncoderState
  <1> QED  BY <1>2 DEF DrainStderr, worker, fixed, Lists

LEMMA CloseReaderIs ==
    ASSUME TypeOK, CloseReader
    PROVE  /\ py = "close_reader" /\ py' = "ended"
           /\ ~Alive(decoder')
           /\ decoder'.sent = decoder.sent
           /\ decoder'.pc \in {decoder.pc, "error"} /\ (decoder.pc = "ok" => decoder'.pc = "ok")
           /\ UNCHANGED <<source, mode, fits, batch_size, raised, interrupted, Lists, checked,
                          stdout, encoder, stdin, eof, output>>
  <1>1. decoder' = [decoder EXCEPT !.pc = IF Alive(decoder) THEN "error" ELSE @]
    BY DEF CloseReader, Terminate, TypeOK, PipesOK, DecoderState
  <1>2. decoder'.pc = (IF Alive(decoder) THEN "error" ELSE decoder.pc)
    BY <1>1 DEF TypeOK, PipesOK, DecoderState
  <1>3. decoder'.sent = decoder.sent
    BY <1>1 DEF TypeOK, PipesOK, DecoderState
  <1> QED  BY <1>2, <1>3 DEF CloseReader, fixed, Lists, Alive

LEMMA CloseWriterIs ==
    CloseWriter =>
        /\ py = "close_writer" /\ py' = (IF mode = "encode" THEN "drain" ELSE "close_reader")
        /\ unflushed' \in {0, unflushed}
        /\ UNCHANGED <<source, mode, fits, batch_size, raised, interrupted, batch, held, pos,
                       checked, smoother, decoder, stdout, encoder, stdin, output>>
  BY DEF CloseWriter, fixed

\* How an ffmpeg changes its state: gone ones stay as they are.
LEMMA DecoderIs ==
    ASSUME TypeOK, Decoder
    PROVE  /\ decoder.pc \in {"run", "logging"} /\ decoder'.pc \in {"run", "logging", "ok", "error"}
           /\ \/ /\ decoder.sent < source /\ stdout' = Append(stdout, decoder.sent + 1)
                 /\ decoder'.sent = decoder.sent + 1 /\ decoder'.pc = "run"
              \/ /\ decoder'.sent = decoder.sent /\ stdout' = stdout
                 /\ decoder'.pc = "ok" => decoder.sent = source
  <1>1. decoder \in DecoderState  BY DEF TypeOK, PipesOK
  <1>2. CASE Decode            BY <1>1, <1>2 DEF Decode, DecoderState
  <1>3. CASE DecoderExits      BY <1>1, <1>3 DEF DecoderExits, DecoderState
  <1>4. CASE DecoderComplains  BY <1>1, <1>4 DEF DecoderComplains, DecoderState
  <1>5. CASE DecoderLogs       BY <1>1, <1>5 DEF DecoderLogs, DecoderState
  <1> QED  BY <1>2, <1>3, <1>4, <1>5 DEF Decoder

LEMMA EncoderIs ==
    ASSUME TypeOK, Encoder
    PROVE  /\ encoder.pc \in {"run", "logging"} /\ encoder'.pc \in {"run", "logging", "ok", "error"}
           /\ \/ /\ stdin # <<>> /\ output' = Append(output, Head(stdin)) /\ stdin' = Tail(stdin)
                 /\ encoder'.pc = "run"
              \/ /\ UNCHANGED <<stdin, output>>
                 /\ encoder'.pc = "ok" => eof /\ stdin = <<>>
  <1>1. encoder \in EncoderState  BY DEF TypeOK, PipesOK
  <1>2. CASE Encode
    <2>1. stdin # <<>>  BY <1>2, Sizes, EmptySeq DEF Encode
    <2> QED  BY <1>1, <1>2, <2>1 DEF Encode, EncoderState
  <1>3. CASE EncoderExits      BY <1>1, <1>3 DEF EncoderExits, EncoderState
  <1>4. CASE EncoderComplains  BY <1>1, <1>4 DEF EncoderComplains, EncoderState
  <1>5. CASE EncoderLogs       BY <1>1, <1>5 DEF EncoderLogs, EncoderState
  <1> QED  BY <1>2, <1>3, <1>4, <1>5 DEF Encoder

LEMMA NextReaped ==
    ASSUME TypeOK, ChildrenReaped, [Next]_vars
    PROVE  ChildrenReaped'
  <1> USE DEF ChildrenReaped, NoOrphans, Alive
  <1>0. mode \in {"encode", "frames"}
    BY PipelineAssumption DEF PipelineAssumption, TypeOK, ControlOK
  <1>1. CASE Decoder      BY <1>1, DecoderAlone, DecoderIs
  <1>2. CASE Encoder      BY <1>2, EncoderAlone, EncoderIs
  <1>3. CASE Turn         BY <1>3, TurnAlone, TurnIs
  <1>4. CASE Exit         BY <1>4, TurnAlone, ExitIs
  <1>5. CASE Run          BY <1>5, RunAlone
  <1>6. CASE Start        BY <1>0, <1>6, StartIs
  <1>7. CASE ReadFrame    BY <1>7, ReadFrameIs
  <1>8. CASE CheckExit    BY <1>8, CheckExitIs
  <1>9. CASE WriteFrame   BY <1>9, WriteFrameIs
  <1>10. CASE CloseWriter BY <1>0, <1>10, CloseWriterIs
  <1>11. CASE DrainStderr BY <1>11, DrainStderrIs
  <1>12. CASE CloseReader BY <1>12, CloseReaderIs
  <1>13. CASE Yield           BY <1>13, YieldIs
  <1>14. CASE InterruptClose  BY <1>14, InterruptCloseIs
  <1>15. CASE UNCHANGED vars  BY <1>15, Stutter
  <1> QED
    BY Steps, <1>1, <1>2, <1>3, <1>4, <1>5, <1>6, <1>7, <1>8, <1>9, <1>10, <1>11, <1>12, <1>13,
       <1>14, <1>15

\* When the worker is finished with a video, well or not, both ffmpegs are gone.
THEOREM ChildrenGone == Spec => []NoOrphans
  <1>1. Init => TypeOK /\ ChildrenReaped
    BY InitTyped DEF Init, ChildrenReaped, NoOrphans, NoEncoder, Alive
  <1>2. TypeOK /\ ChildrenReaped /\ [Next]_vars => (TypeOK /\ ChildrenReaped)'
    BY NextTyped, NextReaped
  <1> QED  BY <1>1, <1>2, PTL DEF Spec, ChildrenReaped

-----------------------------------------------------------------------------
(* The order of the frames *)

LEMMA Counts ==
    ASSUME TypeOK
    PROVE  /\ Len(batch) \in Nat /\ Len(held) \in Nat /\ pos \in Nat /\ pos <= Len(held)
           /\ Len(stdout) \in Nat /\ Len(stdin) \in Nat /\ Len(output) \in Nat
           /\ decoder.sent \in Nat /\ source \in Nat
  <1>1. Len(batch) \in Nat /\ Len(held) \in Nat /\ pos \in Nat /\ pos <= Len(held)
    BY LenProperties DEF TypeOK, ListsOK
  <1>2. Len(stdout) \in Nat /\ Len(stdin) \in Nat /\ Len(output) \in Nat
    BY LenProperties DEF TypeOK, PipesOK
  <1>3. decoder.sent \in Nat  BY DEF TypeOK, PipesOK, DecoderState
  <1>4. source \in Nat  BY DEF TypeOK, ControlOK
  <1> QED  BY <1>1, <1>2, <1>3, <1>4

LEMMA ReceivedIs ==
    ASSUME TypeOK
    PROVE  Received + (Len(stdout) + 1) = decoder.sent + 1
  <1>1. Len(stdout) \in Nat /\ decoder.sent \in Nat  BY Counts
  <1> QED  BY <1>1 DEF Received

\* What a read takes out of the decoder's pipe.
LEMMA Taken ==
    ASSUME TypeOK, stdout # <<>>
    PROVE  /\ Head(stdout) = stdout[1] /\ Head(stdout) \in Frames
           /\ Len(Tail(stdout)) = Len(stdout) - 1 /\ Len(stdout) >= 1
           /\ \A i \in 1 .. Len(Tail(stdout)) : Tail(stdout)[i] = stdout[i + 1]
  <1>1. stdout \in Seq(Frames)  BY DEF TypeOK, PipesOK
  <1>2. Len(stdout) \in Nat \ {0}  BY <1>1, EmptySeq
  <1> QED  BY <1>1, <1>2, HeadTailProperties

LEMMA NextDecoded ==
    ASSUME TypeOK, DecodedInOrder, [Next]_vars
    PROVE  DecodedInOrder'
  <1> USE DEF DecodedInOrder
  <1>1. CASE Decoder
    <2>1. ~checked /\ py # "check" /\ UNCHANGED <<source, py, checked>>
      BY <1>1, DecoderIs, DecoderAlone DEF Alive
    <2>2. CASE /\ decoder.sent < source /\ stdout' = Append(stdout, decoder.sent + 1)
               /\ decoder'.sent = decoder.sent + 1 /\ decoder'.pc = "run"
      <3>1. decoder.sent + 1 \in Frames
        BY <2>2, Counts, PipelineAssumption DEF PipelineAssumption, TypeOK, ControlOK, Frames
      <3>2. stdout \in Seq(Frames)  BY DEF TypeOK, PipesOK
      <3>3. /\ Len(stdout') = Len(stdout) + 1
            /\ \A i \in 1 .. Len(stdout) : stdout'[i] = stdout[i]
            /\ stdout'[Len(stdout) + 1] = decoder.sent + 1
        BY <2>2, <3>1, <3>2, AppendProperties
      <3>4. Received' = Received  BY <2>2, <3>3, Counts DEF Received
      <3>5. \A i \in 1 .. Len(stdout') : stdout'[i] = Received' + i
        <4> TAKE i \in 1 .. Len(stdout')
        <4>1. Len(stdout) \in Nat /\ decoder.sent \in Nat  BY Counts
        <4>2. CASE i \in 1 .. Len(stdout)  BY <3>3, <3>4, <4>2
        <4>3. CASE i = Len(stdout) + 1
          <5>1. Received + i = decoder.sent + 1  BY <4>3, ReceivedIs
          <5> QED  BY <3>3, <3>4, <4>3, <5>1
        <4> QED  BY <3>3, <4>1, <4>2, <4>3
      <3> QED  BY <2>1, <2>2, <3>3, <3>5, Counts
    <2>3. CASE /\ decoder'.sent = decoder.sent /\ stdout' = stdout
               /\ decoder'.pc = "ok" => decoder.sent = source
      BY <2>1, <2>3 DEF Received
    <2> QED  BY <1>1, <2>2, <2>3, DecoderIs
  <1>2. CASE Encoder      BY <1>2, EncoderAlone DEF Received
  <1>3. CASE Turn         BY <1>3, TurnAlone, TurnIs DEF Received
  <1>4. CASE Exit         BY <1>4, TurnAlone, ExitIs DEF Received
  <1>5. CASE Run          BY <1>5, RunAlone DEF Received
  <1>6. CASE Start
    <2>1. Len(stdout') = 0  BY <1>6, StartIs, EmptySeq
    <2>2. decoder'.sent = 0 /\ decoder'.pc = "run" /\ ~checked' /\ py' = "decode" /\ source' = source
      BY <1>6, StartIs
    <2> QED  BY <2>1, <2>2, Counts DEF Received
  <1>7. CASE ReadFrame
    <2>1. /\ stdout # <<>> /\ stdout' = Tail(stdout) /\ py' # "check"
          /\ UNCHANGED <<source, checked, decoder>>
      BY <1>7, ReadFrameIs
    <2>2. Len(stdout') = Len(stdout) - 1 /\ Received' = Received + 1
      BY <2>1, Taken, Counts DEF Received
    <2>3. \A i \in 1 .. Len(stdout') : stdout'[i] = Received' + i
      <3> TAKE i \in 1 .. Len(stdout')
      <3>1. Len(stdout) \in Nat /\ Received \in Int  BY Counts DEF Received
      <3>2. i + 1 \in 1 .. Len(stdout)  BY <2>2, <3>1
      <3>3. stdout'[i] = stdout[i + 1]  BY <2>1, Taken
      <3> QED  BY <2>2, <3>1, <3>2, <3>3
    <2> QED  BY <2>1, <2>2, <2>3, Counts
  <1>8. CASE CheckExit    BY <1>8, CheckExitIs DEF Received
  <1>9. CASE WriteFrame   BY <1>9, WriteFrameIs DEF Received
  <1>10. CASE CloseWriter BY <1>10, CloseWriterIs DEF Received
  <1>11. CASE DrainStderr BY <1>11, DrainStderrIs DEF Received
  <1>12. CASE CloseReader BY <1>12, CloseReaderIs DEF Received
  <1>13. CASE Yield           BY <1>13, YieldIs DEF Received
  <1>14. CASE InterruptClose  BY <1>14, InterruptCloseIs DEF Received
  <1>15. CASE UNCHANGED vars  BY <1>15, Stutter DEF Received
  <1> QED
    BY Steps, <1>1, <1>2, <1>3, <1>4, <1>5, <1>6, <1>7, <1>8, <1>9, <1>10, <1>11, <1>12, <1>13,
       <1>14, <1>15

\* Decoding takes nothing from the worker, encoding nothing from what was written.
LEMMA CountsKept ==
    ASSUME TypeOK
    PROVE  /\ Decoder => Received' = Received
           /\ Encoder => Written' = Written
  <1>1. ASSUME Decoder PROVE Received' = Received
    <2>1. CASE stdout' = Append(stdout, decoder.sent + 1) /\ decoder'.sent = decoder.sent + 1
               /\ decoder.sent < source
      <3>1. decoder.sent + 1 \in Frames
        BY <2>1, Counts, PipelineAssumption DEF PipelineAssumption, TypeOK, ControlOK, Frames
      <3>2. Len(stdout') = Len(stdout) + 1
        BY <2>1, <3>1, AppendProperties DEF TypeOK, PipesOK
      <3>3. decoder.sent \in Nat /\ Len(stdout) \in Nat  BY Counts
      <3>4. decoder'.sent - Len(stdout') = decoder.sent - Len(stdout)
        BY <2>1, <3>2, <3>3
      <3> QED  BY <3>4 DEF Received
    <2> QED  BY <1>1, <2>1, DecoderIs DEF Received
  <1>2. ASSUME Encoder PROVE Written' = Written
    <2>1. CASE stdin # <<>> /\ output' = Append(output, Head(stdin)) /\ stdin' = Tail(stdin)
      <3>1. Head(stdin) \in Outputs /\ Len(stdin') = Len(stdin) - 1
        BY <2>1, HeadTailProperties DEF TypeOK, PipesOK
      <3>2. Len(output') = Len(output) + 1
        BY <2>1, <3>1, AppendProperties DEF TypeOK, PipesOK
      <3> QED  BY <3>1, <3>2, Counts DEF Written
    <2> QED  BY <1>2, <2>1, EncoderIs DEF Written
  <1> QED  BY <1>1, <1>2

LEMMA NextInOrder ==
    ASSUME TypeOK, DecodedInOrder, ListsInOrder, [Next]_vars
    PROVE  ListsInOrder'
  <1> USE DEF ListsInOrder
  <1>0. Received \in Int /\ Written \in Nat  BY Counts DEF Received, Written
  <1>1. CASE Decoder
    <2>1. Received' = Received  BY <1>1, CountsKept
    <2> QED  BY <1>1, <2>1, DecoderAlone DEF Lists, Written
  <1>2. CASE Encoder
    <2>1. Written' = Written  BY <1>2, CountsKept
    <2> QED  BY <1>2, <2>1, EncoderAlone DEF Lists, Received
  <1>3. CASE Turn
    <2>1. /\ Received' = Received /\ Written' = Written
          /\ UNCHANGED <<batch, held, pos, checked>>
      BY <1>3, TurnAlone DEF Received, Written, Lists
    <2>2. CASE (py = "decode" /\ py' = "check") \/ (py = "infer" /\ py' = "write")
      BY <2>1, <2>2
    <2>3. CASE py = "write" /\ pos = Len(held) /\ py' = IF checked THEN "close_writer" ELSE "decode"
      <3>1. Len(batch') = 0 /\ Written = Received
        BY <1>0, <2>1, <2>3, Counts, EmptySeq
      <3> QED  BY <1>0, <2>1, <2>3, <3>1
    <2>4. CASE py' = "close_writer"  BY <2>4
    <2>5. \/ py = "decode" /\ py' = "check"
          \/ py = "infer" /\ py' = "write"
          \/ py = "write" /\ pos = Len(held) /\ py' = IF checked THEN "close_writer" ELSE "decode"
          \/ py' = "close_writer"
      BY <1>3, TurnIs
    <2> QED  BY <2>2, <2>3, <2>4, <2>5
  <1>4. CASE Exit         BY <1>4, ExitIs
  <1>5. CASE Run          BY <1>5, RunAlone
  <1>6. CASE Start
    <2>1. Len(<<>>) = 0  BY EmptySeq
    <2> QED  BY <1>6, <2>1, StartIs DEF Received, Written
  <1>7. CASE ReadFrame
    <2> DEFINE list == Append(batch, Head(stdout))
    <2>1. /\ py = "decode" /\ stdout # <<>> /\ stdout' = Tail(stdout)
          /\ UNCHANGED <<checked, decoder, stdin, output>>
      BY <1>7, ReadFrameIs
    <2>2. Received' = Received + 1 /\ Written' = Written
      BY <2>1, Taken, Counts DEF Received, Written
    <2>3. Head(stdout) = Received + 1 /\ Head(stdout) \in Frames
      BY <2>1, Taken DEF DecodedInOrder
    <2>4. /\ Len(list) = Len(batch) + 1
          /\ \A i \in 1 .. Len(batch) : list[i] = batch[i]
          /\ list[Len(batch) + 1] = Head(stdout)
      BY <2>3, AppendProperties DEF TypeOK, ListsOK
    <2>5. /\ Written + Len(list) = Received + 1
          /\ \A i \in 1 .. Len(list) : list[i] = Written + i
      <3> HIDE DEF list
      <3>1. Written + Len(batch) = Received /\ Len(batch) \in Nat  BY <2>1, Counts
      <3>2. Written + Len(list) = Received + 1  BY <1>0, <2>4, <3>1
      <3>3. ASSUME NEW i \in 1 .. Len(list) PROVE list[i] = Written + i
        <4>1. CASE i \in 1 .. Len(batch)  BY <2>1, <2>4, <4>1
        <4>2. CASE i = Len(batch) + 1  BY <1>0, <2>3, <2>4, <3>1, <4>2
        <4> QED  BY <2>4, <3>1, <3>3, <4>1, <4>2
      <3> QED  BY <3>2, <3>3
    <2>6. batch' = list /\ py' \in {"decode", "yield"}
      BY <1>7, ReadFrameIs
    <2> HIDE DEF list
    <2> QED  BY <2>1, <2>2, <2>5, <2>6
  <1>8. CASE CheckExit
    <2>1. /\ py = "check" /\ py' \in {"yield", "close_writer"}
          /\ Received' = Received /\ Written' = Written /\ batch' = batch
      BY <1>8, CheckExitIs DEF Received, Written, Lists
    <2> QED  BY <2>1
  <1>13. CASE Yield
    <2>1. /\ py = "yield" /\ held' = batch /\ batch' = <<>> /\ pos' = 0 /\ py' = "infer"
          /\ Received' = Received /\ Written' = Written
      BY <1>13, YieldIs DEF Received, Written
    <2>2. Written' + Len(held') = Received' + pos'  BY <1>0, <2>1
    <2>3. \A i \in pos' + 1 .. Len(held') : held'[i] = Written' + i - pos'
      BY <1>0, <2>1
    <2> QED  BY <2>1, <2>2, <2>3
  <1>9. CASE WriteFrame
    <2>1. /\ py = "write" /\ pos < Len(held) /\ pos' = pos + 1
          /\ UNCHANGED <<py, batch, held, decoder, stdout>>
      BY <1>9, WriteFrameIs
    <2>2. Written' = Written + 1
      <3>1. Rendered \in Outputs  BY <2>1, RenderedTyped DEF TypeOK
      <3>2. CASE stdin' = Append(stdin, Rendered) /\ output' = output
        <4>1. Len(stdin') = Len(stdin) + 1
          BY <3>1, <3>2, AppendProperties DEF TypeOK, PipesOK
        <4> QED  BY <3>2, <4>1, Counts DEF Written
      <3>3. CASE output' = Append(output, Rendered) /\ stdin' = stdin
        <4>1. Len(output') = Len(output) + 1
          BY <3>1, <3>3, AppendProperties DEF TypeOK, PipesOK
        <4> QED  BY <3>3, <4>1, Counts DEF Written
      <3> QED  BY <1>9, <3>2, <3>3, WriteFrameIs
    <2>3. Received' = Received  BY <2>1 DEF Received
    <2>0. /\ batch = <<>> /\ Written + Len(held) = Received + pos
          /\ pos \in Nat /\ Len(held) \in Nat
      BY <2>1, Counts
    <2>4. Written' + Len(held') = Received' + pos'  BY <1>0, <2>0, <2>1, <2>2, <2>3
    <2>5. \A i \in pos' + 1 .. Len(held') : held'[i] = Written' + i - pos'
      <3> TAKE i \in pos' + 1 .. Len(held')
      <3>1. i \in pos + 1 .. Len(held)  BY <2>0, <2>1
      <3>2. held'[i] = Written + i - pos  BY <2>1, <3>1
      <3>3. Written + i - pos = (Written + 1) + i - (pos + 1)  BY <1>0, <2>0, <3>1
      <3> QED  BY <2>1, <2>2, <3>2, <3>3
    <2> QED  BY <2>1, <2>4, <2>5
  <1>10. CASE CloseWriter \/ InterruptClose \/ CloseReader
    BY <1>10, CloseWriterIs, InterruptCloseIs, CloseReaderIs
  <1>11. CASE DrainStderr
    <2>1. py' = "drain"  BY <1>11, DrainStderrIs DEF DrainStderr
    <2> QED  BY <2>1
  <1>12. CASE UNCHANGED vars  BY <1>12, Stutter DEF Lists, Received, Written
  <1> QED
    BY Steps, <1>1, <1>2, <1>3, <1>4, <1>5, <1>6, <1>7, <1>8, <1>9, <1>10, <1>11, <1>12, <1>13

-----------------------------------------------------------------------------
(* What is written *)

\* The smoother's buffer after k frames, and after one more.
LEMMA RecentLen ==
    ASSUME NEW k \in Nat
    PROVE  /\ Recent(k) \in Seq(Nat)
           /\ Len(Recent(k)) = IF k < Window THEN k ELSE Window
           /\ \A i \in 1 .. Len(Recent(k)) :
                Recent(k)[i] = IF k < Window THEN i ELSE k - Window + i
  <1> DEFINE n == IF k < Window THEN k ELSE Window
             e(i) == IF k < Window THEN i ELSE k - Window + i
  <1>1. n \in Nat /\ Window \in Nat  BY PipelineAssumption DEF PipelineAssumption
  <1>2. Recent(k) = [i \in 1 .. n |-> e(i)]  BY DEF Recent, Expected
  <1>3. \A i \in 1 .. n : e(i) \in Nat  BY <1>1
  <1> HIDE DEF n, e
  <1>4. [i \in 1 .. n |-> e(i)] \in [1 .. n -> Nat]  BY <1>3
  <1>5. Recent(k) \in Seq(Nat) /\ Len(Recent(k)) = n  BY <1>1, <1>2, <1>4
  <1>6. \A i \in 1 .. n : Recent(k)[i] = e(i)  BY <1>2
  <1> QED  BY <1>5, <1>6 DEF n, e

LEMMA RecentZero == Recent(0) = <<>>
  <1>1. Recent(0) \in Seq(Nat) /\ Len(Recent(0)) = 0
    BY RecentLen, PipelineAssumption DEF PipelineAssumption
  <1> QED  BY <1>1, EmptySeq

LEMMA RecentGrows ==
    ASSUME NEW k \in Nat, smoother = Recent(k)
    PROVE  Smoothed(k + 1) = Recent(k + 1)
  <1> DEFINE all == Append(smoother, k + 1)
  <1>1. Window \in Nat \ {0}  BY PipelineAssumption DEF PipelineAssumption
  <1>2. smoother \in Seq(Nat)  BY RecentLen
  <1>3. /\ all \in Seq(Nat) /\ all # <<>> /\ Len(all) = Len(smoother) + 1
        /\ \A i \in 1 .. Len(smoother) : all[i] = smoother[i]
        /\ all[Len(smoother) + 1] = k + 1
    BY <1>2, AppendProperties
  <1>4. /\ Recent(k + 1) \in Seq(Nat)
        /\ Len(Recent(k + 1)) = IF k + 1 < Window THEN k + 1 ELSE Window
        /\ \A i \in 1 .. Len(Recent(k + 1)) :
             Recent(k + 1)[i] = IF k + 1 < Window THEN i ELSE k + 1 - Window + i
    <2> DEFINE m == k + 1
    <2>1. m \in Nat  OBVIOUS
    <2> HIDE DEF m
    <2>2. /\ Recent(m) \in Seq(Nat)
          /\ Len(Recent(m)) = IF m < Window THEN m ELSE Window
          /\ \A i \in 1 .. Len(Recent(m)) : Recent(m)[i] = IF m < Window THEN i ELSE m - Window + i
      BY <2>1, RecentLen
    <2> QED  BY <2>2, SMTT(30) DEF m
  <1>5. /\ Len(smoother) = IF k < Window THEN k ELSE Window
        /\ \A i \in 1 .. Len(smoother) : smoother[i] = IF k < Window THEN i ELSE k - Window + i
    BY RecentLen
  <1>6. Smoothed(k + 1) = IF Len(all) > Window THEN Tail(all) ELSE all  BY DEF Smoothed
  <1> HIDE DEF all
  <1>7. CASE k < Window
    <2>1. Len(smoother) = k /\ Len(all) = k + 1  BY <1>3, <1>5, <1>7
    <2>2. Len(Recent(k + 1)) = k + 1  BY <1>1, <1>4, <1>7
    <2>3. ASSUME NEW i \in 1 .. k + 1 PROVE all[i] = Recent(k + 1)[i]
      <3>1. Recent(k + 1)[i] = i  BY <1>1, <1>4, <1>7, <2>2, <2>3
      <3>2. CASE i \in 1 .. k  BY <1>3, <1>5, <1>7, <2>1, <3>1, <3>2
      <3>3. CASE i = k + 1  BY <1>3, <2>1, <3>1, <3>3
      <3> QED  BY <3>2, <3>3
    <2>4. all = Recent(k + 1)  BY <1>3, <1>4, <2>1, <2>2, <2>3, SeqEqual
    <2> QED  BY <1>1, <1>6, <1>7, <2>1, <2>4
  <1>8. CASE ~(k < Window)
    <2>1. Len(smoother) = Window /\ Len(all) = Window + 1  BY <1>1, <1>3, <1>5, <1>8
    <2>2. Len(Recent(k + 1)) = Window  BY <1>1, <1>4, <1>8
    <2>3. /\ Tail(all) \in Seq(Nat) /\ Len(Tail(all)) = Window
          /\ \A i \in 1 .. Window : Tail(all)[i] = all[i + 1]
      BY <1>1, <1>3, <2>1, HeadTailProperties
    <2>4. ASSUME NEW i \in 1 .. Window PROVE Tail(all)[i] = Recent(k + 1)[i]
      <3>1. Recent(k + 1)[i] = k + 1 - Window + i  BY <1>1, <1>4, <1>8, <2>2
      <3>2. CASE i + 1 \in 1 .. Window
        <4>1. all[i + 1] = k - Window + (i + 1)  BY <1>3, <1>5, <1>8, <2>1, <3>2
        <4> QED  BY <1>1, <2>3, <3>1, <4>1
      <3>3. CASE i = Window
        <4>1. all[i + 1] = k + 1  BY <1>3, <2>1, <3>3
        <4> QED  BY <1>1, <2>3, <3>1, <3>3, <4>1
      <3>4. i + 1 \in 1 .. Window \/ i = Window  BY <1>1, <2>4
      <3> QED  BY <3>2, <3>3, <3>4
    <2>5. Tail(all) = Recent(k + 1)  BY <1>4, <2>2, <2>3, <2>4, SeqEqual
    <2>6. Len(all) > Window  BY <1>1, <2>1
    <2> QED  BY <1>6, <2>5, <2>6
  <1> QED  BY <1>7, <1>8

\* The frame the worker writes next is the next one, smoothed as it should be.
LEMMA RendersExpected ==
    ASSUME TypeOK, ListsInOrder, WrittenInOrder, py = "write", pos < Len(held)
    PROVE  Rendered = Expected(Written + 1) /\ Smoothed(Frame) = Recent(Written + 1)
  <1>1. Written \in Nat /\ pos \in Nat /\ Len(held) \in Nat  BY Counts DEF Written
  <1>2. Frame = Written + 1
    <2>1. pos + 1 \in pos + 1 .. Len(held)  BY <1>1
    <2>2. held[pos + 1] = Written + (pos + 1) - pos  BY <2>1 DEF ListsInOrder
    <2> QED  BY <1>1, <2>2 DEF Frame
  <1>3. Smoothed(Written + 1) = Recent(Written + 1)
    BY <1>1, RecentGrows DEF WrittenInOrder
  <1> QED  BY <1>2, <1>3 DEF Rendered, Recent, Expected

OutputsExpected ==
    /\ \A k \in 1 .. Len(output) : output[k] = Expected(k)
    /\ \A k \in 1 .. Len(stdin) : stdin[k] = Expected(Len(output) + k)

\* The encoder takes what the worker wrote first.
LEMMA EncodedExpected ==
    ASSUME TypeOK, OutputsExpected, Encoder
    PROVE  OutputsExpected'
  <1> USE DEF OutputsExpected
  <1>1. CASE stdin # <<>> /\ output' = Append(output, Head(stdin)) /\ stdin' = Tail(stdin)
    <2>1. stdin \in Seq(Outputs) /\ output \in Seq(Outputs)  BY DEF TypeOK, PipesOK
    <2>2. Len(stdin) \in Nat \ {0} /\ Len(output) \in Nat  BY <1>1, <2>1, EmptySeq, LenProperties
    <2>3. /\ Head(stdin) \in Outputs /\ Head(stdin) = stdin[1]
          /\ Len(stdin') = Len(stdin) - 1
          /\ \A i \in 1 .. Len(stdin') : stdin'[i] = stdin[i + 1]
      BY <1>1, <2>1, HeadTailProperties
    <2>4. /\ Len(output') = Len(output) + 1
          /\ \A i \in 1 .. Len(output) : output'[i] = output[i]
          /\ output'[Len(output) + 1] = Head(stdin)
      BY <1>1, <2>1, <2>3, AppendProperties
    <2>5. Head(stdin) = Expected(Len(output) + 1)  BY <2>2, <2>3
    <2>6. ASSUME NEW k \in 1 .. Len(output') PROVE output'[k] = Expected(k)
      <3>1. CASE k \in 1 .. Len(output)  BY <2>4, <3>1
      <3>2. CASE k = Len(output) + 1     BY <2>4, <2>5, <3>2
      <3>3. k \in 1 .. Len(output) \/ k = Len(output) + 1  BY <2>2, <2>4, <2>6
      <3> QED  BY <3>1, <3>2, <3>3
    <2>7. ASSUME NEW k \in 1 .. Len(stdin') PROVE stdin'[k] = Expected(Len(output') + k)
      <3>1. k + 1 \in 1 .. Len(stdin) /\ Len(output) + (k + 1) = Len(output') + k
        BY <2>2, <2>3, <2>4, <2>7
      <3>2. stdin[k + 1] = Expected(Len(output) + (k + 1))  BY <3>1
      <3> QED  BY <2>3, <2>7, <3>1, <3>2
    <2> QED  BY <2>6, <2>7
  <1>2. CASE UNCHANGED <<stdin, output>>  BY <1>2
  <1> QED  BY <1>1, <1>2, EncoderIs

\* The frame the worker writes comes after everything written.
LEMMA RenderedExpected ==
    ASSUME TypeOK, ListsInOrder, WrittenInOrder, EndsWhole, WriteFrame
    PROVE  OutputsExpected' /\ Written' = Written + 1
  <1>1. Rendered = Expected(Written + 1) /\ Rendered \in Outputs
    BY WriteFrameIs, RendersExpected, RenderedTyped DEF TypeOK
  <1>2. /\ stdin \in Seq(Outputs) /\ output \in Seq(Outputs)
        /\ Len(stdin) \in Nat /\ Len(output) \in Nat
    BY LenProperties DEF TypeOK, PipesOK
  <1>3. OutputsExpected  BY DEF OutputsExpected, WrittenInOrder
  <1>4. CASE stdin' = Append(stdin, Rendered) /\ output' = output
    <2>1. /\ Len(stdin') = Len(stdin) + 1
          /\ \A i \in 1 .. Len(stdin) : stdin'[i] = stdin[i]
          /\ stdin'[Len(stdin) + 1] = Rendered
      BY <1>1, <1>2, <1>4, AppendProperties
    <2>2. Written + 1 = Len(output) + (Len(stdin) + 1)  BY <1>2 DEF Written
    <2>3. ASSUME NEW k \in 1 .. Len(stdin') PROVE stdin'[k] = Expected(Len(output) + k)
      <3>1. CASE k \in 1 .. Len(stdin)  BY <1>3, <2>1, <3>1 DEF OutputsExpected
      <3>2. CASE k = Len(stdin) + 1     BY <1>1, <2>1, <2>2, <3>2
      <3>3. k \in 1 .. Len(stdin) \/ k = Len(stdin) + 1  BY <1>2, <2>1, <2>3
      <3> QED  BY <3>1, <3>2, <3>3
    <2>4. Written' = Written + 1  BY <1>2, <1>4, <2>1 DEF Written
    <2> QED  BY <1>3, <1>4, <2>3, <2>4 DEF OutputsExpected
  <1>5. CASE mode = "frames" /\ output' = Append(output, Rendered) /\ stdin' = stdin
    <2>1. /\ Len(output') = Len(output) + 1
          /\ \A i \in 1 .. Len(output) : output'[i] = output[i]
          /\ output'[Len(output) + 1] = Rendered
      BY <1>1, <1>2, <1>5, AppendProperties
    <2>2. stdin = <<>> /\ Len(stdin) = 0  BY <1>5, EmptySeq DEF EndsWhole
    <2>3. Written + 1 = Len(output) + 1  BY <1>2, <2>2 DEF Written
    <2>4. ASSUME NEW k \in 1 .. Len(output') PROVE output'[k] = Expected(k)
      <3>1. CASE k \in 1 .. Len(output)  BY <1>3, <2>1, <3>1 DEF OutputsExpected
      <3>2. CASE k = Len(output) + 1     BY <1>1, <2>1, <2>3, <3>2
      <3>3. k \in 1 .. Len(output) \/ k = Len(output) + 1  BY <1>2, <2>1, <2>4
      <3> QED  BY <3>1, <3>2, <3>3
    <2>5. Written' = Written + 1  BY <1>2, <1>5, <2>1 DEF Written
    <2>6. \A k \in 1 .. Len(stdin') : stdin'[k] = Expected(Len(output') + k)
      BY <1>5, <2>2
    <2> QED  BY <2>4, <2>5, <2>6 DEF OutputsExpected
  <1> QED  BY <1>4, <1>5, WriteFrameIs

LEMMA NextWritten ==
    ASSUME TypeOK, ListsInOrder, WrittenInOrder, EndsWhole, [Next]_vars
    PROVE  WrittenInOrder'
  <1> DEFINE Within == py \in {"decode", "check", "yield", "infer", "write"}
  <1>1. OutputsExpected /\ (Within => smoother = Recent(Written))
    BY DEF WrittenInOrder, OutputsExpected
  <1>2. SUFFICES OutputsExpected' /\ (Within' => smoother' = Recent(Written)')
    BY DEF WrittenInOrder, OutputsExpected
  <1>3. ASSUME UNCHANGED <<stdin, output, smoother>>, Within' => Within
        PROVE  OutputsExpected' /\ (Within' => smoother' = Recent(Written)')
    BY <1>1, <1>3 DEF OutputsExpected, Written, Recent, Expected
  <1>4. CASE Decoder  BY <1>3, <1>4, DecoderAlone DEF Lists
  <1>5. CASE Encoder
    <2>1. Written' = Written /\ smoother' = smoother /\ py' = py
      BY <1>5, CountsKept, EncoderAlone DEF Lists
    <2>2. OutputsExpected'  BY <1>1, <1>5, EncodedExpected
    <2> QED  BY <1>1, <2>1, <2>2 DEF Recent, Expected
  <1>6. CASE Turn         BY <1>3, <1>6, TurnAlone, TurnIs DEF Lists
  <1>7. CASE Exit         BY <1>3, <1>7, TurnAlone, ExitIs DEF Lists
  <1>8. CASE Run          BY <1>3, <1>8, RunAlone
  <1>9. CASE Start
    <2>1. stdin' = <<>> /\ output' = <<>> /\ smoother' = <<>>  BY <1>9, StartIs
    <2>2. Len(stdin') = 0 /\ Len(output') = 0  BY <2>1, EmptySeq
    <2>3. Written' = 0  BY <2>2 DEF Written
    <2>4. OutputsExpected'  BY <2>2 DEF OutputsExpected
    <2> QED  BY <2>1, <2>3, <2>4, RecentZero DEF Recent, Expected
  <1>10. CASE ReadFrame   BY <1>3, <1>10, ReadFrameIs
  <1>11. CASE CheckExit   BY <1>3, <1>11, CheckExitIs DEF Lists
  <1>12. CASE WriteFrame
    <2>1. smoother' = Recent(Written + 1)
      BY <1>12, WriteFrameIs, RendersExpected
    <2>2. OutputsExpected' /\ Written' = Written + 1  BY <1>12, RenderedExpected
    <2> QED  BY <2>1, <2>2 DEF Recent, Expected
  <1>13. CASE CloseWriter BY <1>3, <1>13, CloseWriterIs DEF Lists
  <1>14. CASE DrainStderr BY <1>3, <1>14, DrainStderrIs DEF Lists
  <1>15. CASE CloseReader BY <1>3, <1>15, CloseReaderIs DEF Lists
  <1>16. CASE Yield       BY <1>3, <1>16, YieldIs
  <1>17. CASE InterruptClose
    <2>1. /\ py' = "drain" /\ output' = output
          /\ Len(stdin') <= Len(stdin) /\ Len(stdin') \in Nat
          /\ \A k \in 1 .. Len(stdin') : stdin'[k] = stdin[k]
      BY <1>17, InterruptCloseIs
    <2>2. \A k \in 1 .. Len(stdin') : k \in 1 .. Len(stdin)  BY <2>1, Sizes
    <2> QED  BY <1>1, <2>1, <2>2 DEF OutputsExpected
  <1>18. CASE UNCHANGED vars  BY <1>3, <1>18, Stutter DEF Lists
  <1> QED
    BY Steps, <1>4, <1>5, <1>6, <1>7, <1>8, <1>9, <1>10, <1>11, <1>12, <1>13, <1>14, <1>15, <1>16,
       <1>17, <1>18

LEMMA NextWhole ==
    ASSUME TypeOK, DecodedInOrder, ListsInOrder, EndsWhole, [Next]_vars
    PROVE  EndsWhole'
  <1> USE DEF EndsWhole, Closing, Open
  <1>s. fits \in Nat /\ source \in Nat  BY Sizes, Counts
  <1>0. Len(batch) \in Nat /\ Written \in Nat /\ Received \in Int /\ Len(<<>>) = 0
    BY Counts, EmptySeq DEF Written, Received
  <1>1. stdout = <<>> /\ decoder.pc = "ok" => Received = source
    BY <1>0, Counts DEF DecodedInOrder, Received
  <1>2. CASE Decoder  BY <1>2, DecoderAlone DEF Written, Lists
  <1>3. CASE Encoder
    <2>1. Written' = Written  BY <1>3, CountsKept
    <2>2. UNCHANGED <<py, raised, interrupted, source, mode, fits, eof>>  BY <1>3, EncoderAlone
    <2>3. /\ encoder.pc # "ok" /\ encoder'.pc # "off"
          /\ \/ stdin # <<>> /\ encoder'.pc # "ok"
             \/ stdin' = stdin /\ (encoder'.pc = "ok" => eof /\ stdin = <<>>)
      BY <1>3, EncoderIs
    <2> QED  BY <2>1, <2>2, <2>3
  <1>4. CASE Turn
    <2>1. /\ Written' = Written
          /\ UNCHANGED <<source, mode, fits, encoder, stdin, eof>>
      BY <1>4, TurnAlone DEF Written
    <2>2. py' \in Closing => py' = "close_writer"  BY <1>4, TurnIs
    <2>3. py' = "close_writer" /\ raised' = "none" => Written = source
      <3> SUFFICES ASSUME py' = "close_writer", raised' = "none" PROVE Written = source
        OBVIOUS
      <3>1. py = "write" /\ pos = Len(held) /\ checked  BY <1>4, TurnIs
      <3>2. Written = Received  BY <1>0, <3>1, Counts DEF ListsInOrder
      <3> QED  BY <1>1, <3>1, <3>2 DEF DecodedInOrder
    <2>4. py # "start" /\ Open  BY <1>4, TurnIs
    <2> QED  BY <1>0, <1>s, <2>1, <2>2, <2>3, <2>4
  <1>5. CASE Exit
    <2>1. /\ Written' = Written
          /\ UNCHANGED <<source, mode, fits, encoder, stdin, eof>>
      BY <1>5, TurnAlone DEF Written
    <2>2. /\ py \in {"drain", "wait"} /\ (raised' = "none" => raised = "none")
          /\ py' \in {"wait", "close_reader"} /\ (~interrupted' => ~interrupted)
      BY <1>5, ExitIs DEF Exit, Reap, InterruptDrain
    <2>3. mode = "encode" /\ raised' = "none" /\ py' = "close_reader" => encoder.pc = "ok"
      <3>1. py' = "close_reader" /\ raised' = "none" => ~Alive(encoder) /\ encoder.pc # "error"
        BY <1>5, ExitIs
      <3>2. mode = "encode" => encoder.pc # "off"  BY <2>2
      <3>3. encoder.pc \in {"off", "ok", "error", "run", "logging"}
        BY DEF TypeOK, PipesOK, EncoderState, Gone
      <3> QED  BY <3>1, <3>2, <3>3 DEF Alive
    <2> QED  BY <2>1, <2>2, <2>3
  <1>6. CASE Run
    <2>1. Written' = Written  BY <1>6, RunAlone DEF Written
    <2>2. interrupted' = interrupted  BY <1>6 DEF Run, Deliver, OomRetry, Fail, Leave
    <2> QED  BY <1>6, <2>1, <2>2, RunAlone
  <1>7. CASE Start        BY <1>7, StartIs
  <1>8. CASE ReadFrame    BY <1>8, ReadFrameIs
  <1>9. CASE CheckExit
    <2>1. Written' = Written  BY <1>9, CheckExitIs DEF Written
    <2>2. py' = "close_writer" /\ raised' = "none" => batch = <<>> /\ decoder.pc = "ok"
      BY <1>9, CheckExitIs
    <2>3. py' = "close_writer" /\ raised' = "none" => Written = source
      <3> SUFFICES ASSUME batch = <<>>, decoder.pc = "ok" PROVE Written = source
        BY <2>2
      <3>1. py = "check" /\ stdout = <<>>  BY <1>9, CheckExitIs DEF DecodedInOrder
      <3>2. Written + Len(batch) = Received  BY <3>1 DEF ListsInOrder
      <3> QED  BY <1>0, <1>1, <3>1, <3>2
    <2> QED  BY <1>0, <1>s, <1>9, <2>1, <2>3, CheckExitIs
  <1>10. CASE WriteFrame
    <2>1. py = "write" /\ UNCHANGED <<py, mode, encoder, eof>>  BY <1>10, WriteFrameIs
    <2>2. stdin' = stdin \/ mode = "encode"  BY <1>10, WriteFrameIs
    <2> QED  BY <2>1, <2>2
  <1>11. CASE CloseWriter
    <2>1. Written' = Written  BY <1>11, CloseWriterIs DEF Written
    <2>2. encoder'.pc = "ok" => FALSE  BY <1>11, CloseWriterIs
    <2> QED  BY <1>0, <1>s, <1>11, <2>1, <2>2, CloseWriterIs
  <1>12. CASE DrainStderr
    <2>1. Written' = Written  BY <1>12, DrainStderrIs DEF Written
    <2> QED  BY <1>12, <2>1, DrainStderrIs
  <1>13. CASE CloseReader
    <2>1. Written' = Written  BY <1>13, CloseReaderIs DEF Written
    <2> QED  BY <1>13, <2>1, CloseReaderIs
  <1>14. CASE Yield           BY <1>14, YieldIs
  <1>15. CASE InterruptClose
    <2>1. /\ Len(stdin') \in Nat /\ Len(stdin') <= Len(stdin) /\ Len(stdin) <= Len(stdin') + fits
          /\ py = "close_writer" /\ py' = "drain" /\ mode = "encode" /\ interrupted'
          /\ UNCHANGED <<source, mode, fits, raised, encoder, output>>
      BY <1>15, InterruptCloseIs
    <2>2. Written' <= Written /\ Written <= Written' + fits
      BY <1>s, <2>1, Sizes, Counts DEF Written
    <2>3. encoder'.pc # "ok" /\ encoder'.pc # "off"  BY <2>1
    <2> QED  BY <1>0, <1>s, <2>1, <2>2, <2>3
  <1>16. CASE UNCHANGED vars  BY <1>16, Stutter DEF Written, Lists
  <1> QED
    BY Steps, <1>2, <1>3, <1>4, <1>5, <1>6, <1>7, <1>8, <1>9, <1>10, <1>11, <1>12, <1>13, <1>14,
       <1>15, <1>16

FrameOrder == DecodedInOrder /\ ListsInOrder /\ WrittenInOrder /\ EndsWhole

\* A job that ends well delivered the frames of the source once, in order, each
\* smoothed over its own predecessors, and all of them unless the soft limit was
\* swallowed, which costs at most what Python's buffer holds: whatever the pipes,
\* the batch size, the retries after running out of memory, and the failures.
THEOREM VideoDelivered == Spec => []DeliversVideo
  <1>1. Init => TypeOK /\ FrameOrder
    <2> SUFFICES ASSUME Init PROVE FrameOrder
      BY InitTyped
    <2>1. /\ Len(stdout) = 0 /\ Len(stdin) = 0 /\ Len(output) = 0 /\ source \in Nat
          /\ py = "start" /\ raised = "none" /\ checked = FALSE /\ stdin = <<>>
      BY EmptySeq DEF Init
    <2>2. decoder.sent = 0 /\ decoder.pc = "off" /\ encoder.pc = "off"
      BY DEF Init, NoDecoder, NoEncoder
    <2>3. DecodedInOrder  BY <2>1, <2>2 DEF DecodedInOrder
    <2>4. ListsInOrder    BY <2>1 DEF ListsInOrder
    <2>5. WrittenInOrder  BY <2>1 DEF WrittenInOrder
    <2>6. EndsWhole       BY <2>1, <2>2 DEF EndsWhole, Closing, Open
    <2> QED  BY <2>3, <2>4, <2>5, <2>6 DEF FrameOrder
  <1>2. TypeOK /\ FrameOrder /\ [Next]_vars => (TypeOK /\ FrameOrder)'
    BY NextTyped, NextDecoded, NextInOrder, NextWritten, NextWhole DEF FrameOrder
  <1>3. TypeOK /\ FrameOrder => DeliversVideo
    <2> SUFFICES ASSUME TypeOK, FrameOrder, py = "done"
                 PROVE  /\ output = SubSeq(Whole, 1, Len(output))
                        /\ IF interrupted THEN Len(output) + fits >= source ELSE output = Whole
      BY DEF DeliversVideo
    <2>1. /\ raised = "none" /\ Written <= source /\ source <= Written + fits
          /\ ~interrupted => Written = source
      BY DEF FrameOrder, EndsWhole, Closing
    <2>2. stdin = <<>>
      BY <2>1, PipelineAssumption
         DEF PipelineAssumption, TypeOK, ControlOK, FrameOrder, EndsWhole
    <2>3. /\ Written = Len(output) /\ Len(output) \in Nat /\ source \in Nat /\ fits \in Nat
          /\ output \in Seq(Outputs)
      BY <2>2, Counts, Sizes, EmptySeq DEF Written, TypeOK, PipesOK
    <2>4. \A k \in 1 .. Len(output) : output[k] = Expected(k)
      BY DEF FrameOrder, WrittenInOrder
    <2>5. \A k \in 1 .. source : Whole[k] = Expected(k)
      BY DEF Whole
    <2>6. /\ SubSeq(Whole, 1, Len(output)) \in Seq(Outputs)
          /\ Len(SubSeq(Whole, 1, Len(output))) = Len(output)
          /\ \A k \in 1 .. Len(output) : SubSeq(Whole, 1, Len(output))[k] = Expected(k)
      <3>1. \A k \in 1 .. Len(output) : k \in 1 .. source /\ output[k] \in Outputs
        BY <2>1, <2>3
      <3>2. \A k \in 1 .. Len(output) : Whole[k] \in Outputs  BY <2>4, <2>5, <3>1
      <3>3. /\ SubSeq(Whole, 1, Len(output)) \in Seq(Outputs)
            /\ Len(SubSeq(Whole, 1, Len(output))) = IF 1 <= Len(output) THEN Len(output) - 1 + 1 ELSE 0
            /\ \A k \in 1 .. Len(output) - 1 + 1 :
                 SubSeq(Whole, 1, Len(output))[k] = Whole[1 + k - 1]
        BY <2>3, <3>2, SubSeqProperties
      <3>4. \A k \in 1 .. Len(output) : SubSeq(Whole, 1, Len(output))[k] = Whole[k]
        BY <2>3, <3>3
      <3> QED  BY <2>3, <2>5, <3>1, <3>3, <3>4
    <2>7. output = SubSeq(Whole, 1, Len(output))
      BY <2>3, <2>4, <2>6, SeqEqual
    <2>8. CASE interrupted  BY <2>1, <2>3, <2>7, <2>8
    <2>9. CASE ~interrupted
      <3>1. Len(output) = source  BY <2>1, <2>3, <2>9
      <3>2. output \in [1 .. source -> Outputs]  BY <2>3, <3>1, LenProperties
      <3>3. output = Whole  BY <2>4, <3>1, <3>2 DEF Whole
      <3> QED  BY <2>7, <2>9, <3>3
    <2> QED  BY <2>8, <2>9
  <1> QED  BY <1>1, <1>2, <1>3, PTL DEF Spec
=============================================================================
