---------------------------- MODULE MCBenchmarks ----------------------------
(* Instances of Benchmarks: the cases of one trained model under its runtimes, and
   a baseline and an architecture with random weights. *)
EXTENDS Benchmarks

MCSubsets ==
    {[models |-> {"cutoutnet", "cutoutnet-onnx"}, labels |-> {}],
     [models |-> {}, labels |-> {Numpy("trivial-ones"), [Of("birefnet") EXCEPT !.random = TRUE]}]}
MCSwitches == {{}, {"no_batches", "no_threads", "no_render"}}
MCCores == [torch |-> 3, onnx |-> 5]
MCRungs == <<1, 2>>
=============================================================================
