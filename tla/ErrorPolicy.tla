----------------------------- MODULE ErrorPolicy -----------------------------
(***************************************************************************)
(* What a worker makes of an exception (services/inference/app/errors.py). *)
(* An exception is the name of its type and what its text says: "oom" if   *)
(* it matches _OOM_PATTERNS, "transient" if it matches only                *)
(* _TRANSIENT_PATTERNS, "plain" otherwise.                                 *)
(***************************************************************************)
EXTENDS Naturals, FiniteSets

Texts == {"oom", "transient", "plain"}
Exception == [type : STRING, says : Texts]
Because(type, says) == [type |-> type, says |-> says]

\* Types that name a wrong request, whatever their text says, and their codes.
Hopeless ==
    [UnsupportedCodecError |-> "unsupported_codec", ModelNotFoundError |-> "unknown_model",
     WeightsUnavailableError |-> "weights_unavailable", ObjectNotFoundError |-> "object_missing",
     FileNotFoundError |-> "file_missing", ValueError |-> "invalid_request",
     TypeError |-> "invalid_request", KeyError |-> "invalid_request"]

Infrastructure ==
    [ConnectionError |-> "connection_error", TimeoutError |-> "connection_error",
     OperationalError |-> "infrastructure_error", InterfaceError |-> "infrastructure_error",
     DBAPIError |-> "infrastructure_error", RedisError |-> "infrastructure_error"]

Exhausted == {"OutOfMemoryError", "CudaOutOfMemoryError", "MemoryError"}

\* OSError and its subclasses that no entry above names.
SystemErrors == {"OSError", "IsADirectoryError"}

Verdict(kind, code) == [kind |-> kind, code |-> code]

\* The message first, as a table of patterns alone would have it.
classify_by_text(exc) ==
    IF exc.type \in Exhausted \/ exc.says = "oom" THEN Verdict("oom", "out_of_memory")
    ELSE IF exc.says = "transient" THEN Verdict("retryable", "transient_error")
    ELSE IF exc.type \in DOMAIN Hopeless THEN Verdict("non_retryable", Hopeless[exc.type])
    ELSE IF exc.type \in DOMAIN Infrastructure THEN Verdict("retryable", Infrastructure[exc.type])
    ELSE IF exc.type \in SystemErrors THEN Verdict("retryable", "io_error")
    ELSE Verdict("non_retryable", "internal_error")

classify(exc) ==
    IF exc.type \in Exhausted \/ exc.says = "oom" THEN Verdict("oom", "out_of_memory")
    ELSE IF exc.type \in DOMAIN Hopeless THEN Verdict("non_retryable", Hopeless[exc.type])
    ELSE IF exc.type \in DOMAIN Infrastructure THEN Verdict("retryable", Infrastructure[exc.type])
    ELSE IF exc.says = "transient" THEN Verdict("retryable", "transient_error")
    ELSE IF exc.type \in SystemErrors THEN Verdict("retryable", "io_error")
    ELSE Verdict("non_retryable", "internal_error")

only_exhausted(verdict) == verdict.kind = "oom"
retryable(verdict) == verdict.kind \in {"retryable", "oom"}
is_oom(verdict) == verdict.kind = "oom"
=============================================================================
