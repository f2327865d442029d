----------------------------- MODULE ObjectStorage -----------------------------
(***************************************************************************)
(* The two storage backends behind cutoutml.storage, used by several       *)
(* processes at once: LocalStorage on a directory tree, call by system     *)
(* call, and S3Storage, whose client repeats a request that timed out.     *)
(*                                                                         *)
(* A file's content is the sequence of the chunks written to it.  A key is *)
(* a sequence of characters, "/" among them.                               *)
(***************************************************************************)
EXTENDS Naturals, Sequences, SequencesExt, FiniteSets

CONSTANTS
    Callers,        \* processes that use the store
    Keys,           \* object keys
    ListPrefixes,   \* prefixes that are listed
    Limits,         \* limits that lists are called with
    Rank,           \* the order in which a backend lists keys: by path, or by bytes
    PageSize,       \* keys in a page of an S3 list, at most
    Payloads,       \* what is put
    Chunks,         \* chunks of a payload
    Backends,       \* settings.storage_backend: "local", "s3"
    MaxAttempts,    \* times the S3 client sends a request
    MaxCalls,       \* bound: calls made
    MaxFaults       \* bound: processes that die and writes that fail

ASSUME StorageAssumption ==
    /\ Keys \subseteq Seq(STRING) /\ ListPrefixes \subseteq Seq(STRING)
    /\ Chunks \in Nat \ {0} /\ MaxAttempts \in Nat \ {0}
    /\ MaxCalls \in Nat /\ MaxFaults \in Nat
    /\ Backends \subseteq {"local", "s3"}

ASSUME ListAssumption ==
    /\ Limits \subseteq Nat \ {0} /\ PageSize \in Nat \ {0}
    /\ Rank \in [{"local", "s3"} -> [Keys -> Nat]]
    /\ \A b \in {"local", "s3"} : \A k, l \in Keys : Rank[b][k] = Rank[b][l] => k = l

VARIABLES
    backend,        \* the backend build_storage chose
    inodes,         \* the content of every file ever made
    entry,          \* the directory: the file at each key, or none
    dirs,           \* directories that were made; nothing removes one
    temps,          \* files named .upload-...
    calls,          \* each caller's call in progress
    told,           \* the last answer of a put, get or delete: the caller and the value
    seen,           \* history: what the key of a call held during it
    made, faults

disk  == <<inodes, entry, dirs, temps>>
vars  == <<backend, disk, calls, told, seen, made, faults>>

-----------------------------------------------------------------------------

NoFile  == 0
File    == Nat \ {NoFile}
Full(p) == [n \in 1 .. Chunks |-> p]
Absent  == <<>>
Failed  == <<"failed">>
Content(i) == IF i = NoFile THEN Absent ELSE inodes[i]

Slashes(s) == {n \in DOMAIN s : s[n] = "/"}
Parent(s) == IF Slashes(s) = {} THEN <<>>
             ELSE SubSeq(s, 1, (CHOOSE n \in Slashes(s) : \A m \in Slashes(s) : m <= n) - 1)

Idle == [op |-> "none"]
Call == [op : {"put", "get", "delete", "list"}, key : Keys \cup ListPrefixes, data : Payloads \cup {Absent},
         pc : {"start", "write", "stat", "etag", "read", "walk", "each"}, fd : File \cup {NoFile},
         got : Seq(Payloads), tries : 0 .. MaxAttempts,
         limit : Nat, todo : SUBSET Keys, found : SUBSET Keys, listed : SUBSET Keys, more : BOOLEAN]

\* steady: the keys that had an object throughout a list; alive: at some moment of it.
TypeOK ==
    /\ backend \in {"local", "s3"}
    /\ inodes \in Seq(Seq(Payloads))
    /\ entry \in [Keys -> File \cup {NoFile}]
    /\ \A d \in dirs : d = <<>> \/ \E k \in Keys : d = Parent(k)
    /\ temps \subseteq File
    /\ calls \in [Callers -> Call \cup {Idle}]
    /\ seen \in [Callers -> [values : SUBSET Seq(Payloads), steady : SUBSET Keys,
                             alive : SUBSET Keys]]
    /\ made \in 0 .. MaxCalls /\ faults \in 0 .. MaxFaults

Present == {k \in Keys : entry[k] # NoFile}
NothingSeen == [values |-> {}, steady |-> {}, alive |-> {}]

Init ==
    /\ backend \in Backends
    /\ inodes = <<>> /\ temps = {} /\ dirs = {<<>>}
    /\ entry = [k \in Keys |-> NoFile]
    /\ calls = [c \in Callers |-> Idle]
    /\ told = Failed
    /\ seen = [c \in Callers |-> NothingSeen]
    /\ made = 0 /\ faults = 0

Fault == faults < MaxFaults /\ faults' = faults + 1

Update(c, call) == calls' = [calls EXCEPT ![c] = call]
Answer(c, v) ==
    /\ Update(c, Idle)
    /\ told' = IF calls[c].op = "list" THEN told ELSE <<c, v>>
    /\ seen' = [seen EXCEPT ![c] = NothingSeen]

\* The directory entry of k changes to file i; calls in progress may see it.
Enter(k, i, files) ==
    /\ entry' = [entry EXCEPT ![k] = i]
    /\ seen' = [d \in Callers |->
         IF calls[d] = Idle THEN seen[d]
         ELSE IF calls[d].op = "list"
         THEN [seen[d] EXCEPT !.steady = IF i = NoFile THEN @ \ {k} ELSE @,
                              !.alive = IF i = NoFile THEN @ ELSE @ \cup {k}]
         ELSE IF calls[d].key = k
         THEN [seen[d] EXCEPT !.values = @ \cup {IF i = NoFile THEN Absent ELSE files[i]}]
         ELSE seen[d]]

Begin(c, op, k, p, n) ==
    /\ calls[c] = Idle /\ made < MaxCalls /\ made' = made + 1
    /\ Update(c, [op |-> op, key |-> k, data |-> p, pc |-> "start", fd |-> NoFile, got |-> <<>>,
                  tries |-> 0, limit |-> n, todo |-> {}, found |-> {}, listed |-> {},
                  more |-> FALSE])
    /\ seen' = [seen EXCEPT ![c] =
         IF op = "list" THEN [values |-> {}, steady |-> Present, alive |-> Present]
         ELSE [values |-> {Content(entry[k])}, steady |-> {}, alive |-> {}]]
    /\ UNCHANGED <<backend, disk, told, faults>>

At(c, op, pc) == calls[c] # Idle /\ calls[c].op = op /\ calls[c].pc = pc
AtLocal(c, op, pc) == backend = "local" /\ At(c, op, pc)
Same == UNCHANGED <<backend, made>>

-----------------------------------------------------------------------------
(* LocalStorage *)

MakeTemp(c) ==
    /\ AtLocal(c, "put", "start")
    /\ inodes' = Append(inodes, <<>>)
    /\ temps' = temps \cup {Len(inodes')}
    /\ dirs' = dirs \cup {Parent(calls[c].key)}
    /\ Update(c, [calls[c] EXCEPT !.pc = "write", !.fd = Len(inodes')])
    /\ UNCHANGED <<entry, told, seen, faults>> /\ Same

WriteChunk(c) ==
    LET i == calls[c].fd IN
    /\ AtLocal(c, "put", "write") /\ Len(inodes[i]) < Chunks
    /\ inodes' = [inodes EXCEPT ![i] = Append(@, calls[c].data)]
    /\ UNCHANGED <<entry, dirs, temps, calls, told, seen, faults>> /\ Same

Written(i) == Len(inodes[i]) = Chunks

Replace(c) ==
    LET i == calls[c].fd IN
    /\ AtLocal(c, "put", "write") /\ Written(i)
    /\ Enter(calls[c].key, i, inodes)
    /\ temps' = temps \ {i}
    /\ Update(c, [calls[c] EXCEPT !.pc = "stat"])
    /\ UNCHANGED <<inodes, dirs, told, faults>> /\ Same

\* The disk is full: the temporary file is unlinked.
WriteFails(c) ==
    /\ AtLocal(c, "put", "write") /\ Fault
    /\ temps' = temps \ {calls[c].fd}
    /\ Answer(c, Failed)
    /\ UNCHANGED <<inodes, entry, dirs>> /\ Same

\* _stat_path follows the replace: by then the file may be another's, or gone.
StatPath(c) ==
    /\ AtLocal(c, "put", "stat")
    /\ IF entry[calls[c].key] = NoFile THEN Answer(c, Failed)
       ELSE Update(c, [calls[c] EXCEPT !.pc = "etag"]) /\ UNCHANGED <<told, seen>>
    /\ UNCHANGED <<disk, faults>> /\ Same

OpenFile(c) ==
    LET i == entry[calls[c].key] IN
    /\ AtLocal(c, "put", "etag") \/ AtLocal(c, "get", "start")
    /\ IF i = NoFile THEN Answer(c, IF calls[c].op = "get" THEN Absent ELSE Failed)
       ELSE Update(c, [calls[c] EXCEPT !.pc = "read", !.fd = i]) /\ UNCHANGED <<told, seen>>
    /\ UNCHANGED <<disk, faults>> /\ Same

ByName(call)     == IF entry[call.key] = NoFile THEN call.fd ELSE entry[call.key]
ReadFrom(call)   == call.fd

ReadChunk(c) ==
    LET call == calls[c]
        file == inodes[ReadFrom(call)]
        next == Len(call.got) + 1 IN
    /\ calls[c] # Idle /\ call.pc = "read"
    /\ IF next \in DOMAIN file
       THEN Update(c, [call EXCEPT !.got = Append(@, file[next])])
            /\ UNCHANGED <<told, seen>>
       ELSE Answer(c, call.got)
    /\ UNCHANGED <<disk, faults>> /\ Same

Unlink(c) ==
    /\ AtLocal(c, "delete", "start")
    /\ Enter(calls[c].key, NoFile, inodes)
    /\ Update(c, [calls[c] EXCEPT !.pc = "stat"])
    /\ UNCHANGED <<inodes, dirs, temps, told, faults>> /\ Same

Trim(prefix) == IF prefix # <<>> /\ Last(prefix) = "/" THEN Front(prefix) ELSE prefix
SearchRoot(prefix) == IF Trim(prefix) \in dirs THEN Trim(prefix) ELSE Parent(Trim(prefix))
Below(root, k) == root = <<>> \/ IsPrefix(Append(root, "/"), k)
Found(prefix, k)   == Below(SearchRoot(prefix), k)
Matches(prefix, k) == Below(SearchRoot(prefix), k) /\ IsPrefix(prefix, k)

\* rglob starts: it will look at every place below the search root, each at a moment
\* of its own, in no order.
Walk(c) ==
    /\ AtLocal(c, "list", "start")
    /\ Update(c, [calls[c] EXCEPT !.pc = "walk",
                                  !.todo = {k \in Keys : Matches(calls[c].key, k)}])
    /\ UNCHANGED <<disk, told, seen, faults>> /\ Same

Visit(c) ==
    LET call == calls[c] IN
    /\ AtLocal(c, "list", "walk")
    /\ \E k \in call.todo :
         Update(c, [call EXCEPT !.todo = @ \ {k},
                                !.found = IF entry[k] = NoFile THEN @ ELSE @ \cup {k}])
    /\ UNCHANGED <<disk, told, seen, faults>> /\ Same

\* What was found is sorted, before the first file is looked at again.
Sorts(c) ==
    /\ AtLocal(c, "list", "walk") /\ calls[c].todo = {}
    /\ Update(c, [calls[c] EXCEPT !.pc = "each", !.todo = calls[c].found])
    /\ UNCHANGED <<disk, told, seen, faults>> /\ Same

Before(k, l)    == Rank[backend][k] < Rank[backend][l]
FirstOf(keys)   == {k \in keys : \A l \in keys : ~Before(l, k)}
OneLess(call)   == Cardinality(call.listed) + 1 >= call.limit
Enough(call)    == Cardinality(call.listed) >= call.limit

Yields(c, k) == Update(c, [calls[c] EXCEPT !.todo = @ \ {k}, !.listed = @ \cup {k}])

\* A file that went after the walk is skipped by is_file; one that goes between
\* is_file and stat raises FileNotFoundError out of the iteration.
Skips(k)  == entry[k] = NoFile

ListEach(c) ==
    LET call == calls[c] IN
    /\ AtLocal(c, "list", "each") /\ ~Enough(call)
    /\ \E k \in FirstOf(call.todo) :
         \/ ~Skips(k) /\ Yields(c, k) /\ UNCHANGED <<told, seen>>
         \/ Skips(k) /\ Update(c, [call EXCEPT !.todo = @ \ {k}]) /\ UNCHANGED <<told, seen>>
         \/ Skips(k) /\ Answer(c, Failed)
    /\ UNCHANGED <<disk, faults>> /\ Same

-----------------------------------------------------------------------------
(* S3Storage *)

AtS3(c, op, pc) == backend = "s3" /\ At(c, op, pc)

\* The request reaches the store; the answer may be lost and the client sends the
\* request again, and each copy that arrives is carried out.
MaySend(call) == call.tries < MaxAttempts

S3Apply(c) ==
    LET call == calls[c] IN
    /\ AtS3(c, "put", "start") \/ AtS3(c, "delete", "start")
    /\ MaySend(call)
    /\ IF call.op = "put"
       THEN /\ inodes' = Append(inodes, Full(call.data))
            /\ Enter(call.key, Len(inodes'), inodes')
       ELSE UNCHANGED inodes /\ Enter(call.key, NoFile, inodes)
    /\ Update(c, [call EXCEPT !.tries = @ + 1])
    /\ UNCHANGED <<dirs, temps, told, faults>> /\ Same

S3Answers(c) ==
    /\ backend = "s3" /\ calls[c] # Idle /\ calls[c].op \in {"put", "delete"} /\ calls[c].tries > 0
    /\ Answer(c, IF calls[c].op = "put" THEN Full(calls[c].data) ELSE Absent)
    /\ UNCHANGED <<disk, faults>> /\ Same

S3Get(c) ==
    /\ AtS3(c, "get", "start")
    /\ Answer(c, Content(entry[calls[c].key]))
    /\ UNCHANGED <<disk, faults>> /\ Same

\* The store answers a request for a page with keys that are there and follow those of
\* the pages before, in order and up to PageSize of them; truncated if there are more.
S3Page(c) ==
    LET call == calls[c]
        rest == {k \in Present : /\ IsPrefix(call.key, k)
                                 /\ \A l \in call.listed : Before(l, k)} IN
    /\ AtS3(c, "list", "start") \/ (AtS3(c, "list", "each") /\ call.more)
    /\ call.todo = {} /\ ~Enough(call)
    /\ \E page \in SUBSET rest :
         /\ Cardinality(page) <= PageSize
         /\ \A k \in page, l \in rest : Before(l, k) => l \in page
         /\ Update(c, [call EXCEPT !.pc = "each", !.todo = page, !.more = page # rest])
    /\ UNCHANGED <<disk, told, seen, faults>> /\ Same

\* The items of a page are yielded as they are.
S3Each(c) ==
    /\ AtS3(c, "list", "each") /\ ~Enough(calls[c])
    /\ \E k \in FirstOf(calls[c].todo) : Yields(c, k)
    /\ UNCHANGED <<disk, told, seen, faults>> /\ Same

-----------------------------------------------------------------------------

\* The list has reached its limit, or looked at everything.
ListEnds(c) ==
    /\ At(c, "list", "each")
    /\ Enough(calls[c]) \/ (calls[c].todo = {} /\ ~calls[c].more)

\* unlink of a missing file is no error, and has no more to do.
Returns(c) ==
    /\ AtLocal(c, "delete", "stat") \/ ListEnds(c)
    /\ Answer(c, Absent)
    /\ UNCHANGED <<disk, faults>> /\ Same

\* The process dies; nothing cleans up after it.
Dies(c) ==
    /\ calls[c] # Idle /\ Fault
    /\ Answer(c, Failed)
    /\ UNCHANGED disk /\ Same

Next == \E c \in Callers :
    \/ \E k \in Keys : \/ \E p \in Payloads : Begin(c, "put", k, p, 0)
                       \/ Begin(c, "get", k, Absent, 0)
                       \/ Begin(c, "delete", k, Absent, 0)
    \/ \E k \in ListPrefixes, n \in Limits : Begin(c, "list", k, Absent, n)
    \/ MakeTemp(c) \/ WriteChunk(c) \/ Replace(c) \/ WriteFails(c) \/ StatPath(c)
    \/ OpenFile(c) \/ ReadChunk(c) \/ Unlink(c)
    \/ Walk(c) \/ Visit(c) \/ Sorts(c) \/ ListEach(c)
    \/ S3Apply(c) \/ S3Answers(c) \/ S3Get(c) \/ S3Page(c) \/ S3Each(c)
    \/ Returns(c) \/ Dies(c)

Spec == Init /\ [][Next]_vars

-----------------------------------------------------------------------------

\* Whatever is interrupted, what is at a key is the whole of what one put wrote
\* (LocalStorage: "Without this, a crash mid-write leaves a truncated object").
ObjectsComplete ==
    \A k \in Present : \E p \in Payloads : inodes[entry[k]] = Full(p)

Whole(prefix) == prefix = <<>> \/ Last(prefix) = "/"

\* A list of whole directories, when it ends, has no more objects than its limit, only
\* objects of the prefix that were there at some moment, and every one that was there
\* throughout, but for those the limit cut off, which come after all it has: whatever
\* was put and deleted while the tree was walked or between two pages.  On S3 so has any
\* list; LocalStorage searches only the directory a prefix names.
ListsWhatStays ==
    \A c \in Callers : ListEnds(c) =>
        LET call == calls[c] IN
        /\ call.listed \subseteq {k \in seen[c].alive : IsPrefix(call.key, k)}
        /\ Cardinality(call.listed) <= call.limit
        /\ backend = "s3" \/ Whole(call.key) =>
             \A k \in seen[c].steady : IsPrefix(call.key, k) =>
                 \/ k \in call.listed
                 \/ Cardinality(call.listed) = call.limit /\ \A l \in call.listed : Before(l, k)

-----------------------------------------------------------------------------

Applied(call) == call.pc \in {"stat", "etag", "read"} \/ call.tries > 0

\* A call as its caller sees it.
Promised(call, values) ==
    IF call.op \in {"none", "list"} THEN [op |-> "none"]
    ELSE [op |-> call.op, key |-> call.key,
          value |-> IF call.op = "put" THEN Full(call.data) ELSE Absent,
          applied |-> call.op # "get" /\ Applied(call),
          seen |-> values]

Abstract == INSTANCE AtomicStore WITH
    Values <- {Full(p) : p \in Payloads},
    store  <- [k \in Keys |-> Content(entry[k])],
    calls  <- [c \in Callers |-> Promised(calls[c], seen[c].values)]

\* Both backends keep AtomicStore: readers see whole values that the key held while
\* they read, also when puts, deletes, deaths and repeated requests interleave.
KeepsAtomicStore == Abstract!Spec
=============================================================================
