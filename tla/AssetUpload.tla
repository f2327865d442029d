----------------------------- MODULE AssetUpload -----------------------------
(***************************************************************************)
(* One asset: the requests that reserve, fill, complete and delete it, the *)
(* object store, and a job that reads it.  The row and the objects are two *)
(* stores without a common transaction, and every request decides on the   *)
(* row as it was when owned_asset loaded it.                               *)
(*                                                                         *)
(* A content stands for its SHA-256.  The keys of an asset differ only in  *)
(* the extension, which goes with the sniffed type, so a key is a type.    *)
(***************************************************************************)
EXTENDS Naturals, FiniteSets

CONSTANTS
    Requests,       \* upload, complete and delete requests, each made once
    Contents,       \* the payloads a client may send
    Types,          \* the types validation accepts
    TypeOf,         \* the type of each content, or NoType if it is rejected
    Guess,          \* the extension reserved before the bytes are known
    DirectUploads,  \* the backend presigns: clients PUT straight to the store
    MaxInFlight,    \* bound: requests the clients make at the same time
    MaxFaults,      \* bound: requests that die and deletes the store refuses
    NoContent, NoType

ASSUME UploadAssumption ==
    /\ NoContent \notin Contents
    /\ NoType \notin Types
    /\ TypeOf \in [Contents -> Types \cup {NoType}]
    /\ Guess \in Types
    /\ DirectUploads \in BOOLEAN
    /\ MaxInFlight \in Nat /\ MaxFaults \in Nat

VARIABLES
    row,        \* the assets row: status, storage_key, content_type, content_sha256
    objects,    \* the stored content by key
    presigned,  \* the presigned PUT for the reserved key: "none", "valid", "expired"
    pc,         \* where each request is
    loaded,     \* the row as each request loaded it
    got,        \* the payload each upload validates, and its declared type
    job,        \* a job of the asset: what it was keyed by and what it read
    deletes,    \* whether a delete was ever requested
    faults

store    == <<objects, presigned>>
requests == <<pc, loaded, got, deletes>>
vars     == <<row, store, requests, job, faults>>

-----------------------------------------------------------------------------

AssetStatus == {"awaiting_upload", "ready", "failed", "deleted"}

Row == [status : AssetStatus \cup {"absent"}, key : Types,
        type : Types \cup {NoType}, hash : Contents \cup {NoContent}]

NoRow   == [status |-> "absent", key |-> Guess, type |-> NoType, hash |-> NoContent]
Nothing == [content |-> NoContent, declared |-> NoType]
NoJob   == [state |-> "none", hash |-> NoContent, key |-> Guess, input |-> NoContent]

TypeOK ==
    /\ row \in Row
    /\ DOMAIN objects \subseteq Types
    /\ objects \in [DOMAIN objects -> Contents]
    /\ presigned \in {"none", "valid", "expired"}
    /\ pc \in [Requests -> {"new", "receiving", "completing", "received", "stored",
                            "deleting", "removing", "done"}]
    /\ loaded \in [Requests -> Row]
    /\ got \in [Requests -> [content : Contents \cup {NoContent},
                             declared : Types \cup {NoType}]]
    /\ job \in [state : {"none", "queued", "loaded", "read", "missing"},
                hash : Contents \cup {NoContent}, key : Types,
                input : Contents \cup {NoContent}]
    /\ deletes \in BOOLEAN
    /\ faults \in Nat

Init ==
    /\ row = NoRow
    /\ objects = [t \in {} |-> NoContent]
    /\ presigned = "none"
    /\ pc = [r \in Requests |-> "new"]
    /\ loaded = [r \in Requests |-> NoRow]
    /\ got = [r \in Requests |-> Nothing]
    /\ job = NoJob
    /\ deletes = FALSE
    /\ faults = 0

Goto(r, next) == pc' = [pc EXCEPT ![r] = next]

\* A request is over: its session is closed and its payload gone.
End(r) ==
    /\ Goto(r, "done")
    /\ loaded' = [loaded EXCEPT ![r] = NoRow]
    /\ got' = [got EXCEPT ![r] = Nothing]


\* The UPDATE a session sends names the columns whose value it changed since
\* it loaded them; the others keep what the row holds by now.
Flush(r, changed) ==
    [c \in DOMAIN row |-> IF changed[c] = loaded[r][c] THEN row[c] ELSE changed[c]]

Fault == faults < MaxFaults /\ faults' = faults + 1

-----------------------------------------------------------------------------
(* Reserving an asset *)

NewRow(type) == [NoRow EXCEPT !.status = "awaiting_upload", !.type = type]

\* POST /assets/upload-url
CreateUploadUrl ==
    /\ row.status = "absent"
    /\ \E type \in Types \cup {NoType} : row' = NewRow(type)
    /\ presigned' = IF DirectUploads THEN "valid" ELSE "none"
    /\ UNCHANGED <<objects, requests, job, faults>>

\* The client PUTs to the presigned URL, past the API.
DirectPut ==
    /\ presigned = "valid"
    /\ \E c \in Contents :
        objects' = [t \in DOMAIN objects \cup {Guess} |-> IF t = Guess THEN c ELSE objects[t]]
    /\ UNCHANGED <<row, presigned, requests, job, faults>>

PresignExpires ==
    /\ presigned = "valid"
    /\ presigned' = "expired"
    /\ UNCHANGED <<row, objects, requests, job, faults>>

-----------------------------------------------------------------------------
(* The upload requests *)

InFlight == {r \in Requests : pc[r] \notin {"new", "done"}}

\* owned_asset hides deleted assets; the request then works on that copy.
Load(r, next) ==
    /\ pc[r] = "new"
    /\ Cardinality(InFlight) < MaxInFlight
    /\ row.status \notin {"absent", "deleted"}
    /\ loaded' = [loaded EXCEPT ![r] = row]
    /\ Goto(r, next)
    /\ UNCHANGED <<row, store, got, job, faults>>

AnyStatus   == TRUE                                \* mutant: no 409
NotYetReady == row.status # "ready"

\* PUT /assets/{id}/content: the status is checked, then the body is awaited.
UploadAssetContent(r) ==
    /\ NotYetReady
    /\ Load(r, "receiving")
    /\ deletes' = deletes

\* A Content-Type header that contradicts the body is one more rejected content.
ReceiveBody(r) ==
    /\ pc[r] = "receiving"
    /\ \E c \in Contents : got' = [got EXCEPT ![r] = [content |-> c, declared |-> NoType]]
    /\ Goto(r, "received")
    /\ UNCHANGED <<row, store, loaded, deletes, job, faults>>

\* POST /assets: the row is committed before its bytes are validated.
UploadAsset(r) ==
    /\ pc[r] = "new"
    /\ Cardinality(InFlight) < MaxInFlight
    /\ row.status = "absent"
    /\ \E c \in Contents, type \in Types \cup {NoType} :
        /\ row' = NewRow(type)
        /\ loaded' = [loaded EXCEPT ![r] = NewRow(type)]
        /\ got' = [got EXCEPT ![r] = [content |-> c, declared |-> type]]
    /\ Goto(r, "received")
    /\ UNCHANGED <<store, deletes, job, faults>>

\* POST /assets/{id}/complete: the bytes are read back from the reserved key.
CompleteUpload(r) ==
    /\ row.status # "ready"
    /\ Load(r, "completing")
    /\ deletes' = deletes

FetchUploaded(r) ==
    /\ pc[r] = "completing"
    /\ loaded[r].key \in DOMAIN objects
    /\ got' = [got EXCEPT ![r] = [content  |-> objects[loaded[r].key],
                                  declared |-> loaded[r].type]]
    /\ Goto(r, "received")
    /\ UNCHANGED <<row, store, loaded, deletes, job, faults>>

UploadIncomplete(r) ==
    /\ pc[r] = "completing"
    /\ loaded[r].key \notin DOMAIN objects
    /\ End(r)
    /\ UNCHANGED <<row, store, deletes, job, faults>>

-----------------------------------------------------------------------------
(* _store_and_finalise, shared by the three *)

Type(r) == TypeOf[got[r].content]

TypeKnown(r) == got[r].content # NoContent /\ Type(r) # NoType
DeclaredFits(r) == got[r].declared \in {NoType, Type(r)}
ValidByHeader(r) == got[r].declared # NoType \/ TypeKnown(r)    \* mutant: the header is trusted
Valid(r) == TypeKnown(r) /\ DeclaredFits(r)

Reject(r) ==
    /\ pc[r] = "received"
    /\ ~Valid(r)
    /\ row' = Flush(r, [loaded[r] EXCEPT !.status = "failed"])
    /\ End(r)
    /\ UNCHANGED <<store, deletes, job, faults>>

\* The extension is corrected to the sniffed one, and the object is written.
Store(r) ==
    /\ pc[r] = "received"
    /\ Valid(r)
    /\ objects' = [t \in DOMAIN objects \cup {Type(r)} |->
                     IF t = Type(r) THEN got[r].content ELSE objects[t]]
    /\ Goto(r, "stored")
    /\ UNCHANGED <<row, presigned, loaded, got, deletes, job, faults>>

ReservedKey(r) == loaded[r].key                    \* mutant: the guess is kept
StorageKey(r)  == Type(r)

Finalise(r) ==
    /\ pc[r] = "stored"
    /\ row' = Flush(r, [status |-> "ready", key |-> StorageKey(r),
                        type |-> Type(r), hash |-> got[r].content])
    /\ End(r)
    /\ UNCHANGED <<store, deletes, job, faults>>

-----------------------------------------------------------------------------
(* DELETE /assets/{id} *)

DeleteAsset(r) ==
    /\ Load(r, "deleting")
    /\ deletes' = TRUE

CommitDelete(r) ==
    /\ pc[r] = "deleting"
    /\ row' = Flush(r, [loaded[r] EXCEPT !.status = "deleted"])
    /\ Goto(r, "removing")
    /\ UNCHANGED <<store, loaded, got, deletes, job, faults>>

RemoveObject(r) ==
    /\ pc[r] = "removing"
    /\ objects' = [t \in DOMAIN objects \ {loaded[r].key} |-> objects[t]]
    /\ End(r)
    /\ UNCHANGED <<row, presigned, deletes, job, faults>>

\* The process dies, the database or the store refuses, or the client hangs up.
RequestDies(r) ==
    /\ r \in InFlight
    /\ Fault
    /\ End(r)
    /\ UNCHANGED <<row, store, deletes, job>>

-----------------------------------------------------------------------------
(* A job of the asset *)

\* process_asset derives the idempotency key from the row's content hash.
ProcessAsset ==
    /\ job.state = "none"
    /\ row.status = "ready"
    /\ job' = [job EXCEPT !.state = "queued", !.hash = row.hash]
    /\ UNCHANGED <<row, store, requests, faults>>

\* The worker loads the asset when it executes the job, whatever its status.
RunLoadsAsset ==
    /\ job.state = "queued"
    /\ job' = [job EXCEPT !.state = "loaded", !.key = row.key]
    /\ UNCHANGED <<row, store, requests, faults>>

RunReadsObject ==
    /\ job.state = "loaded"
    /\ job' = IF job.key \in DOMAIN objects
                THEN [job EXCEPT !.state = "read", !.input = objects[job.key]]
                ELSE [job EXCEPT !.state = "missing"]
    /\ UNCHANGED <<row, store, requests, faults>>

-----------------------------------------------------------------------------

Upload(r) ==
    \/ UploadAsset(r) \/ UploadAssetContent(r) \/ ReceiveBody(r)
    \/ CompleteUpload(r) \/ FetchUploaded(r) \/ UploadIncomplete(r)
    \/ Reject(r) \/ Store(r) \/ Finalise(r)

Deletion(r) == DeleteAsset(r) \/ CommitDelete(r) \/ RemoveObject(r)

Client == CreateUploadUrl \/ DirectPut \/ PresignExpires

Job == ProcessAsset \/ RunLoadsAsset \/ RunReadsObject

Next == Client \/ Job \/ \E r \in Requests : Upload(r) \/ Deletion(r) \/ RequestDies(r)

Spec == Init /\ [][Next]_vars

-----------------------------------------------------------------------------
(* What holds however requests interleave *)

\* Until somebody deletes it, a ready asset can be downloaded: its key is never
\* that of an object which is not stored yet, though two uploads of different
\* types may each write only some of the row's columns.
ReadyHasObject == row.status = "ready" /\ ~deletes => row.key \in DOMAIN objects

\* The hash a job is keyed by is of bytes that passed validation, and unless the
\* client was given a presigned URL so is every object.
OnlyValidated ==
    /\ row.hash # NoContent => TypeOf[row.hash] # NoType
    /\ presigned = "none" => \A t \in DOMAIN objects : TypeOf[objects[t]] = t

\* A ready asset can be downloaded, and what was validated is what is there and what
\* its jobs are keyed by, however the uploads of several clients interleave.
ServesValidated == ReadyHasObject /\ OnlyValidated

-----------------------------------------------------------------------------
(* What holds when the clients of an asset wait for each other's requests *)

Served == IF row.status = "ready" /\ row.key \in DOMAIN objects
            THEN objects[row.key] ELSE NoContent

\* The asset keeps the contract, although requests die at any step.
Contract == INSTANCE AssetContract WITH
    state <- IF row.status \in {"awaiting_upload", "failed"} THEN "open" ELSE row.status,
    bytes <- Served

\* The row of a ready asset describes the bytes it serves: hash, key and type.
ReadyIsDescribed ==
    row.status = "ready" => Served = row.hash /\ row.type = TypeOf[row.hash]

\* A job reads the bytes its idempotency key names, or finds none.
JobReadsItsBytes == job.state = "read" => job.input = job.hash
=============================================================================
