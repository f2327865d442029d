-------------------------- MODULE AssetUploadProofs --------------------------
(***************************************************************************)
(* Proofs about AssetUpload for every set of requests, contents and types, *)
(* with uploads past the API or without.                                   *)
(***************************************************************************)
EXTENDS AssetSerial, FiniteSetTheorems, TLAPS

USE UploadAssumption

\* What an upload wrote or is about to write went through validation.
StoredIsValid == \A r \in Requests : pc[r] = "stored" => got[r].content \in Contents /\ Valid(r)

TypeInv == TypeOK /\ StoredIsValid

\* Requests in flight and presigned URLs have a row, which starts with the
\* reserved key.
RowExists ==
    row.status = "absent" =>
        /\ row.key = Guess /\ presigned = "none"
        /\ \A r \in Requests : pc[r] \in {"new", "done"}

\* Keys move only from the reserved one to that of a stored object, and a
\* session that loaded a moved key loaded it after the row had it.
KeysStored ==
    ~deletes =>
        /\ row.status # "deleted"
        /\ row.status = "ready" => row.key \in DOMAIN objects
        /\ row.key # Guess => row.key \in DOMAIN objects
        /\ \A r \in Requests :
            /\ pc[r] \notin {"deleting", "removing"}
            /\ loaded[r].key # Guess => row.key \in DOMAIN objects
            /\ pc[r] = "stored" => Type(r) \in DOMAIN objects

Inv == TypeInv /\ RowExists /\ KeysStored

-----------------------------------------------------------------------------
(* Types *)

LEMMA NoRowTyped == NoRow \in Row /\ \A t \in Types \cup {NoType} : NewRow(t) \in Row
  BY DEF NoRow, NewRow, Row, AssetStatus

\* What a session flushes is a row if what it changed and what it loaded are.
LEMMA FlushTyped ==
    ASSUME TypeOK, NEW r \in Requests, NEW changed \in Row
    PROVE  /\ Flush(r, changed) \in Row
           /\ Flush(r, changed) = [status |-> Flush(r, changed).status,
                                   key    |-> Flush(r, changed).key,
                                   type   |-> Flush(r, changed).type,
                                   hash   |-> Flush(r, changed).hash]
           /\ \A c \in {"status", "key", "type", "hash"} :
                Flush(r, changed)[c] = IF changed[c] = loaded[r][c] THEN row[c] ELSE changed[c]
  <1>1. row \in Row /\ loaded[r] \in Row  BY DEF TypeOK
  <1>2. DOMAIN row = {"status", "key", "type", "hash"}  BY <1>1 DEF Row
  <1> QED  BY <1>1, <1>2 DEF Flush, Row

\* A validated content is of an accepted type.
LEMMA ValidTyped ==
    ASSUME NEW r \in Requests, TypeOK, Valid(r)
    PROVE  got[r].content \in Contents /\ Type(r) \in Types
  BY DEF TypeOK, Valid, TypeKnown, Type

\* Ending a request keeps the types of what it held.
LEMMA EndTyped ==
    ASSUME TypeInv, NEW r \in Requests, End(r)
    PROVE  /\ pc' \in [Requests -> {"new", "receiving", "completing", "received", "stored",
                                    "deleting", "removing", "done"}]
           /\ loaded' \in [Requests -> Row]
           /\ got' \in [Requests -> [content : Contents \cup {NoContent},
                                     declared : Types \cup {NoType}]]
           /\ StoredIsValid'
  <1>1. Nothing \in [content : Contents \cup {NoContent}, declared : Types \cup {NoType}]
    BY DEF Nothing
  <1>2. \A q \in Requests : pc'[q] = "stored" => pc[q] = "stored" /\ got'[q] = got[q]
    BY DEF End, Goto, TypeInv, TypeOK
  <1>3. StoredIsValid'
    BY <1>2 DEF StoredIsValid, TypeInv, Valid, TypeKnown, DeclaredFits, Type
  <1> QED  BY <1>1, <1>3, NoRowTyped DEF End, Goto, TypeInv, TypeOK

-----------------------------------------------------------------------------
(* The type invariant *)

LEMMA TypeInit == Init => TypeInv
  <1> SUFFICES ASSUME Init PROVE TypeInv
    OBVIOUS
  <1>1. row \in Row /\ loaded \in [Requests -> Row] /\ job.key = Guess
    BY NoRowTyped DEF Init, NoJob
  <1>2. DOMAIN objects = {} /\ objects \in [DOMAIN objects -> Contents]
    BY DEF Init
  <1>3. TypeOK
    BY <1>1, <1>2 DEF Init, TypeOK, NoJob, Nothing
  <1> QED  BY <1>3 DEF Init, TypeInv, StoredIsValid

LEMMA TypeStep == TypeInv /\ [Next]_vars => TypeInv'
  <1> SUFFICES ASSUME TypeInv, [Next]_vars PROVE TypeInv'
    OBVIOUS
  <1> USE DEF TypeInv
  <1>1. CASE CreateUploadUrl
    BY <1>1, NoRowTyped DEF CreateUploadUrl, TypeOK, requests, StoredIsValid, Valid,
       TypeKnown, DeclaredFits, Type
  <1>2. CASE DirectPut
    BY <1>2 DEF DirectPut, TypeOK, requests, StoredIsValid, Valid, TypeKnown, DeclaredFits, Type
  <1>3. CASE PresignExpires
    BY <1>3 DEF PresignExpires, TypeOK, requests, StoredIsValid, Valid, TypeKnown,
       DeclaredFits, Type
  <1>4. CASE Job
    <2> DEFINE J == [state : {"none", "queued", "loaded", "read", "missing"},
                     hash : Contents \cup {NoContent}, key : Types,
                     input : Contents \cup {NoContent}]
    <2>1. UNCHANGED <<row, objects, presigned, pc, loaded, got, deletes, faults>>
      BY <1>4 DEF Job, ProcessAsset, RunLoadsAsset, RunReadsObject, store, requests
    <2>2. job' \in J
      <3>1. job \in J  BY DEF TypeOK
      <3>2. row.hash \in Contents \cup {NoContent} /\ row.key \in Types  BY DEF TypeOK, Row
      <3>3. job.key \in DOMAIN objects => objects[job.key] \in Contents  BY DEF TypeOK
      <3> QED
        BY <1>4, <3>1, <3>2, <3>3 DEF Job, ProcessAsset, RunLoadsAsset, RunReadsObject
    <2> QED  BY <2>1, <2>2 DEF TypeOK, StoredIsValid, Valid, TypeKnown, DeclaredFits, Type
  <1>5. ASSUME NEW r \in Requests, NEW next \in {"receiving", "completing", "deleting"},
               Load(r, next), deletes' \in BOOLEAN
        PROVE  TypeInv'
    BY <1>5 DEF Load, Goto, TypeOK, store, StoredIsValid, Valid, TypeKnown, DeclaredFits, Type
  <1>6. ASSUME NEW r \in Requests, UploadAsset(r) PROVE TypeInv'
    BY <1>6, NoRowTyped DEF UploadAsset, Goto, TypeOK, store, StoredIsValid, Valid, TypeKnown,
       DeclaredFits, Type
  <1>7. ASSUME NEW r \in Requests, UploadAssetContent(r) PROVE TypeInv'
    BY <1>5, <1>7 DEF UploadAssetContent, TypeOK
  <1>8. ASSUME NEW r \in Requests, ReceiveBody(r) PROVE TypeInv'
    BY <1>8 DEF ReceiveBody, Goto, TypeOK, store, StoredIsValid, Valid, TypeKnown, DeclaredFits,
       Type
  <1>9. ASSUME NEW r \in Requests, CompleteUpload(r) PROVE TypeInv'
    BY <1>5, <1>9 DEF CompleteUpload, TypeOK
  <1>10. ASSUME NEW r \in Requests, FetchUploaded(r) PROVE TypeInv'
    BY <1>10 DEF FetchUploaded, Goto, TypeOK, Row, store, StoredIsValid, Valid, TypeKnown,
       DeclaredFits, Type
  <1>11. ASSUME NEW r \in Requests, UploadIncomplete(r) PROVE TypeInv'
    BY <1>11, EndTyped DEF UploadIncomplete, TypeOK, store
  <1>12. ASSUME NEW r \in Requests, Reject(r) PROVE TypeInv'
    <2>1. [loaded[r] EXCEPT !.status = "failed"] \in Row
      BY DEF TypeOK, Row, AssetStatus
    <2>2. row' \in Row
      BY <1>12, <2>1, FlushTyped DEF Reject
    <2> QED  BY <1>12, <2>2, EndTyped DEF Reject, TypeOK, store
  <1>13. ASSUME NEW r \in Requests, Store(r) PROVE TypeInv'
    <2>1. got[r].content \in Contents /\ Type(r) \in Types
      BY <1>13, ValidTyped DEF Store
    <2>2. TypeOK'
      BY <1>13, <2>1 DEF Store, Goto, TypeOK
    <2> QED
      BY <1>13, <2>1, <2>2 DEF Store, Goto, TypeOK, StoredIsValid, Valid, TypeKnown,
         DeclaredFits, Type
  <1>14. ASSUME NEW r \in Requests, Finalise(r) PROVE TypeInv'
    <2>1. got[r].content \in Contents /\ Type(r) \in Types
      BY <1>14, ValidTyped DEF Finalise, StoredIsValid
    <2>2. [status |-> "ready", key |-> StorageKey(r), type |-> Type(r),
           hash |-> got[r].content] \in Row
      BY <2>1 DEF StorageKey, Row, AssetStatus
    <2>3. row' \in Row
      BY <1>14, <2>2, FlushTyped DEF Finalise
    <2> QED  BY <1>14, <2>3, EndTyped DEF Finalise, TypeOK, store
  <1>15. ASSUME NEW r \in Requests, DeleteAsset(r) PROVE TypeInv'
    BY <1>5, <1>15 DEF DeleteAsset, TypeOK
  <1>16. ASSUME NEW r \in Requests, CommitDelete(r) PROVE TypeInv'
    <2>1. [loaded[r] EXCEPT !.status = "deleted"] \in Row
      BY DEF TypeOK, Row, AssetStatus
    <2>2. row' \in Row
      BY <1>16, <2>1, FlushTyped DEF CommitDelete
    <2> QED
      BY <1>16, <2>2 DEF CommitDelete, Goto, TypeOK, store, StoredIsValid, Valid, TypeKnown,
         DeclaredFits, Type
  <1>17. ASSUME NEW r \in Requests, RemoveObject(r) PROVE TypeInv'
    BY <1>17, EndTyped DEF RemoveObject, TypeOK
  <1>18. ASSUME NEW r \in Requests, RequestDies(r) PROVE TypeInv'
    BY <1>18, EndTyped DEF RequestDies, Fault, TypeOK, store
  <1>19. CASE UNCHANGED vars
    BY <1>19 DEF vars, store, requests, TypeOK, StoredIsValid, Valid, TypeKnown, DeclaredFits, Type
  <1> QED
    BY <1>1, <1>2, <1>3, <1>4, <1>6, <1>7, <1>8, <1>9, <1>10, <1>11, <1>12, <1>13, <1>14,
       <1>15, <1>16, <1>17, <1>18, <1>19 DEF Next, Client, Upload, Deletion

\* Every variable keeps its type, and no session writes a row of another shape.  What is
\* in the store need not be valid: a direct PUT stores whatever the client sends.
THEOREM UploadTyped == Spec => []TypeOK
  <1>1. TypeInv => TypeOK  BY DEF TypeInv
  <1> QED  BY <1>1, TypeInit, TypeStep, PTL DEF Spec

-----------------------------------------------------------------------------
(* A ready asset has its object *)

LEMMA KeysInit == Init => RowExists /\ KeysStored
  BY DEF Init, RowExists, KeysStored, NoRow

LEMMA RowExistsStep == TypeInv /\ RowExists /\ [Next]_vars => RowExists'
  <1> SUFFICES ASSUME TypeInv, RowExists, [Next]_vars PROVE RowExists'
    OBVIOUS
  <1>1. ASSUME row' = row, presigned = "none" => presigned' = "none",
               \A r \in Requests : pc'[r] \in {"new", "done", pc[r]}
        PROVE  RowExists'
    BY <1>1 DEF RowExists
  <1>2. ASSUME row'.status # "absent" PROVE RowExists'
    BY <1>2 DEF RowExists
  <1>3. ASSUME NEW r \in Requests, pc[r] \notin {"new", "done"}, NEW changed \in Row,
               row' = Flush(r, changed), changed.status # "absent"
        PROVE  RowExists'
    <2>1. row.status # "absent"  BY <1>3 DEF RowExists
    <2>2. row'.status # "absent"
      BY <1>3, <2>1, FlushTyped DEF TypeInv
    <2> QED  BY <2>2, <1>2
  <1>4. CASE Client \/ Job
    <2>1. CASE CreateUploadUrl
      BY <1>2, <2>1 DEF CreateUploadUrl, NewRow, NoRow
    <2>2. CASE ~CreateUploadUrl
      BY <1>1, <1>4, <2>2 DEF Client, Job, DirectPut, PresignExpires, ProcessAsset,
         RunLoadsAsset, RunReadsObject, requests, store
    <2> QED  BY <2>1, <2>2
  <1>5. ASSUME NEW r \in Requests, NEW next, Load(r, next) PROVE RowExists'
    BY <1>2, <1>5 DEF Load
  <1>6. ASSUME NEW r \in Requests, UploadAsset(r) PROVE RowExists'
    BY <1>2, <1>6 DEF UploadAsset, NewRow, NoRow
  <1>7. ASSUME NEW r \in Requests, pc[r] \notin {"new", "done"}, row' = row, NEW next,
               Goto(r, next)
        PROVE  RowExists'
    BY <1>7 DEF RowExists, Goto, TypeInv, TypeOK
  <1>8. ASSUME NEW r \in Requests, Upload(r) PROVE RowExists'
    <2>1. CASE UploadAssetContent(r) \/ CompleteUpload(r)
      BY <1>5, <2>1 DEF UploadAssetContent, CompleteUpload
    <2>2. CASE ReceiveBody(r) \/ FetchUploaded(r) \/ UploadIncomplete(r) \/ Store(r)
      BY <1>7, <2>2 DEF ReceiveBody, FetchUploaded, UploadIncomplete, Store, End
    <2>3. CASE Reject(r)
      <3>1. [loaded[r] EXCEPT !.status = "failed"] \in Row
            /\ [loaded[r] EXCEPT !.status = "failed"].status = "failed"
        BY DEF TypeInv, TypeOK, Row, AssetStatus
      <3> QED  BY <1>3, <2>3, <3>1 DEF Reject
    <2>4. CASE Finalise(r)
      <3>1. got[r].content \in Contents /\ Type(r) \in Types
        BY <2>4, ValidTyped DEF Finalise, StoredIsValid, TypeInv
      <3> DEFINE changed == [status |-> "ready", key |-> StorageKey(r), type |-> Type(r),
                             hash |-> got[r].content]
      <3>2. changed \in Row /\ changed.status # "absent"
        BY <3>1 DEF StorageKey, Row, AssetStatus
      <3>3. row' = Flush(r, changed) /\ pc[r] \notin {"new", "done"}
        BY <2>4 DEF Finalise
      <3> HIDE DEF changed
      <3> QED  BY <1>3, <3>2, <3>3
    <2> QED  BY <1>6, <1>8, <2>1, <2>2, <2>3, <2>4 DEF Upload
  <1>9. ASSUME NEW r \in Requests, Deletion(r) PROVE RowExists'
    <2>1. CASE DeleteAsset(r)
      BY <1>5, <2>1 DEF DeleteAsset
    <2>2. CASE CommitDelete(r)
      <3>1. [loaded[r] EXCEPT !.status = "deleted"] \in Row
            /\ [loaded[r] EXCEPT !.status = "deleted"].status = "deleted"
        BY DEF TypeInv, TypeOK, Row, AssetStatus
      <3> QED  BY <1>3, <2>2, <3>1 DEF CommitDelete
    <2>3. CASE RemoveObject(r)
      BY <1>7, <2>3 DEF RemoveObject, End
    <2> QED  BY <1>9, <2>1, <2>2, <2>3 DEF Deletion
  <1>10. ASSUME NEW r \in Requests, RequestDies(r) PROVE RowExists'
    BY <1>7, <1>10 DEF RequestDies, InFlight, End
  <1>11. CASE UNCHANGED vars
    BY <1>1, <1>11 DEF vars, requests, store
  <1> QED
    BY <1>4, <1>8, <1>9, <1>10, <1>11 DEF Next

\* A step that leaves the row alone, loses no object and deletes nothing.
LEMMA KeysQuiet ==
    ASSUME Inv, ~deletes, row' = row,
           DOMAIN objects \subseteq DOMAIN objects',
           NEW r \in Requests,
           \A q \in Requests \ {r} :
              pc'[q] = pc[q] /\ loaded'[q] = loaded[q] /\ got'[q] = got[q],
           pc'[r] \notin {"deleting", "removing"},
           loaded'[r].key # Guess => loaded[r].key # Guess \/ row.key # Guess,
           pc'[r] = "stored" => Type(r)' \in DOMAIN objects'
    PROVE  KeysStored'
  <1>1. \A q \in Requests :
          /\ pc'[q] \notin {"deleting", "removing"}
          /\ loaded'[q].key # Guess => row'.key \in DOMAIN objects'
          /\ pc'[q] = "stored" => Type(q)' \in DOMAIN objects'
    <2> SUFFICES ASSUME NEW q \in Requests
                 PROVE  /\ pc'[q] \notin {"deleting", "removing"}
                        /\ loaded'[q].key # Guess => row'.key \in DOMAIN objects'
                        /\ pc'[q] = "stored" => Type(q)' \in DOMAIN objects'
      OBVIOUS
    <2>1. CASE q = r
      BY <2>1 DEF Inv, KeysStored
    <2>2. CASE q # r
      <3>1. pc'[q] = pc[q] /\ loaded'[q] = loaded[q] /\ got'[q] = got[q]
        BY <2>2
      <3> QED  BY <3>1 DEF Inv, KeysStored, Type
    <2> QED  BY <2>1, <2>2
  <1> QED  BY <1>1 DEF Inv, KeysStored

\* What an upload session flushes names the key the row has, or that of an
\* object which is stored.
LEMMA KeysFlush ==
    ASSUME Inv, ~deletes, NEW r \in Requests, End(r), objects' = objects,
           NEW changed \in Row, row' = Flush(r, changed),
           changed.status \in {"ready", "failed"},
           \/ changed.key = loaded[r].key /\ changed.status = "failed"
           \/ changed.key \in DOMAIN objects
    PROVE  KeysStored'
  <1>1. /\ row'.status = row.status \/ row'.status = changed.status
        /\ row'.key = IF changed.key = loaded[r].key THEN row.key ELSE changed.key
    BY FlushTyped DEF Inv, TypeInv
  <1>2. row.key = Guess \/ row.key \in DOMAIN objects
    BY DEF Inv, KeysStored
  <1>3. row'.key = row.key \/ row'.key \in DOMAIN objects
    BY <1>1
  <1>4. row'.key # Guess => row'.key \in DOMAIN objects
    BY <1>2, <1>3
  <1>5. row'.status = "ready" => row'.key \in DOMAIN objects
    <2>1. CASE changed.status = "failed"
      BY <1>1, <1>3, <2>1 DEF Inv, KeysStored
    <2>2. CASE changed.key \in DOMAIN objects
      BY <1>1, <1>2, <2>2 DEF Inv, KeysStored
    <2> QED  BY <2>1, <2>2
  <1>6. row'.status # "deleted"
    BY <1>1 DEF Inv, KeysStored
  <1>7. \A q \in Requests :
          /\ pc'[q] \notin {"deleting", "removing"}
          /\ loaded'[q].key # Guess => row'.key \in DOMAIN objects'
          /\ pc'[q] = "stored" => Type(q)' \in DOMAIN objects'
    <2> SUFFICES ASSUME NEW q \in Requests
                 PROVE  /\ pc'[q] \notin {"deleting", "removing"}
                        /\ loaded'[q].key # Guess => row'.key \in DOMAIN objects'
                        /\ pc'[q] = "stored" => Type(q)' \in DOMAIN objects'
      OBVIOUS
    <2>1. CASE q = r
      BY <2>1 DEF End, Goto, NoRow, Inv, TypeInv, TypeOK
    <2>2. CASE q # r
      <3>1. pc'[q] = pc[q] /\ loaded'[q] = loaded[q] /\ got'[q] = got[q]
        BY <2>2 DEF End, Goto, Inv, TypeInv, TypeOK
      <3> QED  BY <3>1, <1>3 DEF Inv, KeysStored, Type
    <2> QED  BY <2>1, <2>2
  <1> QED  BY <1>4, <1>5, <1>6, <1>7 DEF KeysStored

LEMMA KeysStep == Inv /\ [Next]_vars => KeysStored'
  <1> SUFFICES ASSUME Inv, [Next]_vars, ~deletes' PROVE KeysStored'
    BY DEF KeysStored
  <1>1. ~deletes
    BY DEF Next, Client, Upload, Deletion, Job, CreateUploadUrl, DirectPut, PresignExpires,
       ProcessAsset, RunLoadsAsset, RunReadsObject, UploadAsset, UploadAssetContent, ReceiveBody,
       CompleteUpload, FetchUploaded, UploadIncomplete, Reject, Store, Finalise, DeleteAsset,
       CommitDelete, RemoveObject, RequestDies, vars, requests
  <1>2. ASSUME NEW r \in Requests, objects' = objects, row.key = Guess,
               row'.status = "awaiting_upload", row'.key = Guess,
               \A q \in Requests \ {r} :
                  pc'[q] = pc[q] /\ loaded'[q] = loaded[q] /\ got'[q] = got[q],
               pc'[r] = "received", loaded'[r].key = Guess
        PROVE  KeysStored'
    <2>1. \A q \in Requests :
            /\ pc'[q] \notin {"deleting", "removing"}
            /\ loaded'[q].key # Guess => row'.key \in DOMAIN objects'
            /\ pc'[q] = "stored" => Type(q)' \in DOMAIN objects'
      <3> SUFFICES ASSUME NEW q \in Requests
                   PROVE  /\ pc'[q] \notin {"deleting", "removing"}
                          /\ loaded'[q].key # Guess => row'.key \in DOMAIN objects'
                          /\ pc'[q] = "stored" => Type(q)' \in DOMAIN objects'
        OBVIOUS
      <3>1. CASE q = r
        BY <1>1, <1>2, <3>1 DEF Inv, KeysStored, Type
      <3>2. CASE q # r
        <4>1. pc'[q] = pc[q] /\ loaded'[q] = loaded[q] /\ got'[q] = got[q]
          BY <1>2, <3>2
        <4> QED  BY <1>1, <1>2, <4>1 DEF Inv, KeysStored, Type
      <3> QED  BY <3>1, <3>2
    <2> QED  BY <1>2, <2>1 DEF KeysStored
  <1>3. ASSUME UNCHANGED <<row, requests>>, DOMAIN objects \subseteq DOMAIN objects'
        PROVE  KeysStored'
    BY <1>1, <1>3 DEF requests, Inv, KeysStored, Type
  <1>4. CASE Client
    <2>1. CASE CreateUploadUrl
      <3>1. row.status = "absent" /\ row.key = Guess
        BY <2>1 DEF CreateUploadUrl, Inv, RowExists
      <3>2. row'.status = "awaiting_upload" /\ row'.key = Guess
        BY <2>1 DEF CreateUploadUrl, NewRow, NoRow
      <3> QED
        BY <1>1, <2>1, <3>1, <3>2 DEF CreateUploadUrl, requests, Inv, KeysStored, Type
    <2>2. CASE DirectPut
      BY <1>3, <2>2 DEF DirectPut
    <2>3. CASE PresignExpires
      BY <1>3, <2>3 DEF PresignExpires
    <2> QED  BY <1>4, <2>1, <2>2, <2>3 DEF Client
  <1>5. CASE Job
    BY <1>3, <1>5 DEF Job, ProcessAsset, RunLoadsAsset, RunReadsObject, store
  <1>6. ASSUME NEW r \in Requests, NEW next \in {"receiving", "completing"}, Load(r, next)
        PROVE  KeysStored'
    <2>1. /\ \A q \in Requests \ {r} :
               pc'[q] = pc[q] /\ loaded'[q] = loaded[q] /\ got'[q] = got[q]
          /\ pc'[r] = next /\ loaded'[r] = row
      BY <1>6 DEF Load, Goto, Inv, TypeInv, TypeOK
    <2> QED  BY <1>1, <1>6, <2>1, KeysQuiet DEF Load, store
  <1>7. ASSUME NEW r \in Requests, NEW next, next \notin {"deleting", "removing", "stored"},
               Goto(r, next), row' = row, objects' = objects,
               \/ loaded' = loaded
               \/ loaded' = [loaded EXCEPT ![r] = NoRow],
               NEW payload, got' = [got EXCEPT ![r] = payload]
        PROVE  KeysStored'
    <2>1. /\ \A q \in Requests \ {r} :
               pc'[q] = pc[q] /\ loaded'[q] = loaded[q] /\ got'[q] = got[q]
          /\ pc'[r] = next
          /\ loaded'[r] = loaded[r] \/ loaded'[r] = NoRow
      BY <1>7 DEF Goto, Inv, TypeInv, TypeOK
    <2> QED  BY <1>1, <1>7, <2>1, KeysQuiet DEF NoRow
  <1>8. ASSUME NEW r \in Requests, Upload(r) PROVE KeysStored'
    <2>1. CASE UploadAssetContent(r) \/ CompleteUpload(r)
      BY <1>6, <2>1 DEF UploadAssetContent, CompleteUpload
    <2>2. CASE UploadAsset(r)
      <3>1. row.status = "absent" /\ row.key = Guess
        BY <2>2 DEF UploadAsset, Inv, RowExists
      <3>2. row'.status = "awaiting_upload" /\ row'.key = Guess
        BY <2>2 DEF UploadAsset, NewRow, NoRow
      <3>3. /\ \A q \in Requests \ {r} :
                 pc'[q] = pc[q] /\ loaded'[q] = loaded[q] /\ got'[q] = got[q]
            /\ pc'[r] = "received" /\ loaded'[r].key = Guess
        BY <2>2 DEF UploadAsset, Goto, NewRow, NoRow, Inv, TypeInv, TypeOK
      <3>4. objects' = objects
        BY <2>2 DEF UploadAsset, store
      <3> QED  BY <1>2, <3>1, <3>2, <3>3, <3>4
    <2>3. CASE ReceiveBody(r) \/ FetchUploaded(r)
      BY <1>7, <2>3 DEF ReceiveBody, FetchUploaded, store
    <2>4. CASE UploadIncomplete(r)
      BY <1>7, <2>4 DEF UploadIncomplete, End, store
    <2>5. CASE Reject(r)
      <3> DEFINE changed == [loaded[r] EXCEPT !.status = "failed"]
      <3>1. changed \in Row /\ changed.status = "failed" /\ changed.key = loaded[r].key
        BY DEF Inv, TypeInv, TypeOK, Row, AssetStatus
      <3>2. row' = Flush(r, changed) /\ End(r) /\ objects' = objects
        BY <2>5 DEF Reject, store
      <3> HIDE DEF changed
      <3> QED  BY <1>1, <3>1, <3>2, KeysFlush
    <2>6. CASE Store(r)
      <3>1. /\ \A q \in Requests \ {r} :
                 pc'[q] = pc[q] /\ loaded'[q] = loaded[q] /\ got'[q] = got[q]
            /\ pc'[r] = "stored" /\ loaded'[r] = loaded[r] /\ Type(r)' = Type(r)
        BY <2>6 DEF Store, Goto, Type, Inv, TypeInv, TypeOK
      <3>2. DOMAIN objects' = DOMAIN objects \cup {Type(r)} /\ row' = row
        BY <2>6 DEF Store
      <3> QED  BY <1>1, <3>1, <3>2, KeysQuiet
    <2>7. CASE Finalise(r)
      <3>1. got[r].content \in Contents /\ Type(r) \in Types
        BY <2>7, ValidTyped DEF Finalise, StoredIsValid, Inv, TypeInv
      <3> DEFINE changed == [status |-> "ready", key |-> StorageKey(r), type |-> Type(r),
                             hash |-> got[r].content]
      <3>2. changed \in Row /\ changed.status = "ready" /\ changed.key = Type(r)
        BY <3>1 DEF StorageKey, Row, AssetStatus
      <3>3. row' = Flush(r, changed) /\ End(r) /\ objects' = objects
        BY <2>7 DEF Finalise, store
      <3>4. Type(r) \in DOMAIN objects
        BY <1>1, <2>7 DEF Finalise, Inv, KeysStored
      <3> HIDE DEF changed
      <3> QED  BY <1>1, <3>2, <3>3, <3>4, KeysFlush DEF Inv, TypeInv
    <2> QED  BY <1>8, <2>1, <2>2, <2>3, <2>4, <2>5, <2>6, <2>7 DEF Upload
  <1>9. ASSUME NEW r \in Requests, Deletion(r) PROVE KeysStored'
    BY <1>1, <1>9 DEF Deletion, DeleteAsset, CommitDelete, RemoveObject, Inv, KeysStored
  <1>10. ASSUME NEW r \in Requests, RequestDies(r) PROVE KeysStored'
    BY <1>7, <1>10 DEF RequestDies, End, store
  <1>11. CASE UNCHANGED vars
    BY <1>3, <1>11 DEF vars, store
  <1> QED
    BY <1>4, <1>5, <1>8, <1>9, <1>10, <1>11 DEF Next

\* Until a delete is requested, a ready asset's key is that of a stored object:
\* uploads of different types may race on the row, each flushing only the
\* columns it changed, but a key gets into the row after its object is stored.
THEOREM ReadyIsServable == Spec => []ReadyHasObject
  <1>1. Inv => ReadyHasObject
    BY DEF Inv, KeysStored, ReadyHasObject
  <1>2. Init => Inv
    BY TypeInit, KeysInit DEF Inv
  <1>3. Inv /\ [Next]_vars => Inv'
    BY TypeStep, RowExistsStep, KeysStep DEF Inv
  <1> QED  BY <1>1, <1>2, <1>3, PTL DEF Spec

-----------------------------------------------------------------------------
(* Nothing unvalidated gets in *)

ValidInv == TypeInv /\ RowExists /\ OnlyValidated

LEMMA ValidStep == ValidInv /\ [Next]_vars => OnlyValidated'
  <1> SUFFICES ASSUME ValidInv, [Next]_vars PROVE OnlyValidated'
    OBVIOUS
  <1>1. ASSUME row'.hash \in {row.hash, NoContent}, presigned' = "none" => presigned = "none",
               DOMAIN objects' \subseteq DOMAIN objects,
               \A t \in DOMAIN objects' : objects'[t] = objects[t]
        PROVE  OnlyValidated'
    BY <1>1 DEF ValidInv, OnlyValidated
  <1>2. CASE CreateUploadUrl
    BY <1>2 DEF CreateUploadUrl, NewRow, NoRow, ValidInv, RowExists, OnlyValidated
  <1>3. CASE DirectPut
    BY <1>3 DEF DirectPut, ValidInv, OnlyValidated
  <1>4. ASSUME UNCHANGED <<row, objects>>, presigned' = "none" => presigned = "none"
        PROVE  OnlyValidated'
    BY <1>1, <1>4
  <1>5. CASE PresignExpires \/ Job
    BY <1>4, <1>5 DEF PresignExpires, Job, ProcessAsset, RunLoadsAsset, RunReadsObject, store
  <1>6. ASSUME NEW r \in Requests, NEW changed \in Row, row' = Flush(r, changed),
               changed.hash \in {loaded[r].hash, got[r].content},
               TypeOf[got[r].content] # NoType \/ changed.hash = loaded[r].hash,
               UNCHANGED store
        PROVE  OnlyValidated'
    <2>1. \/ row'.hash = row.hash
          \/ row'.hash = changed.hash /\ changed.hash # loaded[r].hash
      BY <1>6, FlushTyped DEF ValidInv, TypeInv
    <2>2. objects' = objects /\ presigned' = presigned
      BY <1>6 DEF store
    <2>3. CASE row'.hash = row.hash
      BY <1>1, <2>2, <2>3
    <2>4. CASE row'.hash = got[r].content /\ TypeOf[got[r].content] # NoType
      BY <2>2, <2>4 DEF ValidInv, OnlyValidated
    <2> QED  BY <1>6, <2>1, <2>3, <2>4
  <1>7. ASSUME NEW r \in Requests, Upload(r)
        PROVE  OnlyValidated'
    <2>1. CASE UploadAsset(r)
      <3>1. row'.hash = NoContent
        BY <2>1 DEF UploadAsset, NewRow, NoRow
      <3>2. objects' = objects /\ presigned' = presigned
        BY <2>1 DEF UploadAsset, store
      <3> QED  BY <1>1, <3>1, <3>2
    <2>2. CASE UploadAssetContent(r) \/ ReceiveBody(r) \/ CompleteUpload(r)
               \/ FetchUploaded(r) \/ UploadIncomplete(r)
      BY <1>4, <2>2 DEF UploadAssetContent, ReceiveBody, CompleteUpload, FetchUploaded,
         UploadIncomplete, Load, store
    <2>3. CASE Reject(r)
      <3>1. [loaded[r] EXCEPT !.status = "failed"] \in Row
            /\ [loaded[r] EXCEPT !.status = "failed"].hash = loaded[r].hash
        BY DEF ValidInv, TypeInv, TypeOK, Row, AssetStatus
      <3> QED  BY <1>6, <2>3, <3>1 DEF Reject
    <2>4. CASE Store(r)
      <3>1. row' = row /\ presigned' = presigned
        BY <2>4 DEF Store
      <3>2. \A t \in DOMAIN objects' :
              IF t = Type(r) THEN objects'[t] = got[r].content
                             ELSE t \in DOMAIN objects /\ objects'[t] = objects[t]
        BY <2>4 DEF Store
      <3> QED  BY <3>1, <3>2 DEF ValidInv, OnlyValidated, Type
    <2>5. CASE Finalise(r)
      <3>1. got[r].content \in Contents /\ Type(r) \in Types
        BY <2>5, ValidTyped DEF Finalise, StoredIsValid, ValidInv, TypeInv
      <3> DEFINE changed == [status |-> "ready", key |-> StorageKey(r), type |-> Type(r),
                             hash |-> got[r].content]
      <3>2. changed \in Row /\ changed.hash = got[r].content
        BY <3>1 DEF StorageKey, Row, AssetStatus
      <3>3. row' = Flush(r, changed) /\ UNCHANGED store
        BY <2>5 DEF Finalise
      <3>4. TypeOf[got[r].content] # NoType
        BY <3>1 DEF Type
      <3> HIDE DEF changed
      <3> QED  BY <1>6, <3>2, <3>3, <3>4
    <2> QED  BY <1>7, <2>1, <2>2, <2>3, <2>4, <2>5 DEF Upload
  <1>8. ASSUME NEW r \in Requests, Deletion(r)
        PROVE  OnlyValidated'
    <2>1. CASE DeleteAsset(r)
      BY <1>4, <2>1 DEF DeleteAsset, Load, store
    <2>2. CASE CommitDelete(r)
      <3>1. [loaded[r] EXCEPT !.status = "deleted"] \in Row
            /\ [loaded[r] EXCEPT !.status = "deleted"].hash = loaded[r].hash
        BY DEF ValidInv, TypeInv, TypeOK, Row, AssetStatus
      <3> QED  BY <1>6, <2>2, <3>1 DEF CommitDelete
    <2>3. CASE RemoveObject(r)
      BY <1>1, <2>3 DEF RemoveObject
    <2> QED  BY <1>8, <2>1, <2>2, <2>3 DEF Deletion
  <1>9. ASSUME NEW r \in Requests, RequestDies(r)
        PROVE  OnlyValidated'
    BY <1>4, <1>9 DEF RequestDies, store
  <1>10. CASE UNCHANGED vars
    BY <1>4, <1>10 DEF vars, store
  <1> QED
    BY <1>2, <1>3, <1>5, <1>7, <1>8, <1>9, <1>10 DEF Next, Client

\* The hash a job is keyed by is of validated bytes, and unless the client was
\* given a presigned URL every object has the type its key says.
THEOREM UploadsAreValidated == Spec => []OnlyValidated
  <1>1. ValidInv => OnlyValidated
    BY DEF ValidInv
  <1>2. Init => ValidInv
    BY TypeInit, KeysInit DEF Init, NoRow, ValidInv, OnlyValidated
  <1>3. ValidInv /\ [Next]_vars => ValidInv'
    BY TypeStep, RowExistsStep, ValidStep DEF ValidInv
  <1> QED  BY <1>1, <1>2, <1>3, PTL DEF Spec

\* A ready asset can be downloaded until somebody deletes it, and nothing invalid is
\* served or keyed by.
THEOREM UploadsAreServed == Spec => []ServesValidated
  BY ReadyIsServable, UploadsAreValidated, PTL DEF ServesValidated

-----------------------------------------------------------------------------
(***************************************************************************)
(* Clients that wait for each other.  The one request in flight works on   *)
(* the row as it is, so what it flushes is what it changed; and from the   *)
(* first success to the delete nothing else writes the row or its object.  *)
(***************************************************************************)

Open == {"awaiting_upload", "failed"}

Alone == \A q, r \in InFlight : q = r

SessionCurrent(r) ==
    /\ pc[r] \in {"receiving", "completing", "received", "stored"} =>
           loaded[r] = row /\ row.status \in Open
    /\ pc[r] = "deleting" => loaded[r] = row /\ row.status \in Open \cup {"ready"}
    /\ pc[r] = "removing" => row.status = "deleted" /\ loaded[r].key = row.key
    /\ pc[r] = "stored" => Type(r) \in DOMAIN objects /\ objects[Type(r)] = got[r].content

Described ==
    row.status = "ready" =>
        /\ row.key \in DOMAIN objects /\ objects[row.key] = row.hash
        /\ row.hash \in Contents /\ row.type = TypeOf[row.hash]

JobMatches ==
    /\ job.state # "none" =>
           /\ row.status \in {"ready", "deleted"} /\ job.hash = row.hash
           /\ row.key \in DOMAIN objects => objects[row.key] = row.hash
    /\ job.state = "loaded" => job.key = row.key
    /\ job.state = "read" => job.input = job.hash

NothingLeft ==
    faults = 0 =>
        /\ row.status \in Open \cup {"absent"} =>
               \/ DOMAIN objects = {}
               \/ \E r \in Requests : pc[r] = "stored" /\ DOMAIN objects = {Type(r)}
        /\ row.status = "ready" => DOMAIN objects = {row.key}
        /\ row.status = "deleted" =>
               \/ DOMAIN objects = {}
               \/ \E r \in Requests : pc[r] = "removing" /\ DOMAIN objects \subseteq {row.key}

InTurn ==
    /\ Alone
    /\ \A r \in Requests : SessionCurrent(r)
    /\ Described
    /\ JobMatches
    /\ NothingLeft

SerialInv == TypeInv /\ RowExists /\ IsFiniteSet(InFlight) /\ (serial => InTurn)

LEMMA SerialInitial == SerialInit => SerialInv
  <1> SUFFICES ASSUME Init, serial = TRUE PROVE SerialInv
    BY DEF SerialInit
  <1>1. TypeInv /\ RowExists  BY TypeInit, KeysInit
  <1>2. InFlight = {} /\ IsFiniteSet(InFlight)  BY FS_EmptySet DEF Init, InFlight
  <1>3. Alone /\ (\A r \in Requests : SessionCurrent(r))
    BY <1>2 DEF Alone, Init, SessionCurrent
  <1>4. Described /\ JobMatches /\ NothingLeft
    BY DEF Init, NoRow, NoJob, Described, JobMatches, NothingLeft
  <1> QED  BY <1>1, <1>2, <1>3, <1>4 DEF SerialInv, InTurn

\* A request's step moves that request alone.
LEMMA OthersStay ==
    ASSUME TypeInv, NEW r \in Requests, Upload(r) \/ Deletion(r) \/ RequestDies(r)
    PROVE  \A q \in Requests \ {r} :
             pc'[q] = pc[q] /\ loaded'[q] = loaded[q] /\ got'[q] = got[q]
  <1> USE DEF Goto, End, Load, TypeInv, TypeOK
  <1>1. CASE Upload(r)
    BY <1>1 DEF Upload, UploadAsset, UploadAssetContent, ReceiveBody, CompleteUpload,
       FetchUploaded, UploadIncomplete, Reject, Store, Finalise
  <1>2. CASE Deletion(r) \/ RequestDies(r)
    BY <1>2 DEF Deletion, DeleteAsset, CommitDelete, RemoveObject, RequestDies
  <1> QED  BY <1>1, <1>2

LEMMA FlightFinite ==
    ASSUME TypeInv, IsFiniteSet(InFlight), [Next]_vars
    PROVE  IsFiniteSet(InFlight')
  <1>1. CASE \E r \in Requests : Upload(r) \/ Deletion(r) \/ RequestDies(r)
    <2>1. PICK r \in Requests : Upload(r) \/ Deletion(r) \/ RequestDies(r)  BY <1>1
    <2>2. \A q \in Requests \ {r} : pc'[q] = pc[q]  BY <2>1, OthersStay
    <2>3. InFlight' \in SUBSET (InFlight \cup {r})  BY <2>2 DEF InFlight
    <2>4. IsFiniteSet(InFlight \cup {r})  BY FS_AddElement
    <2> QED  BY <2>3, <2>4, FS_Subset
  <1>2. CASE Client \/ Job \/ UNCHANGED vars
    <2>1. pc' = pc
      BY <1>2 DEF Client, CreateUploadUrl, DirectPut, PresignExpires, Job, ProcessAsset,
         RunLoadsAsset, RunReadsObject, requests, vars
    <2> QED  BY <2>1 DEF InFlight
  <1> QED  BY <1>1, <1>2 DEF Next

LEMMA AtMostOne ==
    ASSUME NEW S, IsFiniteSet(S), Cardinality(S) <= 1
    PROVE  \A x, y \in S : x = y
  <1>1. Cardinality(S) \in Nat  BY FS_CardinalityType
  <1>2. CASE Cardinality(S) = 0  BY <1>2, FS_EmptySet
  <1>3. CASE Cardinality(S) = 1
    <2>1. PICK z : S = {z}  BY <1>3, FS_Singleton
    <2> QED  BY <2>1
  <1> QED  BY <1>1, <1>2, <1>3

\* A session whose copy is the row writes what it changed.
LEMMA CurrentFlush ==
    ASSUME TypeOK, NEW r \in Requests, loaded[r] = row, NEW changed \in Row
    PROVE  Flush(r, changed) = changed
  <1>1. /\ Flush(r, changed) \in Row
        /\ \A c \in {"status", "key", "type", "hash"} : Flush(r, changed)[c] = changed[c]
    BY FlushTyped
  <1> QED  BY <1>1 DEF Row

\* A step of the client or of the job: no request is in flight when the row changes.
LEMMA QuietSteps ==
    ASSUME TypeInv, RowExists, InTurn, CreateUploadUrl \/ PresignExpires \/ Job \/ UNCHANGED vars
    PROVE  (\A r \in Requests : SessionCurrent(r))' /\ Described' /\ JobMatches' /\ NothingLeft'
  <1> USE DEF InTurn
  <1>1. objects' = objects /\ UNCHANGED <<pc, loaded, got, faults>>
    BY DEF CreateUploadUrl, PresignExpires, Job, ProcessAsset, RunLoadsAsset, RunReadsObject,
       requests, store, vars
  <1>2. CASE CreateUploadUrl
    <2>1. /\ row.status = "absent" /\ \A r \in Requests : pc[r] \in {"new", "done"}
          /\ row'.status = "awaiting_upload" /\ job' = job
      BY <1>2 DEF CreateUploadUrl, RowExists, NewRow, NoRow
    <2>2. (\A r \in Requests : SessionCurrent(r))' /\ Described'
      BY <1>1, <2>1 DEF SessionCurrent, Described
    <2>3. JobMatches'  BY <2>1 DEF JobMatches
    <2>4. NothingLeft'  BY <1>1, <2>1 DEF NothingLeft, Open
    <2> QED  BY <2>2, <2>3, <2>4
  <1>3. CASE row' = row
    <2>1. (\A r \in Requests : SessionCurrent(r))' /\ Described' /\ NothingLeft'
      BY <1>1, <1>3 DEF SessionCurrent, Described, NothingLeft, Type
    <2>2. JobMatches'
      <3>1. CASE job' = job  BY <1>1, <1>3, <3>1 DEF JobMatches
      <3>2. CASE Job
        <4>1. job \in [state : {"none", "queued", "loaded", "read", "missing"},
                       hash : Contents \cup {NoContent}, key : Types,
                       input : Contents \cup {NoContent}]
          BY DEF TypeInv, TypeOK
        <4> QED
          BY <1>1, <1>3, <3>2, <4>1 DEF Job, ProcessAsset, RunLoadsAsset, RunReadsObject, JobMatches,
             Described
      <3> QED  BY <1>2, <3>1, <3>2 DEF CreateUploadUrl, PresignExpires, vars
    <2> QED  BY <2>1, <2>2
  <1> QED
    BY <1>2, <1>3 DEF PresignExpires, Job, ProcessAsset, RunLoadsAsset, RunReadsObject, vars

\* Only the one request is in flight before and after its step.
LEMMA OthersIdle ==
    ASSUME TypeInv, Alone, Alone', NEW r \in Requests, Upload(r) \/ Deletion(r) \/ RequestDies(r)
    PROVE  \A q \in Requests \ {r} : pc[q] \in {"new", "done"} /\ pc'[q] = pc[q]
  <1>1. \A q \in Requests \ {r} : pc'[q] = pc[q]  BY OthersStay
  <1>2. r \in InFlight \/ r \in InFlight'
    BY DEF Upload, UploadAsset, UploadAssetContent, ReceiveBody, CompleteUpload,
       FetchUploaded, UploadIncomplete, Reject, Store, Finalise, Deletion, DeleteAsset,
       CommitDelete, RemoveObject, RequestDies, Load, Goto, InFlight, TypeInv, TypeOK
  <1> QED  BY <1>1, <1>2 DEF Alone, InFlight

Kept == (\A r \in Requests : SessionCurrent(r)) /\ Described /\ JobMatches /\ NothingLeft

\* A request that reads: the row, the object and the job stay as they are.
LEMMA ReadingSteps ==
    ASSUME TypeInv, TypeInv', RowExists, InTurn, NEW r \in Requests,
           \A q \in Requests \ {r} : pc[q] \in {"new", "done"} /\ pc'[q] = pc[q],
           \/ UploadAssetContent(r) \/ ReceiveBody(r) \/ CompleteUpload(r) \/ FetchUploaded(r)
           \/ UploadIncomplete(r) \/ DeleteAsset(r)
    PROVE  Kept'
  <1>1. UNCHANGED <<row, objects, job, faults>>
    BY DEF UploadAssetContent, ReceiveBody, CompleteUpload, FetchUploaded, UploadIncomplete,
       DeleteAsset, Load, store
  <1>2. /\ pc'[r] \in {"receiving", "completing", "received", "deleting", "done"}
        /\ pc[r] \notin {"stored", "removing"}
    BY DEF UploadAssetContent, ReceiveBody, CompleteUpload, FetchUploaded, UploadIncomplete,
       DeleteAsset, Load, Goto, End, TypeInv, TypeOK
  <1>3. SessionCurrent(r)'
    <2>1. CASE UploadAssetContent(r) \/ CompleteUpload(r) \/ DeleteAsset(r)
      <3>1. /\ loaded'[r] = row /\ row.status \notin {"absent", "deleted"} /\ row.status \in AssetStatus \cup {"absent"}
            /\ pc'[r] = "deleting" \/ row.status # "ready"
        BY <2>1 DEF UploadAssetContent, CompleteUpload, DeleteAsset, NotYetReady, Load, Goto,
           TypeInv, TypeOK, Row
      <3>2. row.status \in Open \cup {"ready"}  BY <3>1 DEF Open, AssetStatus
      <3> QED  BY <1>1, <1>2, <3>1, <3>2 DEF SessionCurrent
    <2>2. CASE ReceiveBody(r) \/ FetchUploaded(r)
      <3>1. pc[r] \in {"receiving", "completing"} /\ loaded'[r] = loaded[r] /\ pc'[r] = "received"
        BY <2>2 DEF ReceiveBody, FetchUploaded, Goto, TypeInv, TypeOK
      <3> QED  BY <1>1, <3>1 DEF SessionCurrent, InTurn
    <2>3. CASE UploadIncomplete(r)
      <3>1. pc'[r] = "done"  BY <2>3 DEF UploadIncomplete, End, Goto, TypeInv, TypeOK
      <3> QED  BY <3>1 DEF SessionCurrent
    <2> QED  BY <2>1, <2>2, <2>3
  <1>4. (\A q \in Requests : SessionCurrent(q))'
    BY <1>3 DEF SessionCurrent
  <1>5. Described' /\ JobMatches'  BY <1>1 DEF InTurn, Described, JobMatches
  <1>6. NothingLeft'
    <2>1. \A q \in Requests : pc[q] \notin {"stored", "removing"}  BY <1>2
    <2> QED  BY <1>1, <2>1 DEF InTurn, NothingLeft
  <1> QED  BY <1>4, <1>5, <1>6 DEF Kept

LEMMA WritingSteps ==
    ASSUME TypeInv, TypeInv', RowExists, InTurn, NEW r \in Requests,
           \A q \in Requests \ {r} : pc[q] \in {"new", "done"} /\ pc'[q] = pc[q],
           \/ UploadAsset(r) \/ Reject(r) \/ Store(r) \/ Finalise(r)
           \/ CommitDelete(r) \/ RemoveObject(r) \/ RequestDies(r)
    PROVE  Kept'
  <1> USE DEF TypeInv, TypeOK
  <1>0. /\ SessionCurrent(r) /\ Described /\ JobMatches /\ NothingLeft
        /\ row.status \in AssetStatus \cup {"absent"} /\ row \in Row /\ loaded[r] \in Row
    BY DEF InTurn, Row
  <1>1. ASSUME SessionCurrent(r)' PROVE (\A q \in Requests : SessionCurrent(q))'
    BY <1>1 DEF SessionCurrent
  <1>2. ASSUME pc'[r] = "done" PROVE SessionCurrent(r)'
    BY <1>2 DEF SessionCurrent
  <1>3. CASE UploadAsset(r)
    <2>1. /\ row.status = "absent" /\ row'.status = "awaiting_upload"
          /\ loaded'[r] = row' /\ pc'[r] = "received" /\ pc[r] = "new"
          /\ UNCHANGED <<objects, job, faults>>
      BY <1>3 DEF UploadAsset, NewRow, NoRow, Goto, store
    <2>2. SessionCurrent(r)' /\ Described'  BY <2>1 DEF SessionCurrent, Described, Open
    <2>3. JobMatches'  BY <1>0, <2>1 DEF JobMatches
    <2>4. NothingLeft'
      <3>1. \A q \in Requests : pc[q] # "stored"  BY <2>1
      <3> QED  BY <1>0, <2>1, <3>1 DEF NothingLeft, Open
    <2> QED  BY <1>1, <2>2, <2>3, <2>4 DEF Kept
  <1>4. CASE Reject(r)
    <2>1. pc[r] = "received" /\ pc'[r] = "done" /\ UNCHANGED <<objects, job, faults>>
      BY <1>4 DEF Reject, End, Goto, store
    <2>2. loaded[r] = row /\ row.status \in Open  BY <1>0, <2>1 DEF SessionCurrent
    <2>3. [row EXCEPT !.status = "failed"] \in Row  BY <1>0 DEF Row, AssetStatus
    <2>4. row' = [row EXCEPT !.status = "failed"]
      BY <1>4, <2>2, <2>3, CurrentFlush DEF Reject
    <2>5. row'.status = "failed"  BY <1>0, <2>4 DEF Row
    <2>6. JobMatches'  BY <1>0, <2>1, <2>2 DEF JobMatches, Open
    <2>7. NothingLeft'
      <3>1. \A q \in Requests : pc[q] # "stored"  BY <2>1
      <3> QED  BY <1>0, <2>1, <2>2, <2>5, <3>1 DEF NothingLeft, Open
    <2>8. SessionCurrent(r)' /\ Described'  BY <1>2, <2>1, <2>5 DEF Described
    <2> QED  BY <1>1, <2>6, <2>7, <2>8 DEF Kept
  <1>5. CASE Store(r)
    <2>1. /\ pc[r] = "received" /\ pc'[r] = "stored" /\ UNCHANGED <<row, job, faults>>
          /\ loaded'[r] = loaded[r] /\ got'[r] = got[r] /\ Type(r)' = Type(r)
          /\ objects' = [t \in DOMAIN objects \cup {Type(r)} |->
                           IF t = Type(r) THEN got[r].content ELSE objects[t]]
      BY <1>5 DEF Store, Goto, Type
    <2>2. loaded[r] = row /\ row.status \in Open  BY <1>0, <2>1 DEF SessionCurrent
    <2>3. SessionCurrent(r)'  BY <2>1, <2>2 DEF SessionCurrent
    <2>4. Described' /\ JobMatches'  BY <1>0, <2>1, <2>2 DEF Described, JobMatches, Open
    <2>5. NothingLeft'
      <3>1. \A q \in Requests : pc[q] # "stored"  BY <2>1
      <3>2. faults = 0 => DOMAIN objects' = {Type(r)}
        BY <1>0, <2>1, <2>2, <3>1 DEF NothingLeft
      <3> QED  BY <2>1, <2>2, <3>2 DEF NothingLeft, Open
    <2> QED  BY <1>1, <2>3, <2>4, <2>5 DEF Kept
  <1>6. CASE Finalise(r)
    <2>1. pc[r] = "stored" /\ pc'[r] = "done" /\ UNCHANGED <<objects, job, faults>>
      BY <1>6 DEF Finalise, End, Goto, store
    <2>2. loaded[r] = row /\ row.status \in Open  BY <1>0, <2>1 DEF SessionCurrent
    <2>3. got[r].content \in Contents /\ Type(r) \in Types
      BY <2>1, ValidTyped DEF StoredIsValid
    <2> DEFINE changed == [status |-> "ready", key |-> StorageKey(r), type |-> Type(r),
                           hash |-> got[r].content]
    <2>4. changed \in Row  BY <2>3 DEF StorageKey, Row, AssetStatus
    <2>5. row' = changed  BY <1>6, <2>2, <2>4, CurrentFlush DEF Finalise
    <2>6. Described'
      BY <1>0, <2>1, <2>3, <2>5 DEF Described, SessionCurrent, StorageKey, Type
    <2>7. JobMatches'  BY <1>0, <2>1, <2>2 DEF JobMatches, Open
    <2>8. NothingLeft'
      <3>1. faults = 0 => DOMAIN objects = {Type(r)}
        <4>1. Type(r) \in DOMAIN objects  BY <1>0, <2>1 DEF SessionCurrent
        <4>2. \A q \in Requests : pc[q] = "stored" => q = r  OBVIOUS
        <4> QED  BY <1>0, <2>2, <4>1, <4>2 DEF NothingLeft
      <3> QED  BY <2>1, <2>5, <3>1 DEF NothingLeft, StorageKey, Open
    <2> QED  BY <1>1, <1>2, <2>1, <2>6, <2>7, <2>8 DEF Kept
  <1>7. CASE CommitDelete(r)
    <2>1. /\ pc[r] = "deleting" /\ pc'[r] = "removing" /\ UNCHANGED <<objects, job, faults>>
          /\ loaded'[r] = loaded[r]
      BY <1>7 DEF CommitDelete, Goto, store
    <2>2. loaded[r] = row /\ row.status \in Open \cup {"ready"}  BY <1>0, <2>1 DEF SessionCurrent
    <2>3. [row EXCEPT !.status = "deleted"] \in Row  BY <1>0 DEF Row, AssetStatus
    <2>4. row' = [row EXCEPT !.status = "deleted"]
      BY <1>7, <2>2, <2>3, CurrentFlush DEF CommitDelete
    <2>5. row'.status = "deleted" /\ row'.key = row.key /\ row'.hash = row.hash
      BY <1>0, <2>4 DEF Row
    <2>6. SessionCurrent(r)' /\ Described'  BY <2>1, <2>2, <2>5 DEF SessionCurrent, Described
    <2>7. JobMatches'  BY <1>0, <2>1, <2>5 DEF JobMatches
    <2>8. NothingLeft'
      <3>1. \A q \in Requests : pc[q] # "stored"  BY <2>1
      <3>2. faults = 0 => DOMAIN objects \subseteq {row.key}
        BY <1>0, <2>2, <3>1 DEF NothingLeft
      <3> QED  BY <2>1, <2>5, <3>2 DEF NothingLeft, Open
    <2> QED  BY <1>1, <2>6, <2>7, <2>8 DEF Kept
  <1>8. CASE RemoveObject(r)
    <2>1. /\ pc[r] = "removing" /\ pc'[r] = "done" /\ UNCHANGED <<row, job, faults>>
          /\ objects' = [t \in DOMAIN objects \ {loaded[r].key} |-> objects[t]]
      BY <1>8 DEF RemoveObject, End, Goto
    <2>2. row.status = "deleted" /\ loaded[r].key = row.key  BY <1>0, <2>1 DEF SessionCurrent
    <2>3. Described' /\ JobMatches'  BY <1>0, <2>1, <2>2 DEF Described, JobMatches
    <2>4. NothingLeft'
      <3>1. faults = 0 => DOMAIN objects \subseteq {row.key}  BY <1>0, <2>2 DEF NothingLeft
      <3> QED  BY <2>1, <2>2, <3>1 DEF NothingLeft, Open
    <2> QED  BY <1>1, <1>2, <2>1, <2>3, <2>4 DEF Kept
  <1>9. CASE RequestDies(r)
    <2>1. pc'[r] = "done" /\ UNCHANGED <<row, objects, job>> /\ faults' # 0
      BY <1>9 DEF RequestDies, End, Goto, Fault, store
    <2>2. Described' /\ JobMatches' /\ NothingLeft'
      BY <1>0, <2>1 DEF Described, JobMatches, NothingLeft
    <2> QED  BY <1>1, <1>2, <2>1, <2>2 DEF Kept
  <1> QED  BY <1>3, <1>4, <1>5, <1>6, <1>7, <1>8, <1>9

\* What serial says of a step that keeps it.
LEMMA StillSerial ==
    ASSUME SerialInv, [SerialNext]_serialVars, serial'
    PROVE  serial /\ [Next]_vars /\ Alone' /\ TypeInv' /\ RowExists' /\ IsFiniteSet(InFlight')
           /\ (~DirectPut \/ UNCHANGED vars)
  <1>1. CASE SerialNext
    <2>1. serial /\ Cardinality(InFlight') <= 1 /\ ~DirectPut /\ Next
      BY <1>1 DEF SerialNext
    <2>2. IsFiniteSet(InFlight')  BY <2>1, FlightFinite DEF SerialInv
    <2>3. Alone'  BY <2>1, <2>2, AtMostOne DEF Alone
    <2>4. TypeInv' /\ RowExists'  BY <2>1, TypeStep, RowExistsStep DEF SerialInv
    <2> QED  BY <2>1, <2>2, <2>3, <2>4
  <1>2. CASE UNCHANGED serialVars
    <2>1. UNCHANGED vars /\ serial  BY <1>2 DEF serialVars
    <2>2. UNCHANGED pc  BY <2>1 DEF vars, requests
    <2>3. IsFiniteSet(InFlight') /\ Alone'  BY <2>1, <2>2 DEF SerialInv, InTurn, Alone, InFlight
    <2>4. TypeInv' /\ RowExists'  BY <2>1, TypeStep, RowExistsStep DEF SerialInv
    <2> QED  BY <2>1, <2>3, <2>4
  <1> QED  BY <1>1, <1>2

LEMMA SerialStep == SerialInv /\ [SerialNext]_serialVars => SerialInv'
  <1> SUFFICES ASSUME SerialInv, [SerialNext]_serialVars PROVE SerialInv'
    OBVIOUS
  <1>1. [Next]_vars  BY DEF SerialNext, serialVars
  <1>2. TypeInv' /\ RowExists' /\ IsFiniteSet(InFlight')
    BY <1>1, TypeStep, RowExistsStep, FlightFinite DEF SerialInv
  <1>3. ASSUME serial' PROVE InTurn'
    <2>1. /\ serial /\ Alone' /\ (~DirectPut \/ UNCHANGED vars)
          /\ TypeInv /\ RowExists /\ InTurn
      BY <1>3, StillSerial DEF SerialInv
    <2>2. Kept'
      <3>1. CASE \E r \in Requests : Upload(r) \/ Deletion(r) \/ RequestDies(r)
        <4>1. PICK r \in Requests : Upload(r) \/ Deletion(r) \/ RequestDies(r)  BY <3>1
        <4>2. \A q \in Requests \ {r} : pc[q] \in {"new", "done"} /\ pc'[q] = pc[q]
          BY <2>1, <4>1, OthersIdle DEF InTurn
        <4> QED
          BY <1>2, <2>1, <4>1, <4>2, ReadingSteps, WritingSteps DEF Upload, Deletion
      <3>2. CASE Client \/ Job \/ UNCHANGED vars
        <4>1. CreateUploadUrl \/ PresignExpires \/ Job \/ UNCHANGED vars
          BY <2>1, <3>2 DEF Client
        <4> QED  BY <2>1, <4>1, QuietSteps DEF Kept
      <3> QED  BY <1>1, <3>1, <3>2 DEF Next
    <2> QED  BY <2>1, <2>2 DEF InTurn, Kept
  <1> QED  BY <1>2, <1>3 DEF SerialInv

LEMMA SerialInvariant == SerialSpec => []SerialInv
  BY SerialInitial, SerialStep, PTL DEF SerialSpec

\* While clients wait for each other, the row of a ready asset describes the bytes it
\* serves, although requests die between the store and the commit, and a job reads
\* the bytes it was keyed by or none.
THEOREM BytesMatchInTurn == SerialSpec => []SerialBytesMatch
  <1>1. SerialInv => SerialBytesMatch
    BY DEF SerialInv, InTurn, Described, JobMatches, SerialBytesMatch, ReadyIsDescribed, Served,
       JobReadsItsBytes
  <1> QED  BY <1>1, SerialInvariant, PTL

\* After a delete without a fault none of the asset's bytes are left, however often it
\* was uploaded before.
THEOREM DeletesLeaveNothing == SerialSpec => []DeleteRemovesBytes
  <1>1. SerialInv => DeleteRemovesBytes
    BY DEF SerialInv, InTurn, NothingLeft, DeleteRemovesBytes, InFlight
  <1> QED  BY <1>1, SerialInvariant, PTL

(* The contract of the asset *)

\* How a step may change the row while clients wait for each other.
LEMMA RowSteps ==
    ASSUME TypeInv, RowExists, InTurn, [Next]_vars
    PROVE  \/ row' = row
           \/ row.status = "absent" /\ row'.status \in Open
           \/ row.status \in Open /\ row'.status \in Open \cup {"ready"}
           \/ row.status \in Open \cup {"ready"} /\ row'.status = "deleted"
  <1> USE DEF Open
  <1>1. CASE CreateUploadUrl  BY <1>1 DEF CreateUploadUrl, NewRow, NoRow
  <1>2. CASE DirectPut \/ PresignExpires \/ Job \/ UNCHANGED vars
    BY <1>2 DEF DirectPut, PresignExpires, Job, ProcessAsset, RunLoadsAsset, RunReadsObject, vars
  <1>3. ASSUME NEW r \in Requests, UploadAsset(r) PROVE row.status = "absent" /\ row'.status \in Open
    BY <1>3 DEF UploadAsset, NewRow, NoRow
  <1>4. ASSUME NEW r \in Requests, Reject(r) \/ Finalise(r) \/ CommitDelete(r)
        PROVE  \/ row.status \in Open /\ row'.status \in Open \cup {"ready"}
               \/ row.status \in Open \cup {"ready"} /\ row'.status = "deleted"
    <2> DEFINE failed  == [loaded[r] EXCEPT !.status = "failed"]
               deleted == [loaded[r] EXCEPT !.status = "deleted"]
               ready   == [status |-> "ready", key |-> StorageKey(r), type |-> Type(r),
                           hash |-> got[r].content]
    <2>1. SessionCurrent(r) /\ row \in Row /\ TypeOK  BY DEF InTurn, TypeInv, TypeOK
    <2>2. CASE Reject(r)
      <3>1. loaded[r] = row /\ row.status \in Open  BY <2>1, <2>2 DEF SessionCurrent, Reject
      <3>2. failed \in Row /\ failed.status = "failed"  BY <2>1, <3>1 DEF Row, AssetStatus
      <3>3. row' = failed  BY <2>1, <2>2, <3>1, <3>2, CurrentFlush DEF Reject
      <3> QED  BY <3>1, <3>2, <3>3
    <2>3. CASE Finalise(r)
      <3>1. pc[r] = "stored" /\ loaded[r] = row /\ row.status \in Open
        BY <2>1, <2>3 DEF SessionCurrent, Finalise
      <3>2. got[r].content \in Contents /\ Type(r) \in Types
        BY <3>1, ValidTyped DEF TypeInv, StoredIsValid
      <3>3. ready \in Row  BY <3>2 DEF Row, AssetStatus, StorageKey
      <3>4. row' = ready  BY <2>1, <2>3, <3>1, <3>3, CurrentFlush DEF Finalise
      <3> QED  BY <3>1, <3>4
    <2>4. CASE CommitDelete(r)
      <3>1. loaded[r] = row /\ row.status \in Open \cup {"ready"}
        BY <2>1, <2>4 DEF SessionCurrent, CommitDelete
      <3>2. deleted \in Row /\ deleted.status = "deleted"  BY <2>1, <3>1 DEF Row, AssetStatus
      <3>3. row' = deleted  BY <2>1, <2>4, <3>1, <3>2, CurrentFlush DEF CommitDelete
      <3> QED  BY <3>1, <3>2, <3>3
    <2> QED  BY <1>4, <2>2, <2>3, <2>4
  <1>5. ASSUME NEW r \in Requests, Upload(r) \/ Deletion(r) \/ RequestDies(r),
               ~(UploadAsset(r) \/ Reject(r) \/ Finalise(r) \/ CommitDelete(r))
        PROVE  row' = row
    BY <1>5 DEF Upload, UploadAssetContent, ReceiveBody, CompleteUpload, FetchUploaded,
       UploadIncomplete, Store, Deletion, DeleteAsset, RemoveObject, RequestDies, Load
  <1> QED  BY <1>1, <1>2, <1>3, <1>4, <1>5 DEF Next, Client

\* The bytes of the contract, from the row alone.
LEMMA ServedIsDescribed ==
    Described => Served = (IF row.status = "ready" THEN row.hash ELSE NoContent)
  BY DEF Described, Served

LEMMA ContractInit == SerialInit => Contract!Init
  BY DEF SerialInit, Init, NoRow, Served, Contract!Init

LEMMA ContractStep ==
    ASSUME SerialInv, SerialInv', [SerialNext]_serialVars, serial'
    PROVE  [Contract!Next]_(Contract!contractVars)
  <1> DEFINE StateOf(s) == IF s \in {"awaiting_upload", "failed"} THEN "open" ELSE s
             BytesOf(w) == IF w.status = "ready" THEN w.hash ELSE NoContent
  <1>1. TypeInv /\ RowExists /\ InTurn /\ [Next]_vars /\ InTurn'
    BY StillSerial DEF SerialInv
  <1>2. Served = BytesOf(row)  BY <1>1, ServedIsDescribed DEF InTurn
  <1>3. Served' = BytesOf(row')
    BY <1>1 DEF InTurn, Described, Served
  <1>4. row'.status = "ready" => row'.hash \in Contents  BY <1>1 DEF InTurn, Described
  <1>5. CASE row' = row
    BY <1>2, <1>3, <1>5 DEF Contract!contractVars
  <1>6. CASE row.status = "absent" /\ row'.status \in Open
    BY <1>3, <1>6 DEF Open, Contract!Next, Contract!Reserve
  <1>7. CASE row.status \in Open /\ row'.status \in Open
    BY <1>2, <1>3, <1>7 DEF Open, Contract!contractVars
  <1>8. CASE row.status \in Open /\ row'.status = "ready"
    BY <1>3, <1>4, <1>8 DEF Open, Contract!Next, Contract!Accept
  <1>9. CASE row.status \in Open \cup {"ready"} /\ row'.status = "deleted"
    BY <1>3, <1>9 DEF Open, Contract!Next, Contract!Delete
  <1> QED  BY <1>1, <1>5, <1>6, <1>7, <1>8, <1>9, RowSteps

\* While clients wait for each other the asset implements its contract: it is reserved,
\* accepts its bytes once, serves exactly those and, deleted, is gone, although requests
\* die at any step.
THEOREM ContractIsKept == SerialSpec => ContractKept
  <1>1. SerialInv /\ SerialInv' /\ [SerialNext]_serialVars
          => [serial' => [Contract!Next]_(Contract!contractVars)]_serialVars
    BY ContractStep
  <1> QED  BY <1>1, SerialInvariant, ContractInit, PTL DEF SerialSpec, ContractKept
=============================================================================
