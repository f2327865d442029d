----------------------------- MODULE AssetSerial -----------------------------
(***************************************************************************)
(* AssetUpload with a history variable that tells the behaviours, or the   *)
(* beginnings of behaviours, in which the clients of an asset wait for     *)
(* each other's requests, and what holds for them.                         *)
(***************************************************************************)
EXTENDS AssetUpload

VARIABLE serial     \* no two requests were ever in flight, none went past the API

serialVars == <<vars, serial>>

SerialInit == Init /\ serial = TRUE

SerialNext ==
    /\ Next
    /\ serial' = (serial /\ Cardinality(InFlight') <= 1 /\ ~DirectPut)

SerialSpec == SerialInit /\ [][SerialNext]_serialVars

\* While clients wait for each other the asset keeps the contract, although requests
\* die at any step: assets.py 271-273 (re-uploading) and deps.py 197-198 (deleting).
ContractKept ==
    Contract!Init /\ [][serial' => [Contract!Next]_(Contract!contractVars)]_serialVars

\* While clients wait for each other, the row _store_and_finalise wrote describes the
\* bytes it serves, also after a request that died between the store and the commit,
\* and a job reads the bytes that process_asset keyed it by, or none.
SerialBytesMatch == serial => ReadyIsDescribed /\ JobReadsItsBytes

\* Once a delete went through and nothing failed, none of the asset's bytes are left,
\* whatever was uploaded, refused and uploaded again before: "the bytes go immediately,
\* because that is what a user means by delete" (while clients wait for each other).
DeleteRemovesBytes ==
    serial /\ row.status = "deleted" /\ InFlight = {} /\ faults = 0 => DOMAIN objects = {}
=============================================================================
