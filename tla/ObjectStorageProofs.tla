------------------------- MODULE ObjectStorageProofs -------------------------
(***************************************************************************)
(* Proofs about ObjectStorage for every set of callers, keys and payloads, *)
(* both backends, and any number of chunks and of repeated requests.       *)
(***************************************************************************)
EXTENDS ObjectStorage, SequenceTheorems, FiniteSetTheorems, WellFoundedInduction, TLAPS

USE StorageAssumption

Busy(c) == calls[c] # Idle
OnKey(call) == call.op \in {"put", "get", "delete"}

\* What each kind of call can be.
Shaped(call) ==
    /\ OnKey(call) => call.key \in Keys
    /\ call.op = "put" => call.data \in Payloads
    /\ call.op = "get" => call.pc \in {"start", "read"} /\ call.tries = 0
    /\ call.op = "delete" => call.pc \in {"start", "stat"}
    /\ call.op = "list" => call.pc \in {"start", "walk", "each"}
    /\ call.pc # "read" => call.got = <<>>

\* A file that is being written is at no key, and holds a part of its payload.
WritesApart(c) ==
    At(c, "put", "write") =>
        LET i == calls[c].fd IN
        /\ i \in DOMAIN inodes /\ \A k \in Keys : entry[k] # i
        /\ Len(inodes[i]) <= Chunks
        /\ \A n \in DOMAIN inodes[i] : inodes[i][n] = calls[c].data

\* A file that is being read is whole, and was at the key during the call.
ReadsWhole(c) ==
    Busy(c) /\ calls[c].pc = "read" =>
        LET call == calls[c] IN
        /\ call.fd \in DOMAIN inodes /\ \E p \in Payloads : inodes[call.fd] = Full(p)
        /\ inodes[call.fd] \in seen[c].values
        /\ Len(call.got) <= Chunks
        /\ \A n \in DOMAIN call.got : call.got[n] = inodes[call.fd][n]

\* A call knows what its key holds, and what it has itself done to it.
KnowsKey(c) ==
    Busy(c) /\ OnKey(calls[c]) =>
        /\ Content(entry[calls[c].key]) \in seen[c].values
        /\ calls[c].op = "delete" /\ Applied(calls[c]) => Absent \in seen[c].values
        /\ calls[c].op = "put" /\ calls[c].tries > 0 => Full(calls[c].data) \in seen[c].values

Sound(c) ==
    /\ Busy(c) => Shaped(calls[c]) /\ calls[c].fd \in DOMAIN inodes \cup {NoFile}
    /\ WritesApart(c) /\ ReadsWhole(c) /\ KnowsKey(c)

\* Nobody else has the file a put is writing.
OneWriter ==
    \A c, d \in Callers :
        c # d /\ At(c, "put", "write") /\ Busy(d) => calls[d].fd # calls[c].fd

EntriesWhole ==
    \A k \in Present : entry[k] \in DOMAIN inodes /\ \E p \in Payloads : inodes[entry[k]] = Full(p)

Inv == TypeOK /\ EntriesWhole /\ OneWriter /\ \A c \in Callers : Sound(c)

-----------------------------------------------------------------------------
(* Facts about values *)

LEMMA FullTyped ==
    ASSUME NEW p \in Payloads
    PROVE  Full(p) \in Seq(Payloads) /\ Len(Full(p)) = Chunks /\ Full(p) # Absent
  <1>1. Full(p) \in Seq(Payloads) /\ Len(Full(p)) = Chunks  BY DEF Full
  <1> QED  BY <1>1 DEF Absent

LEMMA CallTyped ==
    ASSUME TypeOK, NEW c \in Callers, Busy(c)
    PROVE  calls[c] \in Call /\ calls[c].op # "none"
  BY DEF TypeOK, Busy, Call

\* A call that goes on with another program point or file is otherwise the same.
LEMMA GoesOn ==
    ASSUME NEW call \in Call, NEW i \in File \cup {NoFile},
           NEW pc \in {"start", "write", "stat", "etag", "read", "each"}
    PROVE  \A new : new = [call EXCEPT !.pc = pc, !.fd = i] =>
             /\ new \in Call /\ new.pc = pc /\ new.fd = i
             /\ new.op = call.op /\ new.key = call.key /\ new.data = call.data
             /\ new.tries = call.tries /\ new.got = call.got /\ new # Idle
  BY ZenonT(60) DEF Call, Idle

\* What is at a key is a file, and a file that is not at a key is not what it holds.
LEMMA EntryTyped ==
    ASSUME Inv, NEW k \in Keys
    PROVE  entry[k] \in Nat /\ (entry[k] = NoFile \/ entry[k] \in DOMAIN inodes)
  BY DEF Inv, TypeOK, File, NoFile, EntriesWhole, Present

LEMMA ContentTyped ==
    ASSUME Inv, NEW k \in Keys
    PROVE  Content(entry[k]) \in Seq(Payloads)
  <1>1. CASE entry[k] = NoFile  BY <1>1 DEF Content, Absent
  <1>2. CASE entry[k] # NoFile
    BY <1>2, FullTyped DEF Content, Inv, EntriesWhole, Present
  <1> QED  BY <1>1, <1>2

\* A written file is the whole of its payload.
LEMMA WrittenIsFull ==
    ASSUME Inv, NEW c \in Callers, At(c, "put", "write"), Written(calls[c].fd)
    PROVE  /\ calls[c].data \in Payloads
           /\ inodes[calls[c].fd] = Full(calls[c].data)
  <1> DEFINE i == calls[c].fd
  <1>1. WritesApart(c) /\ Shaped(calls[c])  BY DEF Inv, Sound, At, Busy
  <1>2. calls[c].data \in Payloads  BY <1>1 DEF Shaped, At
  <1>3. inodes[i] \in Seq(Payloads)  BY <1>1 DEF Inv, TypeOK, WritesApart
  <1>4. inodes[i] = [n \in 1 .. Chunks |-> calls[c].data]
    BY <1>1, <1>3 DEF WritesApart, Written
  <1> QED  BY <1>2, <1>4 DEF Full

-----------------------------------------------------------------------------
(* Steps that leave the files alone *)

\* A call that goes on or ends, and nobody else's.
LEMMA CallMoves ==
    ASSUME Inv, NEW c \in Callers, UNCHANGED <<backend, inodes, entry, dirs>>,
           temps' \subseteq temps, made' = made, faults' \in 0 .. MaxFaults,
           calls' \in [Callers -> Call \cup {Idle}],
           seen' \in [Callers -> [values : SUBSET Seq(Payloads), steady : SUBSET Keys,
                                  alive : SUBSET Keys]],
           \A d \in Callers \ {c} : calls'[d] = calls[d] /\ seen'[d] = seen[d],
           ~At(c, "put", "write")',
           Busy(c)' => calls'[c].fd = calls[c].fd \/ \E k \in Keys : calls'[c].fd = entry[k],
           Busy(c)' => Busy(c),
           Sound(c)'
    PROVE  Inv'
  <1>1. TypeOK'  BY DEF Inv, TypeOK
  <1>2. EntriesWhole'  BY DEF Inv, EntriesWhole, Present
  <1>3. \A d \in Callers : Sound(d)'
    <2> SUFFICES ASSUME NEW d \in Callers, d # c PROVE Sound(d)'
      OBVIOUS
    <2>1. Sound(d)  BY DEF Inv
    <2> QED
      BY <2>1 DEF Sound, Busy, WritesApart, ReadsWhole, KnowsKey, At, Content
  <1>4. OneWriter'
    <2> SUFFICES ASSUME NEW x \in Callers, NEW d \in Callers, x # d,
                        At(x, "put", "write")', Busy(d)'
                 PROVE  calls'[d].fd # calls'[x].fd
      BY DEF OneWriter
    <2>1. x # c /\ calls'[x] = calls[x] /\ At(x, "put", "write")  BY DEF At
    <2>2. WritesApart(x)  BY DEF Inv, Sound
    <2>3. CASE d # c  BY <2>1, <2>3 DEF Inv, OneWriter, Busy
    <2>4. CASE d = c  BY <2>1, <2>2, <2>4 DEF Inv, OneWriter, WritesApart
    <2> QED  BY <2>3, <2>4
  <1> QED  BY <1>1, <1>2, <1>3, <1>4 DEF Inv

\* An answer ends the call and forgets what it saw.
LEMMA AnswerKeeps ==
    ASSUME Inv, NEW c \in Callers, NEW v, Answer(c, v), UNCHANGED <<backend, inodes, entry, dirs>>,
           temps' \subseteq temps, made' = made, faults' \in 0 .. MaxFaults
    PROVE  Inv'
  <1>1. /\ calls' \in [Callers -> Call \cup {Idle}] /\ calls'[c] = Idle
        /\ seen' \in [Callers -> [values : SUBSET Seq(Payloads), steady : SUBSET Keys,
                                  alive : SUBSET Keys]]
        /\ \A d \in Callers \ {c} : calls'[d] = calls[d] /\ seen'[d] = seen[d]
    BY DEF Answer, Update, Inv, TypeOK, NothingSeen
  <1>2. ~Busy(c)' /\ ~At(c, "put", "write")'  BY <1>1 DEF Busy, At
  <1>3. Sound(c)'  BY <1>2 DEF Sound, WritesApart, ReadsWhole, KnowsKey
  <1> QED  BY <1>1, <1>2, <1>3, CallMoves

\* A call that goes on with the same key and what it saw.
LEMMA UpdateTyped ==
    ASSUME Inv, NEW c \in Callers, NEW call \in Call, Update(c, call), UNCHANGED seen
    PROVE  /\ calls' \in [Callers -> Call \cup {Idle}] /\ calls'[c] = call
           /\ \A d \in Callers \ {c} : calls'[d] = calls[d] /\ seen'[d] = seen[d]
           /\ seen' \in [Callers -> [values : SUBSET Seq(Payloads), steady : SUBSET Keys,
                                     alive : SUBSET Keys]]
           /\ seen'[c] = seen[c] /\ Busy(c)'
  <1>1. call # Idle  BY DEF Call, Idle
  <1> QED  BY <1>1 DEF Update, Inv, TypeOK, Busy

-----------------------------------------------------------------------------
(* One lemma per action *)

LEMMA FaultTyped ==
    ASSUME TypeOK, Fault  PROVE  faults' \in 0 .. MaxFaults
  BY DEF Fault, TypeOK

LEMMA InitInv == Init => Inv
  <1> SUFFICES ASSUME Init PROVE Inv
    OBVIOUS
  <1>1. \A c \in Callers : ~Busy(c) /\ \A op, pc : ~At(c, op, pc)  BY DEF Init, Busy, At
  <1>2. TypeOK  BY DEF Init, TypeOK, NothingSeen, File
  <1>3. EntriesWhole  BY DEF Init, EntriesWhole, Present
  <1> QED  BY <1>1, <1>2, <1>3 DEF Inv, Sound, WritesApart, ReadsWhole, KnowsKey, OneWriter

LEMMA BeginKeeps ==
    ASSUME Inv, NEW c \in Callers, NEW op \in {"put", "get", "delete", "list"},
           NEW k \in Keys \cup ListPrefixes, NEW p \in Payloads \cup {Absent},
           NEW n \in Nat,
           op # "list" => k \in Keys, op = "put" => p \in Payloads, Begin(c, op, k, p, n)
    PROVE  Inv'
  <1> DEFINE call == [op |-> op, key |-> k, data |-> p, pc |-> "start", fd |-> NoFile, got |-> <<>>,
                      tries |-> 0, limit |-> n, todo |-> {}, found |-> {}, listed |-> {},
                      more |-> FALSE]
  <1>1. call \in Call  BY DEF Call
  <1>2. /\ calls' \in [Callers -> Call \cup {Idle}] /\ calls'[c] = call
        /\ \A d \in Callers \ {c} : calls'[d] = calls[d]
    BY <1>1 DEF Begin, Update, Inv, TypeOK
  <1>3. op # "list" => Content(entry[k]) \in Seq(Payloads)  BY ContentTyped
  <1>4. /\ seen' \in [Callers -> [values : SUBSET Seq(Payloads), steady : SUBSET Keys,
                                   alive : SUBSET Keys]]
        /\ op # "list" => Content(entry[k]) \in seen'[c].values
        /\ \A d \in Callers \ {c} : seen'[d] = seen[d]
    BY <1>3 DEF Begin, Inv, TypeOK, Present
  <1>5. TypeOK'  BY <1>2, <1>4 DEF Begin, disk, Inv, TypeOK
  <1>6. EntriesWhole'  BY DEF Begin, disk, Inv, EntriesWhole, Present
  <1>7. Sound(c)'
    BY <1>2, <1>4 DEF Begin, disk, Sound, Busy, Shaped, OnKey, WritesApart, ReadsWhole, KnowsKey,
                      At, Applied, Content
  <1>8. \A d \in Callers : Sound(d)'
    <2> SUFFICES ASSUME NEW d \in Callers, d # c PROVE Sound(d)'
      BY <1>7
    <2>1. Sound(d)  BY DEF Inv
    <2> QED
      BY <2>1, <1>2, <1>4
      DEF Begin, disk, Sound, Busy, WritesApart, ReadsWhole, KnowsKey, At, Content
  <1>9. OneWriter'
    <2> SUFFICES ASSUME NEW x \in Callers, NEW d \in Callers, x # d,
                        At(x, "put", "write")', Busy(d)'
                 PROVE  calls'[d].fd # calls'[x].fd
      BY DEF OneWriter
    <2>1. x # c /\ calls'[x] = calls[x] /\ At(x, "put", "write")  BY <1>2 DEF At
    <2>2. WritesApart(x)  BY DEF Inv, Sound
    <2>3. CASE d # c  BY <1>2, <2>1, <2>3 DEF Inv, OneWriter, Busy
    <2>4. CASE d = c  BY <1>2, <2>1, <2>2, <2>4 DEF Inv, TypeOK, WritesApart, NoFile
    <2> QED  BY <2>3, <2>4
  <1> QED  BY <1>5, <1>6, <1>8, <1>9 DEF Inv

LEMMA MakeTempKeeps == ASSUME Inv, NEW c \in Callers, MakeTemp(c)  PROVE  Inv'
  <1> DEFINE i == Len(inodes) + 1
             call == [calls[c] EXCEPT !.pc = "write", !.fd = i]
  <1>1. Busy(c) /\ calls[c] \in Call /\ calls[c].op = "put" /\ Shaped(calls[c])
    BY CallTyped DEF MakeTemp, AtLocal, At, Busy, Inv, Sound
  <1>2. /\ inodes' = Append(inodes, <<>>) /\ inodes' \in Seq(Seq(Payloads)) /\ Len(inodes') = i
        /\ DOMAIN inodes' = DOMAIN inodes \cup {i} /\ inodes'[i] = <<>> /\ i \notin DOMAIN inodes
        /\ \A j \in DOMAIN inodes : inodes'[j] = inodes[j]
    BY SMTT(30) DEF MakeTemp, Inv, TypeOK
  <1>a. i \in File /\ i # NoFile  BY DEF File, NoFile, Inv, TypeOK
  <1>3. /\ call \in Call /\ call.pc = "write" /\ call.fd = i /\ call.op = "put"
        /\ call.key = calls[c].key /\ call.data = calls[c].data /\ call.tries = calls[c].tries
        /\ call.got = calls[c].got
    <2> HIDE DEF i
    <2> QED  BY <1>1, <1>a DEF Call
  <1>4. /\ calls' \in [Callers -> Call \cup {Idle}] /\ calls'[c] = call
        /\ \A d \in Callers \ {c} : calls'[d] = calls[d]
        /\ seen' = seen /\ entry' = entry /\ Busy(c)'
    BY <1>2, <1>3, UpdateTyped, ZenonT(60) DEF MakeTemp, Update, Inv, TypeOK
  <1> HIDE DEF call
  <1>5. \A k \in Keys : Content(entry[k])' = Content(entry[k]) /\ entry[k] # i
    <2> SUFFICES ASSUME NEW k \in Keys
                 PROVE  Content(entry[k])' = Content(entry[k]) /\ entry[k] # i
      OBVIOUS
    <2>1. entry'[k] = entry[k] /\ (entry[k] = NoFile \/ entry[k] \in DOMAIN inodes)
      BY <1>4, EntryTyped
    <2>2. CASE entry[k] = NoFile  BY <1>a, <2>1, <2>2 DEF Content
    <2>3. CASE entry[k] # NoFile  BY <1>2, <2>1, <2>3 DEF Content
    <2> QED  BY <2>2, <2>3
  <1>6. TypeOK'
    BY <1>1, <1>2, <1>4 DEF MakeTemp, Same, Inv, TypeOK, File, NoFile, Shaped, OnKey
  <1>7. EntriesWhole'  BY <1>2, <1>4 DEF Inv, EntriesWhole, Present
  <1>8. Sound(c)'
    <2>1. Sound(c) /\ OnKey(calls[c])  BY <1>1 DEF Inv, OnKey
    <2>2. Shaped(call) /\ call.fd \in DOMAIN inodes'
      BY <1>1, <1>2, <1>3 DEF Shaped, OnKey, At, MakeTemp, AtLocal
    <2>3. WritesApart(c)'  BY <1>2, <1>3, <1>4, <1>5 DEF WritesApart
    <2>4. ReadsWhole(c)'  BY <1>3, <1>4 DEF ReadsWhole
    <2>5. KnowsKey(c)'
      <3>1. calls[c].key \in Keys  BY <1>1, <2>1 DEF Shaped
      <3> QED  BY <1>1, <1>3, <1>4, <1>5, <2>1, <3>1 DEF Sound, KnowsKey
    <2> QED  BY <1>4, <2>2, <2>3, <2>4, <2>5 DEF Sound
  <1>9. \A d \in Callers : Sound(d)'
    <2> SUFFICES ASSUME NEW d \in Callers, d # c PROVE Sound(d)'
      BY <1>8
    <2>1. Sound(d) /\ calls'[d] = calls[d] /\ seen'[d] = seen[d]  BY <1>4 DEF Inv
    <2>2. Busy(d) /\ OnKey(calls[d]) => calls[d].key \in Keys  BY <2>1 DEF Sound, Shaped
    <2>3. KnowsKey(d)'  BY <2>1, <2>2, <1>4, <1>5 DEF Sound, KnowsKey, Busy
    <2>4. WritesApart(d)'  BY <2>1, <1>2, <1>4 DEF Sound, WritesApart, At
    <2>5. ReadsWhole(d)'  BY <2>1, <1>2, <1>4 DEF Sound, ReadsWhole, Busy
    <2> QED  BY <2>1, <2>3, <2>4, <2>5, <1>2, <1>4 DEF Sound, Busy
  <1>10. OneWriter'
    <2> SUFFICES ASSUME NEW x \in Callers, NEW d \in Callers, x # d,
                        At(x, "put", "write")', Busy(d)'
                 PROVE  calls'[d].fd # calls'[x].fd
      BY DEF OneWriter
    <2>1. \A e \in Callers \ {c} : Busy(e)' => Busy(e) /\ calls'[e].fd # i
      BY <1>2, <1>4 DEF Busy, Inv, Sound, NoFile, TypeOK
    <2>2. CASE x = c \/ d = c  BY <1>3, <1>4, <2>1, <2>2 DEF Busy, At
    <2>3. CASE x # c /\ d # c  BY <1>4, <2>3 DEF Inv, OneWriter, Busy, At
    <2> QED  BY <2>2, <2>3
  <1> QED  BY <1>6, <1>7, <1>9, <1>10 DEF Inv

LEMMA WriteChunkKeeps == ASSUME Inv, NEW c \in Callers, WriteChunk(c)  PROVE  Inv'
  <1> DEFINE i == calls[c].fd
             file == Append(inodes[i], calls[c].data)
  <1>1. At(c, "put", "write") /\ Busy(c) /\ calls[c].data \in Payloads /\ i \in DOMAIN inodes
    BY DEF WriteChunk, AtLocal, At, Busy, Inv, Sound, WritesApart, Shaped
  <1>2. inodes[i] \in Seq(Payloads) /\ file \in Seq(Payloads)  BY <1>1 DEF Inv, TypeOK
  <1>3. /\ inodes' = [inodes EXCEPT ![i] = file] /\ inodes' \in Seq(Seq(Payloads))
        /\ DOMAIN inodes' = DOMAIN inodes /\ inodes'[i] = file
        /\ \A j \in DOMAIN inodes \ {i} : inodes'[j] = inodes[j]
    BY <1>1, <1>2 DEF WriteChunk, Inv, TypeOK
  <1>4. UNCHANGED <<backend, made, entry, dirs, temps, calls, seen, faults>>
    BY DEF WriteChunk, Same
  <1>5. \A k \in Keys : entry[k] # i /\ Content(entry[k])' = Content(entry[k])
    BY <1>1, <1>3, <1>4 DEF Inv, Sound, WritesApart, EntriesWhole, Present, Content
  <1>6. TypeOK'  BY <1>3, <1>4 DEF Inv, TypeOK
  <1>7. EntriesWhole'  BY <1>3, <1>4, <1>5 DEF Inv, EntriesWhole, Present
  <1>8. OneWriter'  BY <1>4 DEF Inv, OneWriter, Busy, At
  <1>9. ASSUME NEW d \in Callers PROVE Sound(d)'
    <2>1. Sound(d)  BY DEF Inv
    <2>2. d # c /\ Busy(d) => calls[d].fd # i  BY <1>1 DEF Inv, OneWriter
    <2>3. WritesApart(d)'
      <3>1. CASE d = c
        <4>1. /\ Len(inodes[i]) <= Chunks /\ Len(inodes[i]) < Chunks
              /\ \A n \in DOMAIN inodes[i] : inodes[i][n] = calls[c].data
          BY <1>1, <2>1, <3>1 DEF Sound, WritesApart, WriteChunk
        <4>2. Len(file) <= Chunks /\ \A n \in DOMAIN file : file[n] = calls[c].data
          BY <1>2, <4>1
        <4> QED  BY <1>1, <1>3, <1>4, <1>5, <3>1, <4>2 DEF WritesApart
      <3>2. CASE d # c
        BY <1>3, <1>4, <2>1, <2>2, <3>2 DEF Sound, WritesApart, At, Busy
      <3> QED  BY <3>1, <3>2
    <2>4. ReadsWhole(d)'
      BY <1>1, <1>3, <1>4, <2>1, <2>2 DEF Sound, ReadsWhole, Busy, At
    <2>5. KnowsKey(d)'
      <3>1. Busy(d) /\ OnKey(calls[d]) =>
              Content(entry[calls[d].key])' = Content(entry[calls[d].key])
        BY <1>4, <1>5, <2>1 DEF Sound, Shaped
      <3> QED  BY <1>4, <2>1, <3>1 DEF Sound, KnowsKey, Busy
    <2> QED  BY <1>3, <1>4, <2>1, <2>3, <2>4, <2>5 DEF Sound, Busy
  <1> QED  BY <1>6, <1>7, <1>8, <1>9 DEF Inv

\* A whole file, or none, comes to be at the key of a call, and every call in progress
\* on that key sees it.
LEMMA EnterKeeps ==
    ASSUME Inv, NEW c \in Callers, NEW k \in Keys, NEW i \in Nat, Enter(k, i, inodes'),
           Busy(c), OnKey(calls[c]), calls[c].key = k,
           calls[c].op = "delete" => i = NoFile,
           i # NoFile => i \in DOMAIN inodes' /\ \E p \in Payloads : inodes'[i] = Full(p),
           calls[c].op = "put" => i # NoFile /\ inodes'[i] = Full(calls[c].data),
           \A d \in Callers \ {c} : At(d, "put", "write") => calls[d].fd # i,
           inodes' \in Seq(Seq(Payloads)), DOMAIN inodes \subseteq DOMAIN inodes',
           \A j \in DOMAIN inodes : inodes'[j] = inodes[j],
           UNCHANGED <<backend, dirs, made, faults>>, temps' \subseteq temps,
           NEW call \in Call, Update(c, call), Shaped(call), call.pc \notin {"write", "read"},
           call.op = calls[c].op, call.key = k, call.data = calls[c].data, call.fd = calls[c].fd
    PROVE  Inv'
  <1>1. /\ calls' \in [Callers -> Call \cup {Idle}] /\ calls'[c] = call /\ call # Idle
        /\ \A d \in Callers \ {c} : calls'[d] = calls[d]
    <2>1. call # Idle  BY DEF Call, Idle
    <2>2. calls' = [calls EXCEPT ![c] = call]  BY DEF Update
    <2>3. calls \in [Callers -> Call \cup {Idle}]  BY DEF Inv, TypeOK
    <2> QED  BY ONLY <2>1, <2>2, <2>3, c \in Callers, call \in Call
  <1>2. entry' = [entry EXCEPT ![k] = i] /\ entry' \in [Keys -> File \cup {NoFile}]
    BY DEF Enter, Inv, TypeOK, File, NoFile
  <1>3. Content(i)' \in Seq(Payloads)
    BY FullTyped DEF Content, NoFile, Absent
  <1>4. \A j \in Keys \ {k} : Content(entry[j])' = Content(entry[j])
    BY <1>2, EntryTyped DEF Content, Inv, TypeOK
  <1>5. ASSUME NEW d \in Callers
        PROVE  /\ seen'[d] \in [values : SUBSET Seq(Payloads), steady : SUBSET Keys, alive : SUBSET Keys]
               /\ seen[d].values \subseteq seen'[d].values
               /\ Busy(d) /\ OnKey(calls[d]) /\ calls[d].key = k => Content(i)' \in seen'[d].values
    <2>1. seen[d] \in [values : SUBSET Seq(Payloads), steady : SUBSET Keys, alive : SUBSET Keys]
      BY SMTT(30) DEF Inv, TypeOK
    <2>2. CASE ~Busy(d)  BY <2>1, <2>2 DEF Enter, Busy
    <2>3. CASE Busy(d) /\ calls[d].op = "list"
      BY <2>1, <2>3 DEF Enter, Busy, OnKey
    <2>4. CASE Busy(d) /\ calls[d].op # "list"
      BY <2>1, <2>4, <1>3 DEF Enter, Busy, Content, NoFile
    <2> QED  BY <2>2, <2>3, <2>4
  <1>6. seen' = [d \in Callers |-> seen'[d]]  BY DEF Enter
  <1>7. TypeOK'  BY <1>1, <1>2, <1>5, <1>6 DEF Inv, TypeOK
  <1>8. EntriesWhole'
    <2> SUFFICES ASSUME NEW j \in Keys, entry'[j] # NoFile
                 PROVE  entry'[j] \in DOMAIN inodes' /\ \E p \in Payloads : inodes'[entry'[j]] = Full(p)
      BY DEF EntriesWhole, Present
    <2>1. CASE j = k  BY <1>2, <2>1 DEF Inv, TypeOK
    <2>2. CASE j # k  BY <1>2, <2>2 DEF Inv, TypeOK, EntriesWhole, Present
    <2> QED  BY <2>1, <2>2
  <1>9. KnowsKey(c)'
    <2>1. Content(i)' \in seen'[c].values  BY <1>5
    <2>2. entry'[k] = i  BY <1>2 DEF Inv, TypeOK
    <2> QED  BY <1>1, <2>1, <2>2 DEF KnowsKey, Content, NoFile
  <1>10. ASSUME NEW d \in Callers PROVE Sound(d)'
    <2>1. Sound(d)  BY DEF Inv
    <2>2. CASE d = c
      <3>1. ~At(c, "put", "write")' /\ calls'[c].pc # "read" /\ Busy(c)'
        BY <1>1 DEF At, Busy
      <3>2. Shaped(calls'[c]) /\ calls'[c].fd \in DOMAIN inodes' \cup {NoFile}
        BY <1>1, <2>1, <2>2 DEF Sound
      <3> QED  BY <1>9, <2>2, <3>1, <3>2 DEF Sound, WritesApart, ReadsWhole
    <2>3. CASE d # c
      <3>1. calls'[d] = calls[d]  BY <1>1, <2>3
      <3>2. WritesApart(d)'
        BY <1>2, <2>1, <2>3, <3>1, SMTT(30) DEF Sound, WritesApart, At, Inv, TypeOK
      <3>3. ReadsWhole(d)'  BY <1>5, <2>1, <3>1, SMTT(30) DEF Sound, ReadsWhole, Busy
      <3>4. KnowsKey(d)'
        <4>1. Busy(d) /\ OnKey(calls[d]) => calls[d].key \in Keys  BY <2>1 DEF Sound, Shaped
        <4>2. Busy(d) /\ OnKey(calls[d]) => Content(entry[calls[d].key])' \in seen'[d].values
          <5>1. CASE calls[d].key = k
            BY <1>2, <1>5, <3>1, <5>1 DEF Inv, TypeOK, Content
          <5>2. CASE calls[d].key # k
            BY <1>4, <1>5, <2>1, <3>1, <4>1, <5>2 DEF Sound, KnowsKey
          <5> QED  BY <5>1, <5>2
        <4> QED  BY <1>5, <2>1, <3>1, <4>2 DEF Sound, KnowsKey, Busy
      <3> QED  BY <2>1, <3>1, <3>2, <3>3, <3>4 DEF Sound, Busy
    <2> QED  BY <2>2, <2>3
  <1>11. OneWriter'
    <2> SUFFICES ASSUME NEW x \in Callers, NEW d \in Callers, x # d,
                        At(x, "put", "write")', Busy(d)'
                 PROVE  calls'[d].fd # calls'[x].fd
      BY DEF OneWriter
    <2>1. x # c /\ calls'[x] = calls[x] /\ At(x, "put", "write")  BY <1>1 DEF At
    <2>2. Busy(d) /\ calls'[d].fd = calls[d].fd  BY <1>1 DEF Busy
    <2> QED  BY <2>1, <2>2 DEF Inv, OneWriter
  <1> QED  BY <1>7, <1>8, <1>10, <1>11 DEF Inv

LEMMA ReplaceKeeps == ASSUME Inv, NEW c \in Callers, Replace(c)  PROVE  Inv'
  <1> DEFINE i == calls[c].fd
             call == [calls[c] EXCEPT !.pc = "stat"]
  <1>1. At(c, "put", "write") /\ Busy(c) /\ calls[c] \in Call /\ Shaped(calls[c]) /\ Sound(c)
    BY CallTyped DEF Replace, AtLocal, At, Busy, Inv, Sound
  <1>2. calls[c].data \in Payloads /\ inodes[i] = Full(calls[c].data)
    BY <1>1, WrittenIsFull DEF Replace
  <1>3. i \in DOMAIN inodes /\ i \in Nat /\ i # NoFile
    BY <1>1 DEF Sound, WritesApart, Inv, TypeOK, NoFile
  <1>4. \A d \in Callers \ {c} : At(d, "put", "write") => calls[d].fd # i
    BY <1>1 DEF Inv, OneWriter, At, Busy
  <1>5. /\ call \in Call /\ call.op = "put" /\ call.key = calls[c].key /\ call.fd = i
        /\ call.data = calls[c].data /\ call.pc = "stat" /\ Shaped(call)
    BY <1>1 DEF Call, Shaped, OnKey, At
  <1>6. /\ OnKey(calls[c]) /\ calls[c].op = "put" /\ calls[c].key \in Keys /\ inodes' = inodes
        /\ inodes \in Seq(Seq(Payloads)) /\ Enter(calls[c].key, i, inodes') /\ Update(c, call)
        /\ UNCHANGED <<backend, dirs, made, faults>> /\ temps' \subseteq temps
    BY <1>1 DEF Replace, Same, OnKey, At, Shaped, Inv, TypeOK, Enter
  <1> HIDE DEF call, i
  <1> QED  BY <1>1, <1>2, <1>3, <1>4, <1>5, <1>6, EnterKeeps, ZenonT(60) DEF call, i

LEMMA UnlinkKeeps == ASSUME Inv, NEW c \in Callers, Unlink(c)  PROVE  Inv'
  <1> DEFINE call == [calls[c] EXCEPT !.pc = "stat"]
  <1>1. At(c, "delete", "start") /\ Busy(c) /\ calls[c] \in Call /\ Shaped(calls[c]) /\ Sound(c)
    BY CallTyped DEF Unlink, AtLocal, At, Busy, Inv, Sound
  <1>2. NoFile \in Nat /\ \A d \in Callers : At(d, "put", "write") => calls[d].fd # NoFile
    BY DEF Inv, Sound, WritesApart, TypeOK, NoFile
  <1>3. /\ call \in Call /\ call.op = "delete" /\ call.key = calls[c].key /\ call.fd = calls[c].fd
        /\ call.data = calls[c].data /\ call.pc = "stat" /\ Shaped(call)
    BY <1>1 DEF Call, Shaped, OnKey, At
  <1>4. /\ OnKey(calls[c]) /\ calls[c].op = "delete" /\ calls[c].key \in Keys /\ inodes' = inodes
        /\ inodes \in Seq(Seq(Payloads)) /\ Enter(calls[c].key, NoFile, inodes') /\ Update(c, call)
        /\ UNCHANGED <<backend, dirs, made, faults>> /\ temps' \subseteq temps
    BY <1>1 DEF Unlink, Same, OnKey, At, Shaped, Inv, TypeOK, Enter
  <1> HIDE DEF call
  <1> QED  BY <1>1, <1>2, <1>3, <1>4, EnterKeeps

LEMMA S3ApplyKeeps == ASSUME Inv, NEW c \in Callers, S3Apply(c)  PROVE  Inv'
  <1> DEFINE call == [calls[c] EXCEPT !.tries = @ + 1]
  <1>1. /\ calls[c].op \in {"put", "delete"} /\ calls[c].pc = "start" /\ Busy(c)
        /\ calls[c] \in Call /\ Shaped(calls[c]) /\ Sound(c)
    BY CallTyped DEF S3Apply, AtS3, At, Busy, Inv, Sound
  <1>2. call.tries \in 0 .. MaxAttempts
    BY <1>1, SMTT(30) DEF S3Apply, MaySend, Call
  <1>3. /\ call \in Call /\ call.op = calls[c].op /\ call.key = calls[c].key
        /\ call.data = calls[c].data /\ call.pc = "start" /\ Shaped(call) /\ call.fd = calls[c].fd
    BY <1>1, <1>2 DEF Call, Shaped, OnKey
  <1>4. /\ OnKey(calls[c]) /\ calls[c].key \in Keys /\ Update(c, call)
        /\ UNCHANGED <<backend, dirs, made, faults>> /\ temps' \subseteq temps
    BY <1>1 DEF S3Apply, Same, OnKey, Shaped
  <1>5. CASE calls[c].op = "put"
    <2> DEFINE i == Len(inodes) + 1
    <2>1. calls[c].data \in Payloads  BY <1>1, <1>5 DEF Shaped
    <2>2. /\ inodes' = Append(inodes, Full(calls[c].data)) /\ Len(inodes') = i
          /\ Enter(calls[c].key, i, inodes')
      BY <1>5 DEF S3Apply, Inv, TypeOK
    <2>3. /\ inodes' \in Seq(Seq(Payloads)) /\ DOMAIN inodes \subseteq DOMAIN inodes'
          /\ i \in DOMAIN inodes' /\ i \in Nat /\ i # NoFile /\ i \notin DOMAIN inodes
          /\ inodes'[i] = Full(calls[c].data) /\ \A j \in DOMAIN inodes : inodes'[j] = inodes[j]
      BY <2>1, <2>2, FullTyped DEF Inv, TypeOK, NoFile
    <2>4. \A d \in Callers : At(d, "put", "write") => calls[d].fd # i
      BY <2>3 DEF Inv, Sound, WritesApart
    <2> HIDE DEF call, i
    <2> QED  BY <1>1, <1>3, <1>4, <1>5, <2>1, <2>2, <2>3, <2>4, EnterKeeps, ZenonT(60)
  <1>6. CASE calls[c].op = "delete"
    <2>1. inodes' = inodes /\ Enter(calls[c].key, NoFile, inodes') /\ inodes \in Seq(Seq(Payloads))
      BY <1>6 DEF S3Apply, Inv, TypeOK, Enter
    <2>2. NoFile \in Nat /\ \A d \in Callers : At(d, "put", "write") => calls[d].fd # NoFile
      BY DEF Inv, Sound, WritesApart, TypeOK, NoFile
    <2> HIDE DEF call
    <2> QED  BY <1>1, <1>3, <1>4, <1>6, <2>1, <2>2, EnterKeeps
  <1> QED  BY <1>1, <1>5, <1>6

\* The calls that end.
LEMMA AnswersKeep ==
    ASSUME Inv, NEW c \in Callers,
           WriteFails(c) \/ S3Answers(c) \/ S3Get(c) \/ Returns(c) \/ Dies(c)
    PROVE  Inv'
  <1>1. \E v : Answer(c, v)  BY DEF WriteFails, S3Answers, S3Get, Returns, Dies
  <1>2. UNCHANGED <<backend, inodes, entry, dirs>> /\ temps' \subseteq temps /\ made' = made
    BY DEF WriteFails, S3Answers, S3Get, Returns, Dies, disk, Same
  <1>3. faults' \in 0 .. MaxFaults
    BY FaultTyped DEF WriteFails, S3Answers, S3Get, Returns, Dies, Inv, TypeOK
  <1> QED  BY <1>1, <1>2, <1>3, AnswerKeeps

LEMMA StatPathKeeps == ASSUME Inv, NEW c \in Callers, StatPath(c)  PROVE  Inv'
  <1>1. UNCHANGED <<backend, inodes, entry, dirs, temps, made, faults>>  BY DEF StatPath, disk, Same
  <1>2. CASE Answer(c, Failed)  BY <1>1, <1>2, AnswerKeeps DEF Inv, TypeOK
  <1>3. CASE Update(c, [calls[c] EXCEPT !.pc = "etag"]) /\ UNCHANGED <<told, seen>>
    <2> DEFINE call == [calls[c] EXCEPT !.pc = "etag"]
    <2>1. calls[c] \in Call /\ calls[c].op = "put" /\ calls[c].pc = "stat" /\ Sound(c) /\ Busy(c)
      BY CallTyped DEF StatPath, AtLocal, At, Busy, Inv
    <2>2. /\ call \in Call /\ call.op = "put" /\ call.pc = "etag" /\ call.fd = calls[c].fd
          /\ call.key = calls[c].key /\ call.data = calls[c].data /\ call.tries = calls[c].tries
          /\ call.got = calls[c].got
      BY <2>1 DEF Call
    <2> HIDE DEF call
    <2>3. /\ calls' \in [Callers -> Call \cup {Idle}] /\ calls'[c] = call /\ Busy(c)'
          /\ \A d \in Callers \ {c} : calls'[d] = calls[d] /\ seen'[d] = seen[d]
          /\ seen' \in [Callers -> [values : SUBSET Seq(Payloads), steady : SUBSET Keys,
                                    alive : SUBSET Keys]]
          /\ seen'[c] = seen[c]
      BY <1>3, <2>2, UpdateTyped DEF call
    <2>4. Sound(c)'
      BY <1>1, <2>1, <2>2, <2>3
      DEF Sound, Busy, Shaped, OnKey, WritesApart, ReadsWhole, KnowsKey, At, Content
    <2> QED  BY <1>1, <2>1, <2>2, <2>3, <2>4, CallMoves DEF Inv, TypeOK, At
  <1> QED  BY <1>2, <1>3 DEF StatPath

LEMMA OpenFileKeeps == ASSUME Inv, NEW c \in Callers, OpenFile(c)  PROVE  Inv'
  <1> DEFINE i == entry[calls[c].key]
             call == [calls[c] EXCEPT !.pc = "read", !.fd = i]
  <1>1. UNCHANGED <<backend, inodes, entry, dirs, temps, made, faults>>  BY DEF OpenFile, disk, Same
  <1>2. CASE i = NoFile
    <2>1. \E v : Answer(c, v)  BY <1>2 DEF OpenFile
    <2> QED  BY <1>1, <2>1, AnswerKeeps DEF Inv, TypeOK
  <1>3. CASE i # NoFile
    <2>1. /\ calls[c] \in Call /\ calls[c].op \in {"put", "get"} /\ calls[c].key \in Keys
          /\ Sound(c) /\ Busy(c)
      BY CallTyped DEF OpenFile, AtLocal, At, Busy, Inv, Sound, Shaped, OnKey
    <2>2. i \in DOMAIN inodes /\ (\E p \in Payloads : inodes[i] = Full(p)) /\ i \in File
      BY <1>3, <2>1 DEF Inv, EntriesWhole, Present, TypeOK, File, NoFile
    <2>3. /\ call \in Call /\ call.op = calls[c].op /\ call.pc = "read" /\ call.fd = i
          /\ call.key = calls[c].key /\ call.data = calls[c].data /\ call.tries = calls[c].tries
          /\ call.got = calls[c].got
      <3> HIDE DEF i
      <3> QED  BY <2>1, <2>2 DEF Call
    <2>4. inodes[i] \in seen[c].values
      BY <1>3, <2>1 DEF Sound, KnowsKey, OnKey, Content
    <2>5. Update(c, call) /\ UNCHANGED seen /\ call.got = <<>> /\ Shaped(call)
      BY <1>3, <2>1, <2>3 DEF OpenFile, AtLocal, At, Sound, Shaped, OnKey
    <2> HIDE DEF call
    <2>6. /\ calls' \in [Callers -> Call \cup {Idle}] /\ calls'[c] = call /\ Busy(c)'
          /\ \A d \in Callers \ {c} : calls'[d] = calls[d] /\ seen'[d] = seen[d]
          /\ seen' \in [Callers -> [values : SUBSET Seq(Payloads), steady : SUBSET Keys,
                                    alive : SUBSET Keys]]
          /\ seen'[c] = seen[c]
      BY <2>3, <2>5, UpdateTyped
    <2> HIDE DEF i
    <2>7. ReadsWhole(c)'  BY <1>1, <2>2, <2>3, <2>4, <2>5, <2>6 DEF ReadsWhole
    <2>8. KnowsKey(c)'
      BY <1>1, <2>1, <2>3, <2>5, <2>6 DEF Sound, KnowsKey, Content, OnKey, Applied
    <2>9. Sound(c)' /\ ~At(c, "put", "write")'
      BY <1>1, <2>2, <2>3, <2>5, <2>6, <2>7, <2>8 DEF Sound, WritesApart, At
    <2> QED  BY <1>1, <2>1, <2>3, <2>6, <2>9, CallMoves DEF Inv, TypeOK, i
  <1> QED  BY <1>2, <1>3

LEMMA ReadChunkKeeps == ASSUME Inv, NEW c \in Callers, ReadChunk(c)  PROVE  Inv'
  <1> DEFINE file == inodes[calls[c].fd]
             next == Len(calls[c].got) + 1
             call == [calls[c] EXCEPT !.got = Append(@, file[next])]
  <1>1. UNCHANGED <<backend, inodes, entry, dirs, temps, made, faults>>  BY DEF ReadChunk, disk, Same
  <1>2. CASE next \notin DOMAIN file
    <2>1. \E v : Answer(c, v)  BY <1>2 DEF ReadChunk, ReadFrom
    <2> QED  BY <1>1, <2>1, AnswerKeeps DEF Inv, TypeOK
  <1>3. CASE next \in DOMAIN file
    <2>1. calls[c] \in Call /\ calls[c].pc = "read" /\ Sound(c) /\ Busy(c)
      BY CallTyped DEF ReadChunk, Busy, Inv
    <2>2. \E p \in Payloads : file = Full(p)  BY <2>1 DEF Sound, ReadsWhole
    <2>3. file \in Seq(Payloads) /\ Len(file) = Chunks /\ calls[c].got \in Seq(Payloads)
      BY <2>1, <2>2, FullTyped DEF Call
    <2>4. /\ Append(calls[c].got, file[next]) \in Seq(Payloads)
          /\ Len(Append(calls[c].got, file[next])) <= Chunks
          /\ \A n \in DOMAIN Append(calls[c].got, file[next]) :
               Append(calls[c].got, file[next])[n] = file[n]
      <3> HIDE DEF file
      <3> QED  BY <1>3, <2>1, <2>3 DEF Sound, ReadsWhole, file
    <2>5. /\ call \in Call /\ call.op = calls[c].op /\ call.pc = "read" /\ call.fd = calls[c].fd
          /\ call.key = calls[c].key /\ call.data = calls[c].data /\ call.tries = calls[c].tries
          /\ call.got = Append(calls[c].got, file[next])
      <3> HIDE DEF file, next
      <3> QED  BY <2>1, <2>4 DEF Call
    <2>6. Update(c, call) /\ UNCHANGED seen  BY <1>3 DEF ReadChunk, ReadFrom
    <2> HIDE DEF call
    <2>7. /\ calls' \in [Callers -> Call \cup {Idle}] /\ calls'[c] = call /\ Busy(c)'
          /\ \A d \in Callers \ {c} : calls'[d] = calls[d] /\ seen'[d] = seen[d]
          /\ seen' \in [Callers -> [values : SUBSET Seq(Payloads), steady : SUBSET Keys,
                                    alive : SUBSET Keys]]
          /\ seen'[c] = seen[c]
      BY <2>5, <2>6, UpdateTyped
    <2>8. ReadsWhole(c)'
      BY <1>1, <2>1, <2>4, <2>5, <2>7 DEF Sound, ReadsWhole
    <2>9. KnowsKey(c)' /\ Shaped(call)
      BY <1>1, <2>1, <2>5, <2>7 DEF Sound, KnowsKey, Content, Shaped, OnKey, Applied
    <2>10. Sound(c)' /\ ~At(c, "put", "write")'
      BY <1>1, <2>1, <2>5, <2>7, <2>8, <2>9 DEF Sound, WritesApart, At
    <2> QED  BY <1>1, <2>1, <2>5, <2>7, <2>10, CallMoves DEF Inv, TypeOK
  <1> QED  BY <1>2, <1>3

\* A list goes on: it looks at keys, not at files.
ListStep(c) ==
    Walk(c) \/ Visit(c) \/ Sorts(c) \/ ListEach(c) \/ S3Page(c) \/ S3Each(c)

On(call, pc, todo, found, listed, more) ==
    [call EXCEPT !.pc = pc, !.todo = todo, !.found = found, !.listed = listed, !.more = more]

LEMMA OnTyped ==
    ASSUME NEW call \in Call, NEW pc \in {"walk", "each"}, NEW todo \in SUBSET Keys,
           NEW found \in SUBSET Keys, NEW listed \in SUBSET Keys, NEW more \in BOOLEAN
    PROVE  LET on == On(call, pc, todo, found, listed, more) IN
           /\ on \in Call /\ on.op = call.op /\ on.key = call.key /\ on.data = call.data
           /\ on.pc = pc /\ on.fd = call.fd /\ on.got = call.got /\ on.tries = call.tries
           /\ on.limit = call.limit /\ on.todo = todo /\ on.found = found
           /\ on.listed = listed /\ on.more = more
  BY DEF Call, On

\* The steps of a list that change the call are all of this form.
LEMMA OnForms ==
    ASSUME NEW call \in Call
    PROVE  /\ \A todo : [call EXCEPT !.pc = "walk", !.todo = todo]
                          = On(call, "walk", todo, call.found, call.listed, call.more)
           /\ call.pc = "walk" => \A todo, found :
                [call EXCEPT !.todo = todo, !.found = found]
                  = On(call, "walk", todo, found, call.listed, call.more)
           /\ \A todo : [call EXCEPT !.pc = "each", !.todo = todo]
                          = On(call, "each", todo, call.found, call.listed, call.more)
           /\ \A todo, more : [call EXCEPT !.pc = "each", !.todo = todo, !.more = more]
                          = On(call, "each", todo, call.found, call.listed, more)
           /\ call.pc = "each" => \A todo, listed :
                [call EXCEPT !.todo = todo, !.listed = listed]
                  = On(call, "each", todo, call.found, listed, call.more)
           /\ call.pc = "each" => \A todo :
                [call EXCEPT !.todo = todo]
                  = On(call, "each", todo, call.found, call.listed, call.more)
  BY DEF Call, On

Goes(c, pc, todo, found, listed, more) ==
    Update(c, On(calls[c], pc, todo, found, listed, more)) /\ UNCHANGED <<told, seen>>

GoesSomehow(c) ==
    \E pc \in {"walk", "each"}, todo, found, listed \in SUBSET Keys, more \in BOOLEAN :
        Goes(c, pc, todo, found, listed, more)

LEMMA ListSteps ==
    ASSUME Inv, NEW c \in Callers, ListStep(c)
    PROVE  /\ UNCHANGED <<backend, inodes, entry, dirs, temps, made, faults>>
           /\ calls[c] \in Call /\ calls[c].op = "list" /\ Busy(c)
           /\ Answer(c, Failed) \/ GoesSomehow(c)
  <1> DEFINE call == calls[c]
  <1>1. /\ UNCHANGED <<backend, inodes, entry, dirs, temps, made, faults>>
        /\ calls[c].op = "list" /\ Busy(c)
    BY DEF ListStep, Walk, Visit, Sorts, ListEach, S3Page, S3Each, disk, Same, AtLocal, AtS3, At, Busy
  <1>2. call \in Call  BY <1>1, CallTyped DEF Inv
  <1>3. /\ call.todo \in SUBSET Keys /\ call.found \in SUBSET Keys
        /\ call.listed \in SUBSET Keys /\ call.more \in BOOLEAN
    BY <1>2 DEF Call
  <1>4. ASSUME NEW pc \in {"walk", "each"}, NEW todo \in SUBSET Keys, NEW found \in SUBSET Keys,
               NEW listed \in SUBSET Keys, NEW more \in BOOLEAN,
               Goes(c, pc, todo, found, listed, more)
        PROVE  GoesSomehow(c)
    BY <1>4 DEF GoesSomehow
  <1> SUFFICES Answer(c, Failed) \/ GoesSomehow(c)
    BY <1>1, <1>2
  <1>5. CASE Walk(c)
    <2> DEFINE todo == {k \in Keys : Matches(call.key, k)}
    <2>1. Goes(c, "walk", todo, call.found, call.listed, call.more)
      <3>1. Update(c, [call EXCEPT !.pc = "walk", !.todo = todo]) /\ UNCHANGED <<told, seen>>
        BY <1>5 DEF Walk
      <3> HIDE DEF todo
      <3> QED  BY <1>2, <3>1, OnForms DEF Goes
    <2>2. todo \in SUBSET Keys  OBVIOUS
    <2> HIDE DEF todo
    <2> QED  BY <1>3, <1>4, <2>1, <2>2
  <1>6. CASE Visit(c)
    <2>1. PICK k \in call.todo :
            Update(c, [call EXCEPT !.todo = @ \ {k},
                                   !.found = IF entry[k] = NoFile THEN @ ELSE @ \cup {k}])
      BY <1>6 DEF Visit
    <2> DEFINE todo  == call.todo \ {k}
               found == IF entry[k] = NoFile THEN call.found ELSE call.found \cup {k}
    <2>2. call.pc = "walk" /\ UNCHANGED <<told, seen>>  BY <1>6 DEF Visit, AtLocal, At
    <2>3. Update(c, [call EXCEPT !.todo = todo, !.found = found])  BY <2>1
    <2>4. todo \in SUBSET Keys /\ found \in SUBSET Keys  BY <1>3
    <2> HIDE DEF todo, found
    <2>5. Goes(c, "walk", todo, found, call.listed, call.more)
      BY <1>2, <2>2, <2>3, OnForms DEF Goes
    <2> QED  BY <1>3, <1>4, <2>4, <2>5
  <1>7. CASE Sorts(c)
    <2>1. Goes(c, "each", call.found, call.found, call.listed, call.more)
      BY <1>2, <1>7, OnForms DEF Sorts, Goes
    <2> QED  BY <1>3, <1>4, <2>1
  <1>8. ASSUME NEW k \in FirstOf(call.todo), Yields(c, k), UNCHANGED <<told, seen>>, call.pc = "each"
        PROVE  GoesSomehow(c)
    <2> DEFINE todo   == call.todo \ {k}
               listed == call.listed \cup {k}
    <2>1. Update(c, [call EXCEPT !.todo = todo, !.listed = listed])  BY <1>8 DEF Yields
    <2>2. todo \in SUBSET Keys /\ listed \in SUBSET Keys  BY <1>3 DEF FirstOf
    <2> HIDE DEF todo, listed
    <2>3. Goes(c, "each", todo, call.found, listed, call.more)
      BY <1>2, <1>8, <2>1, OnForms DEF Goes
    <2> QED  BY <1>3, <1>4, <2>2, <2>3
  <1>9. CASE ListEach(c)
    <2>1. PICK k \in FirstOf(call.todo) :
         \/ ~Skips(k) /\ Yields(c, k) /\ UNCHANGED <<told, seen>>
         \/ Skips(k) /\ Update(c, [call EXCEPT !.todo = @ \ {k}]) /\ UNCHANGED <<told, seen>>
         \/ Skips(k) /\ Answer(c, Failed)
      BY <1>9 DEF ListEach
    <2>2. call.pc = "each"  BY <1>9 DEF ListEach, AtLocal, At
    <2>3. CASE Update(c, [call EXCEPT !.todo = @ \ {k}]) /\ UNCHANGED <<told, seen>>
      <3> DEFINE todo == call.todo \ {k}
      <3>1. Update(c, [call EXCEPT !.todo = todo]) /\ todo \in SUBSET Keys  BY <1>3, <2>3
      <3> HIDE DEF todo
      <3>2. Goes(c, "each", todo, call.found, call.listed, call.more)
        BY <1>2, <2>2, <2>3, <3>1, OnForms DEF Goes
      <3> QED  BY <1>3, <1>4, <3>1, <3>2
    <2> QED  BY <1>8, <2>1, <2>2, <2>3
  <1>10. CASE S3Page(c)
    <2> DEFINE rest == {k \in Present : /\ IsPrefix(call.key, k)
                                        /\ \A l \in call.listed : Before(l, k)}
    <2>1. PICK page \in SUBSET rest :
            Update(c, [call EXCEPT !.pc = "each", !.todo = page, !.more = page # rest])
      BY <1>10 DEF S3Page
    <2>2. UNCHANGED <<told, seen>>  BY <1>10 DEF S3Page
    <2>3. page \in SUBSET Keys  BY DEF Present
    <2> DEFINE more == page # rest
    <2>4. more \in BOOLEAN /\ Update(c, [call EXCEPT !.pc = "each", !.todo = page, !.more = more])
      BY <2>1
    <2> HIDE DEF more, rest
    <2>5. Goes(c, "each", page, call.found, call.listed, more)
      BY <1>2, <2>2, <2>4, OnForms DEF Goes
    <2> QED  BY <1>3, <1>4, <2>3, <2>4, <2>5
  <1>11. CASE S3Each(c)
    <2>1. call.pc = "each" /\ UNCHANGED <<told, seen>>  BY <1>11 DEF S3Each, AtS3, At
    <2> QED  BY <1>8, <1>11, <2>1 DEF S3Each
  <1> QED  BY <1>5, <1>6, <1>7, <1>9, <1>10, <1>11 DEF ListStep

LEMMA ListKeeps ==
    ASSUME Inv, NEW c \in Callers, ListStep(c)
    PROVE  Inv'
  <1>1. /\ UNCHANGED <<backend, inodes, entry, dirs, temps, made, faults>>
        /\ calls[c] \in Call /\ calls[c].op = "list" /\ Busy(c) /\ Sound(c)
    BY ListSteps DEF Inv
  <1>2. CASE Answer(c, Failed)  BY <1>1, <1>2, AnswerKeeps DEF Inv, TypeOK
  <1>3. ASSUME NEW pc \in {"walk", "each"}, NEW todo \in SUBSET Keys, NEW found \in SUBSET Keys,
               NEW listed \in SUBSET Keys, NEW more \in BOOLEAN,
               Goes(c, pc, todo, found, listed, more)
        PROVE  Inv'
    <2> DEFINE call == On(calls[c], pc, todo, found, listed, more)
    <2>1. /\ call \in Call /\ call.op = "list" /\ call.pc = pc /\ call.fd = calls[c].fd
          /\ call.got = calls[c].got
      BY <1>1, OnTyped
    <2> HIDE DEF call
    <2>2. Update(c, call) /\ UNCHANGED seen  BY <1>3 DEF Goes, call
    <2>3. /\ calls' \in [Callers -> Call \cup {Idle}] /\ calls'[c] = call /\ Busy(c)'
          /\ \A d \in Callers \ {c} : calls'[d] = calls[d] /\ seen'[d] = seen[d]
          /\ seen' \in [Callers -> [values : SUBSET Seq(Payloads), steady : SUBSET Keys,
                                    alive : SUBSET Keys]]
      BY <2>1, <2>2, UpdateTyped
    <2>4. call.got = <<>>
      BY <1>1, <2>1 DEF Sound, Shaped
    <2>5. Sound(c)' /\ ~At(c, "put", "write")'
      BY <1>1, <2>1, <2>3, <2>4
      DEF Sound, Busy, Shaped, OnKey, WritesApart, ReadsWhole, KnowsKey, At
    <2> QED  BY <1>1, <2>1, <2>3, <2>5, CallMoves DEF Inv, TypeOK
  <1> QED  BY <1>2, <1>3, ListSteps DEF GoesSomehow

-----------------------------------------------------------------------------

LEMMA StepKeeps == Inv /\ [Next]_vars => Inv'
  <1> SUFFICES ASSUME Inv, [Next]_vars PROVE Inv'
    OBVIOUS
  <1>1. CASE UNCHANGED vars
    BY <1>1 DEF vars, disk, Inv, TypeOK, EntriesWhole, OneWriter, Sound, Present, Busy, Shaped, OnKey,
                WritesApart, ReadsWhole, KnowsKey, At, Content, Applied
  <1>2. CASE Next
    <2>1. PICK c \in Callers :
             \/ \E k \in Keys : \/ \E p \in Payloads : Begin(c, "put", k, p, 0)
                                \/ Begin(c, "get", k, Absent, 0)
                                \/ Begin(c, "delete", k, Absent, 0)
             \/ \E k \in ListPrefixes, n \in Limits : Begin(c, "list", k, Absent, n)
             \/ MakeTemp(c) \/ WriteChunk(c) \/ Replace(c) \/ WriteFails(c) \/ StatPath(c)
             \/ OpenFile(c) \/ ReadChunk(c) \/ Unlink(c) \/ ListStep(c)
             \/ S3Apply(c) \/ S3Answers(c) \/ S3Get(c)
             \/ Returns(c) \/ Dies(c)
      BY <1>2 DEF Next, ListStep
    <2>2. ASSUME NEW k \in Keys, NEW p \in Payloads, Begin(c, "put", k, p, 0) PROVE Inv'
      BY <2>2, BeginKeeps
    <2>3. ASSUME NEW k \in Keys, Begin(c, "get", k, Absent, 0) \/ Begin(c, "delete", k, Absent, 0)
          PROVE  Inv'
      BY <2>3, BeginKeeps
    <2>4. ASSUME NEW k \in ListPrefixes, NEW n \in Limits, Begin(c, "list", k, Absent, n) PROVE Inv'
      BY <2>4, ListAssumption, BeginKeeps
    <2>5. CASE MakeTemp(c) \/ WriteChunk(c) \/ Replace(c) \/ Unlink(c) \/ S3Apply(c)
      BY <2>5, MakeTempKeeps, WriteChunkKeeps, ReplaceKeeps, UnlinkKeeps, S3ApplyKeeps
    <2>6. CASE StatPath(c) \/ OpenFile(c) \/ ReadChunk(c)
      BY <2>6, StatPathKeeps, OpenFileKeeps, ReadChunkKeeps
    <2>7. CASE ListStep(c)
      BY <2>7, ListKeeps
    <2>8. CASE WriteFails(c) \/ S3Answers(c) \/ S3Get(c) \/ Returns(c) \/ Dies(c)
      BY <2>8, AnswersKeep
    <2> QED  BY <2>1, <2>2, <2>3, <2>4, <2>5, <2>6, <2>7, <2>8
  <1> QED  BY <1>1, <1>2

LEMMA InvHolds == Spec => []Inv
  <1> QED  BY InitInv, StepKeeps, PTL DEF Spec

\* The store's state, and what each call in progress remembers, is of its type.
THEOREM StorageTyped == Spec => []TypeOK
  <1>1. Inv => TypeOK  BY DEF Inv
  <1> QED  BY <1>1, InvHolds, PTL

\* Whatever is interrupted, what is at a key is the whole of what one put wrote: a
\* file is entered only when it is complete, and nobody writes to it from then on.
THEOREM ObjectsAreComplete == Spec => []ObjectsComplete
  <1>1. Inv => ObjectsComplete  BY DEF Inv, EntriesWhole, ObjectsComplete
  <1> QED  BY <1>1, InvHolds, PTL

-----------------------------------------------------------------------------
(* What a list finds *)

\* A set of positions has a last one.
LEMMA GreatestOf ==
    ASSUME NEW m \in Nat, NEW T, T \subseteq 1 .. m, T # {}
    PROVE  \E n \in T : \A j \in T : j <= n
  <1> DEFINE gaps == {m - j : j \in T}
  <1>1. gaps \subseteq Nat /\ gaps # {}
    <2>1. \A j \in T : m - j \in Nat  OBVIOUS
    <2>2. PICK j \in T : TRUE  OBVIOUS
    <2>3. m - j \in gaps  OBVIOUS
    <2> QED  BY <2>1, <2>3
  <1>2. PICK i \in gaps : \A j \in gaps : i <= j
    <2> HIDE DEF gaps
    <2>1. PICK i \in gaps : \A j \in gaps : <<j, i>> \notin OpToRel(<, Nat)
      BY <1>1, NatLessThanWellFounded, WFMin, Zenon
    <2>2. \A j \in gaps : ~(j < i)  BY <1>1, <2>1 DEF OpToRel
    <2> QED  BY <1>1, <2>2
  <1>3. PICK n \in T : i = m - n  OBVIOUS
  <1>4. ASSUME NEW j \in T  PROVE j <= n
    <2>1. m - n <= m - j  BY <1>2, <1>3
    <2> QED  BY <2>1
  <1> QED  BY <1>4

\* A prefix, position by position.
LEMMA PrefixMeans ==
    ASSUME NEW S, NEW s \in Seq(S), NEW t \in Seq(S)
    PROVE  IsPrefix(s, t) <=> Len(s) <= Len(t) /\ \A n \in 1 .. Len(s) : s[n] = t[n]
  <1>1. CASE Len(s) <= Len(t)
    <2>1. \A n \in 1 .. Len(s) : s[n] \in S /\ t[n] \in S  BY <1>1, ElementOfSeq
    <2>2. /\ SubSeq(s, 1, Len(s)) \in Seq(S) /\ Len(SubSeq(s, 1, Len(s))) = Len(s)
          /\ \A n \in 1 .. Len(s) : SubSeq(s, 1, Len(s))[n] = s[n]
      BY <2>1, SubSeqProperties
    <2>3. /\ SubSeq(t, 1, Len(s)) \in Seq(S) /\ Len(SubSeq(t, 1, Len(s))) = Len(s)
          /\ \A n \in 1 .. Len(s) : SubSeq(t, 1, Len(s))[n] = t[n]
      BY <2>1, SubSeqProperties
    <2>4. (SubSeq(s, 1, Len(s)) = SubSeq(t, 1, Len(s))) <=> \A n \in 1 .. Len(s) : s[n] = t[n]
      BY <2>2, <2>3, SeqEqual
    <2> QED  BY <1>1, <2>4 DEF IsPrefix
  <1>2. CASE ~(Len(s) <= Len(t))  BY <1>2 DEF IsPrefix
  <1> QED  BY <1>1, <1>2

\* What is below the directory of a prefix of a key's path is where the key is.
LEMMA BelowParent ==
    ASSUME NEW S, NEW s \in Seq(S), NEW k \in Seq(S), "/" \in S, IsPrefix(s, k)
    PROVE  Below(Parent(s), k)
  <1>1. CASE Slashes(s) = {}  BY <1>1 DEF Below, Parent
  <1>2. CASE Slashes(s) # {}
    <2> DEFINE last == CHOOSE n \in Slashes(s) : \A m \in Slashes(s) : m <= n
    <2>1. \E n \in Slashes(s) : \A m \in Slashes(s) : m <= n
      <3>1. Slashes(s) \subseteq 1 .. Len(s) /\ Len(s) \in Nat  BY DEF Slashes
      <3> QED  BY <1>2, <3>1, GreatestOf
    <2>2. last \in 1 .. Len(s) /\ s[last] = "/"  BY <2>1 DEF Slashes
    <2> HIDE DEF last
    <2>3. /\ SubSeq(s, 1, last - 1) \in Seq(S) /\ Len(SubSeq(s, 1, last - 1)) = last - 1
          /\ \A n \in 1 .. last - 1 : SubSeq(s, 1, last - 1)[n] = s[n]
      <3>1. \A n \in 1 .. last - 1 : s[n] \in S  BY <2>2, ElementOfSeq
      <3> QED  BY <2>2, <3>1, SubSeqProperties
    <2>4. Parent(s) = SubSeq(s, 1, last - 1)  BY <1>2 DEF Parent, last
    <2> DEFINE dir == Append(Parent(s), "/")
    <2>5. /\ dir \in Seq(S) /\ Len(dir) = last
          /\ \A n \in 1 .. last : dir[n] = s[n]
      BY <2>2, <2>3, <2>4
    <2>6. last <= Len(k) /\ \A n \in 1 .. last : s[n] = k[n]
      BY <2>2, PrefixMeans
    <2> HIDE DEF dir
    <2>7. IsPrefix(dir, k)  BY <2>5, <2>6, PrefixMeans
    <2> QED  BY <2>7 DEF Below, dir
  <1> QED  BY <1>1, <1>2

\* The directory searched for a prefix of whole directories has all its keys.
LEMMA SearchFinds ==
    ASSUME NEW S, NEW prefix \in Seq(S), NEW k \in Seq(S), "/" \in S,
           Whole(prefix), IsPrefix(prefix, k)
    PROVE  Matches(prefix, k)
  <1>1. CASE prefix = <<>>
    <2>1. Parent(<<>>) = <<>>  BY DEF Parent, Slashes
    <2> QED  BY <1>1, <2>1 DEF Matches, SearchRoot, Trim, Below
  <1>2. CASE prefix # <<>>
    <2> DEFINE s == Front(prefix)
    <2>1. Len(prefix) \in Nat \ {0} /\ prefix[Len(prefix)] = "/"
      BY <1>2, EmptySeq DEF Whole, Last
    <2>2. s \in Seq(S) /\ Len(s) = Len(prefix) - 1 /\ \A n \in 1 .. Len(s) : s[n] = prefix[n]
      <3>1. \A n \in 1 .. Len(prefix) - 1 : prefix[n] \in S  BY <2>1, ElementOfSeq
      <3> DEFINE m == Len(prefix) - 1
      <3>2. m \in Nat /\ \A n \in 1 .. m : prefix[n] \in S  BY <2>1, <3>1
      <3>3. s = SubSeq(prefix, 1, m)  BY DEF Front
      <3> HIDE DEF s, m
      <3>4. /\ s \in Seq(S) /\ Len(s) = m
            /\ \A n \in 1 .. m : s[n] = prefix[n]
        BY <3>2, <3>3, SubSeqProperties
      <3> QED  BY <3>4 DEF m
    <2>3. Trim(prefix) = s  BY <1>2 DEF Trim, Whole
    <2> HIDE DEF s
    <2>4. Append(s, "/") = prefix
      <3>1. /\ Append(s, "/") \in Seq(S) /\ Len(Append(s, "/")) = Len(prefix)
            /\ \A n \in 1 .. Len(prefix) : Append(s, "/")[n] = prefix[n]
        BY <2>1, <2>2
      <3> QED  BY <3>1, SeqEqual
    <2>5. IsPrefix(s, k)
      <3>1. Len(prefix) <= Len(k) /\ \A n \in 1 .. Len(prefix) : prefix[n] = k[n]
        BY PrefixMeans
      <3> QED  BY <2>1, <2>2, <3>1, PrefixMeans
    <2>6. CASE s \in dirs  BY <2>3, <2>4, <2>6 DEF Matches, SearchRoot, Below
    <2>7. CASE s \notin dirs
      <3>1. Below(Parent(s), k)  BY <2>2, <2>5, BelowParent
      <3>2. SearchRoot(prefix) = Parent(s)  BY <2>3, <2>7 DEF SearchRoot
      <3> QED  BY <3>1, <3>2 DEF Matches
    <2> QED  BY <2>6, <2>7
  <1> QED  BY <1>1, <1>2

\* What a list in progress has found, has still to look at and has listed: of the keys
\* that were there throughout it misses only those that come after all it has, while
\* the store has told it that there are more.
Asked(call)    == {k \in Keys : IsPrefix(call.key, k)}
Complete(call) == backend = "s3" \/ Whole(call.key)

Progress(call, see) ==
    /\ backend = "local" => ~call.more
    /\ call.pc = "start" => call.todo = {} /\ call.found = {} /\ call.listed = {}
    /\ call.pc = "walk" =>
         /\ backend = "local" /\ call.listed = {} /\ call.todo \subseteq Asked(call)
         /\ call.found \subseteq see.alive \cap Asked(call)
         /\ Complete(call) => see.steady \cap Asked(call) \subseteq call.todo \cup call.found
    /\ call.pc = "each" =>
         /\ call.todo \cup call.listed \subseteq see.alive \cap Asked(call)
         /\ \A l \in call.listed, k \in call.todo : Before(l, k)
         /\ Complete(call) =>
              \A k \in (see.steady \cap Asked(call)) \ (call.todo \cup call.listed) :
                call.more /\ \A l \in call.todo \cup call.listed : Before(l, k)
    /\ IsFiniteSet(call.listed) /\ Cardinality(call.listed) <= call.limit

Lists(c) ==
    Busy(c) /\ calls[c].op = "list" =>
        /\ Present \subseteq seen[c].alive /\ seen[c].steady \subseteq Present
        /\ Progress(calls[c], seen[c])

ListsSound == \A c \in Callers : Lists(c)

\* A backend lists its keys in an order.
LEMMA Ordered ==
    ASSUME TypeOK, NEW k \in Keys, NEW l \in Keys, ~Before(k, l), k # l  PROVE Before(l, k)
  <1>1. Rank[backend][k] \in Nat /\ Rank[backend][l] \in Nat /\ Rank[backend][k] # Rank[backend][l]
    BY ListAssumption DEF TypeOK
  <1> QED  BY <1>1 DEF Before

\* A list that a step changes only in what it saw.
LEMMA OthersList ==
    ASSUME ListsSound, NEW d \in Callers, calls'[d] = calls[d], seen'[d] = seen[d],
           UNCHANGED <<entry, backend>>
    PROVE  Lists(d)'
  BY DEF ListsSound, Lists, Busy, Present, Progress, Complete, Before

\* The call of a caller that answers is over.
LEMMA AnswerLists ==
    ASSUME Inv, ListsSound, NEW c \in Callers, NEW v, Answer(c, v), UNCHANGED <<entry, backend>>
    PROVE  ListsSound'
  <1>1. /\ ~Busy(c)'
        /\ \A d \in Callers \ {c} : calls'[d] = calls[d] /\ seen'[d] = seen[d]
    BY DEF Answer, Update, Inv, TypeOK, Busy
  <1>2. Lists(c)'  BY <1>1 DEF Lists
  <1> QED  BY <1>1, <1>2, OthersList DEF ListsSound

\* A call that is no list goes on.
LEMMA UpdateLists ==
    ASSUME Inv, ListsSound, NEW c \in Callers, NEW call, call.op # "list", Update(c, call),
           UNCHANGED <<entry, seen, backend>>
    PROVE  ListsSound'
  <1>1. /\ calls'[c] = call
        /\ \A d \in Callers \ {c} : calls'[d] = calls[d] /\ seen'[d] = seen[d]
    BY DEF Update, Inv, TypeOK
  <1>2. Lists(c)'  BY <1>1 DEF Lists
  <1> QED  BY <1>1, <1>2, OthersList DEF ListsSound

\* A changed directory entry is noted by every list in progress.
LEMMA EnterLists ==
    ASSUME Inv, ListsSound, NEW c \in Callers, NEW k \in Keys, NEW i \in Nat, NEW files,
           Enter(k, i, files), NEW call, call.op # "list", Update(c, call),
           calls[c].op # "list", UNCHANGED backend
    PROVE  ListsSound'
  <1>1. /\ calls'[c] = call
        /\ \A d \in Callers \ {c} : calls'[d] = calls[d]
    BY DEF Update, Inv, TypeOK
  <1>2. Present' = IF i = NoFile THEN Present \ {k} ELSE Present \cup {k}
    BY DEF Enter, Present, Inv, TypeOK
  <1>3. ASSUME NEW d \in Callers  PROVE Lists(d)'
    <2>1. CASE d = c  BY <1>1, <2>1 DEF Lists
    <2>2. CASE d # c /\ Busy(d) /\ calls[d].op = "list"
      <3>1. seen'[d] = [seen[d] EXCEPT !.steady = IF i = NoFile THEN @ \ {k} ELSE @,
                                       !.alive = IF i = NoFile THEN @ ELSE @ \cup {k}]
        BY <2>2 DEF Enter, Busy
      <3>2. seen[d] \in [values : SUBSET Seq(Payloads), steady : SUBSET Keys, alive : SUBSET Keys]
        BY DEF Inv, TypeOK
      <3>3. /\ seen'[d].steady = IF i = NoFile THEN seen[d].steady \ {k} ELSE seen[d].steady
            /\ seen'[d].alive = IF i = NoFile THEN seen[d].alive ELSE seen[d].alive \cup {k}
        BY <3>1, <3>2
      <3>4. calls'[d] = calls[d] /\ Lists(d)  BY <1>1, <2>2 DEF ListsSound
      <3>5. Progress(calls[d], seen[d])'
        BY <1>1, <2>2, <3>3, <3>4 DEF Lists, Progress, Complete, Before
      <3> QED  BY <1>2, <2>2, <3>3, <3>4, <3>5 DEF Lists
    <2>3. CASE d # c /\ ~(Busy(d) /\ calls[d].op = "list")  BY <1>1, <2>3 DEF Lists, Busy
    <2> QED  BY <2>1, <2>2, <2>3
  <1> QED  BY <1>3 DEF ListsSound

\* A list begins with what is there.
LEMMA BeginLists ==
    ASSUME Inv, ListsSound, NEW c \in Callers, NEW op, NEW k, NEW p, NEW n \in Nat,
           Begin(c, op, k, p, n)
    PROVE  ListsSound'
  <1> DEFINE call == [op |-> op, key |-> k, data |-> p, pc |-> "start", fd |-> NoFile, got |-> <<>>,
                      tries |-> 0, limit |-> n, todo |-> {}, found |-> {}, listed |-> {},
                      more |-> FALSE]
  <1>1. /\ calls'[c] = call
        /\ \A d \in Callers \ {c} : calls'[d] = calls[d] /\ seen'[d] = seen[d]
        /\ op = "list" => seen'[c] = [values |-> {}, steady |-> Present, alive |-> Present]
        /\ UNCHANGED <<entry, backend>>
    BY DEF Begin, Update, disk, Inv, TypeOK
  <1>2. IsFiniteSet({}) /\ Cardinality({}) = 0  BY FS_EmptySet
  <1>3. Progress(calls[c], seen[c])'
    <2>1. call.pc = "start" /\ call.todo = {} /\ call.found = {} /\ call.listed = {}
          /\ call.more = FALSE /\ call.limit = n
      OBVIOUS
    <2> HIDE DEF call
    <2> QED  BY <1>1, <1>2, <2>1 DEF Progress
  <1>4. Lists(c)'  BY <1>1, <1>3 DEF Lists, Present
  <1> QED  BY <1>1, <1>4, OthersList DEF ListsSound

\* A list goes on as it should.
LEMMA GoesLists ==
    ASSUME Inv, ListsSound, NEW c \in Callers, ListStep(c), NEW pc \in {"walk", "each"},
           NEW todo \in SUBSET Keys, NEW found \in SUBSET Keys, NEW listed \in SUBSET Keys,
           NEW more \in BOOLEAN, Goes(c, pc, todo, found, listed, more),
           Progress(On(calls[c], pc, todo, found, listed, more), seen[c])
    PROVE  ListsSound'
  <1> DEFINE call == On(calls[c], pc, todo, found, listed, more)
  <1>1. calls[c] \in Call /\ calls[c].op = "list" /\ UNCHANGED <<entry, backend>> /\ Busy(c)
    BY ListSteps
  <1>2. call.op = "list"  BY <1>1, OnTyped
  <1>3. Progress(call, seen[c])  OBVIOUS
  <1>4. Update(c, call) /\ seen' = seen  BY DEF Goes
  <1> HIDE DEF call
  <1>5. /\ calls'[c] = call
        /\ \A d \in Callers \ {c} : calls'[d] = calls[d] /\ seen'[d] = seen[d]
    BY <1>4 DEF Update, Inv, TypeOK
  <1>6. Progress(calls[c], seen[c])'
    BY <1>1, <1>3, <1>4, <1>5 DEF Progress, Complete, Before
  <1>7. Present \subseteq seen[c].alive /\ seen[c].steady \subseteq Present
    BY <1>1 DEF ListsSound, Lists
  <1>8. Present' = Present  BY <1>1 DEF Present
  <1>9. Lists(c)'  BY <1>4, <1>5, <1>6, <1>7, <1>8 DEF Lists
  <1> QED  BY <1>1, <1>5, <1>9, OthersList DEF ListsSound

\* What a caller's list in progress is.
LEMMA ListTyped ==
    ASSUME Inv, ListsSound, NEW c \in Callers, ListStep(c)
    PROVE  /\ calls[c] \in Call /\ calls[c].todo \in SUBSET Keys /\ calls[c].found \in SUBSET Keys
           /\ calls[c].listed \in SUBSET Keys /\ calls[c].more \in BOOLEAN /\ calls[c].limit \in Nat
           /\ Present \subseteq seen[c].alive /\ seen[c].steady \subseteq Present
           /\ Progress(calls[c], seen[c]) /\ Cardinality(calls[c].listed) \in Nat
           /\ UNCHANGED <<entry, backend>>
  <1>1. calls[c] \in Call /\ calls[c].op = "list" /\ Busy(c) /\ UNCHANGED <<entry, backend>>
    BY ListSteps
  <1>2. /\ Present \subseteq seen[c].alive /\ seen[c].steady \subseteq Present
        /\ Progress(calls[c], seen[c])
    BY <1>1 DEF ListsSound, Lists
  <1>3. Cardinality(calls[c].listed) \in Nat
    BY <1>2, FS_CardinalityType DEF Progress
  <1> QED  BY <1>1, <1>2, <1>3 DEF Call

\* The walk looks at every place where a key of the prefix can be.
LEMMA WalkLists ==
    ASSUME Inv, ListsSound, NEW c \in Callers, Walk(c)
    PROVE  ListsSound'
  <1> DEFINE call == calls[c]
             todo == {k \in Keys : Matches(call.key, k)}
             on   == On(call, "walk", todo, call.found, call.listed, call.more)
  <1>1. ListStep(c) /\ backend = "local" /\ call.op = "list" /\ call.pc = "start"
    BY DEF ListStep, Walk, AtLocal, At
  <1>2. /\ call \in Call /\ call.found = {} /\ call.listed = {} /\ call.more \in BOOLEAN /\ ~call.more
        /\ IsFiniteSet(call.listed) /\ Cardinality(call.listed) <= call.limit
        /\ seen[c].steady \subseteq Present
    BY <1>1, ListTyped DEF Progress
  <1>3. todo \in SUBSET Keys /\ todo \subseteq Asked(call)  BY DEF Matches, Asked
  <1>4. Whole(call.key) => seen[c].steady \cap Asked(call) \subseteq todo
    <2> DEFINE S == STRING \cup {"/"}
    <2>1. call.key \in Seq(STRING) /\ \A k \in Keys : k \in Seq(STRING)  BY <1>2 DEF Call
    <2>2. STRING \subseteq S /\ "/" \in S  OBVIOUS
    <2> HIDE DEF S, call
    <2>3. call.key \in Seq(S) /\ \A k \in Keys : k \in Seq(S)  BY <2>1, <2>2, SeqMonotonic
    <2>4. \A k \in Asked(call) : Whole(call.key) => Matches(call.key, k)
      BY <2>2, <2>3, SearchFinds DEF Asked
    <2> QED  BY <2>4 DEF Asked
  <1>5. Goes(c, "walk", todo, call.found, call.listed, call.more)
    <2>1. Update(c, [call EXCEPT !.pc = "walk", !.todo = todo]) /\ UNCHANGED <<told, seen>>
      BY DEF Walk
    <2> HIDE DEF todo
    <2> QED  BY <1>2, <2>1, OnForms DEF Goes
  <1> HIDE DEF todo
  <1>6. call.found \in SUBSET Keys /\ call.listed \in SUBSET Keys  BY <1>2
  <1>7. /\ on.key = call.key /\ on.pc = "walk" /\ on.limit = call.limit /\ on.todo = todo
        /\ on.found = call.found /\ on.listed = call.listed /\ on.more = call.more
    BY <1>2, <1>3, <1>6, OnTyped
  <1>8. Progress(on, seen[c])
    <2> HIDE DEF on, call
    <2> QED  BY <1>1, <1>2, <1>3, <1>4, <1>7 DEF Progress, Complete, Asked
  <1> QED  BY <1>1, <1>2, <1>3, <1>5, <1>6, <1>8, GoesLists

\* A key that is there when the walk comes by is found.
LEMMA VisitLists ==
    ASSUME Inv, ListsSound, NEW c \in Callers, Visit(c)
    PROVE  ListsSound'
  <1> DEFINE call == calls[c]
  <1>1. ListStep(c) /\ call.pc = "walk" /\ UNCHANGED <<told, seen>>
    BY DEF ListStep, Visit, AtLocal, At
  <1>2. PICK k \in call.todo :
          Update(c, [call EXCEPT !.todo = @ \ {k},
                                 !.found = IF entry[k] = NoFile THEN @ ELSE @ \cup {k}])
    BY DEF Visit
  <1> DEFINE todo  == call.todo \ {k}
             found == IF entry[k] = NoFile THEN call.found ELSE call.found \cup {k}
             on    == On(call, "walk", todo, found, call.listed, call.more)
  <1>3. /\ call \in Call /\ call.todo \in SUBSET Keys /\ call.found \in SUBSET Keys
        /\ call.listed \in SUBSET Keys /\ call.more \in BOOLEAN /\ Progress(call, seen[c])
        /\ Present \subseteq seen[c].alive /\ seen[c].steady \subseteq Present
    BY <1>1, ListTyped
  <1>4. todo \in SUBSET Keys /\ found \in SUBSET Keys  BY <1>3
  <1>5. Goes(c, "walk", todo, found, call.listed, call.more)
    <2>1. Update(c, [call EXCEPT !.todo = todo, !.found = found])  BY <1>2
    <2> HIDE DEF todo, found
    <2> QED  BY <1>1, <1>3, <2>1, OnForms DEF Goes
  <1>6. /\ on.key = call.key /\ on.pc = "walk" /\ on.limit = call.limit /\ on.todo = todo
        /\ on.found = found /\ on.listed = call.listed /\ on.more = call.more
    <2> HIDE DEF todo, found
    <2> QED  BY <1>3, <1>4, OnTyped
  <1>7. Progress(on, seen[c])
    <2>1. \/ entry[k] = NoFile /\ k \notin seen[c].steady /\ found = call.found
          \/ k \in seen[c].alive /\ found = call.found \cup {k}
      BY <1>3 DEF Present
    <2> HIDE DEF on, call, found
    <2> QED  BY <1>1, <1>3, <1>6, <2>1 DEF Progress, Complete, Asked
  <1> HIDE DEF todo, found
  <1> QED  BY <1>1, <1>3, <1>4, <1>5, <1>7, GoesLists

LEMMA SortsLists ==
    ASSUME Inv, ListsSound, NEW c \in Callers, Sorts(c)
    PROVE  ListsSound'
  <1> DEFINE call == calls[c]
             on   == On(call, "each", call.found, call.found, call.listed, call.more)
  <1>1. ListStep(c) /\ call.pc = "walk" /\ call.todo = {}
    BY DEF ListStep, Sorts, AtLocal, At
  <1>2. /\ call \in Call /\ call.todo \in SUBSET Keys /\ call.found \in SUBSET Keys
        /\ call.listed \in SUBSET Keys /\ call.more \in BOOLEAN /\ Progress(call, seen[c])
    BY <1>1, ListTyped
  <1>3. Goes(c, "each", call.found, call.found, call.listed, call.more)
    BY <1>2, OnForms DEF Sorts, Goes
  <1>4. /\ on.key = call.key /\ on.pc = "each" /\ on.limit = call.limit /\ on.todo = call.found
        /\ on.found = call.found /\ on.listed = call.listed /\ on.more = call.more
    BY <1>2, OnTyped
  <1>5. Progress(on, seen[c])
    <2> HIDE DEF on, call
    <2> QED  BY <1>1, <1>2, <1>4 DEF Progress, Complete, Asked
  <1> QED  BY <1>1, <1>2, <1>3, <1>5, GoesLists

\* The next key in order is listed, below the limit.
LEMMA YieldsLists ==
    ASSUME Inv, ListsSound, NEW c \in Callers, ListStep(c), calls[c].pc = "each",
           ~Enough(calls[c]), NEW k \in FirstOf(calls[c].todo), Yields(c, k), UNCHANGED <<told, seen>>
    PROVE  ListsSound'
  <1> DEFINE call   == calls[c]
             todo   == call.todo \ {k}
             listed == call.listed \cup {k}
             on     == On(call, "each", todo, call.found, listed, call.more)
  <1>1. /\ call \in Call /\ call.todo \in SUBSET Keys /\ call.found \in SUBSET Keys
        /\ call.listed \in SUBSET Keys /\ call.more \in BOOLEAN /\ call.limit \in Nat
        /\ Progress(call, seen[c]) /\ Cardinality(call.listed) \in Nat
    BY ListTyped
  <1>2. k \in call.todo /\ \A l \in call.todo : ~Before(l, k)  BY DEF FirstOf
  <1>3. todo \in SUBSET Keys /\ listed \in SUBSET Keys  BY <1>1, <1>2
  <1>4. Goes(c, "each", todo, call.found, listed, call.more)
    <2>1. Update(c, [call EXCEPT !.todo = todo, !.listed = listed])  BY DEF Yields
    <2> HIDE DEF todo, listed
    <2> QED  BY <1>1, <2>1, OnForms DEF Goes
  <1>5. /\ on.key = call.key /\ on.pc = "each" /\ on.limit = call.limit /\ on.todo = todo
        /\ on.found = call.found /\ on.listed = listed /\ on.more = call.more
    <2> HIDE DEF todo, listed
    <2> QED  BY <1>1, <1>3, OnTyped
  <1>6. IsFiniteSet(listed) /\ Cardinality(listed) <= call.limit
    <2>1. IsFiniteSet(call.listed)  BY <1>1 DEF Progress
    <2>2. /\ IsFiniteSet(listed)
          /\ Cardinality(listed) = Cardinality(call.listed) \/ Cardinality(listed) = Cardinality(call.listed) + 1
      BY <2>1, FS_AddElement
    <2>3. ~(Cardinality(call.listed) >= call.limit)  BY DEF Enough
    <2> QED  BY <1>1, <2>2, <2>3
  <1>7. \A l \in listed, m \in todo : Before(l, m)
    <2>1. \A m \in todo : Before(k, m)  BY <1>1, <1>2, Ordered DEF Inv
    <2> QED  BY <1>1, <2>1 DEF Progress
  <1>8. todo \cup listed = call.todo \cup call.listed  BY <1>2
  <1>9. Progress(on, seen[c])
    <2> HIDE DEF on, call, todo, listed
    <2>1. on.todo \cup on.listed = call.todo \cup call.listed  BY <1>5, <1>8
    <2>2. Asked(on) = Asked(call) /\ (Complete(on) <=> Complete(call))
      BY <1>5 DEF Asked, Complete
    <2> QED  BY <1>1, <1>5, <1>6, <1>7, <2>1, <2>2 DEF Progress, call
  <1> HIDE DEF todo, listed
  <1> QED  BY <1>1, <1>3, <1>4, <1>9, GoesLists

\* A file that is gone when its turn comes was not there throughout.
LEMMA EachLists ==
    ASSUME Inv, ListsSound, NEW c \in Callers, ListEach(c)
    PROVE  ListsSound'
  <1> DEFINE call == calls[c]
  <1>1. ListStep(c) /\ call.pc = "each" /\ backend = "local" /\ ~Enough(call)
    BY DEF ListStep, ListEach, AtLocal, At
  <1>2. PICK k \in FirstOf(call.todo) :
          \/ ~Skips(k) /\ Yields(c, k) /\ UNCHANGED <<told, seen>>
          \/ Skips(k) /\ Update(c, [call EXCEPT !.todo = @ \ {k}]) /\ UNCHANGED <<told, seen>>
          \/ Skips(k) /\ Answer(c, Failed)
    BY DEF ListEach
  <1>3. CASE Yields(c, k) /\ UNCHANGED <<told, seen>>  BY <1>1, <1>3, YieldsLists
  <1>4. CASE Answer(c, Failed)  BY <1>1, <1>4, ListTyped, AnswerLists
  <1>5. CASE Skips(k) /\ Update(c, [call EXCEPT !.todo = @ \ {k}]) /\ UNCHANGED <<told, seen>>
    <2> DEFINE todo == call.todo \ {k}
               on   == On(call, "each", todo, call.found, call.listed, call.more)
    <2>1. /\ call \in Call /\ call.todo \in SUBSET Keys /\ call.found \in SUBSET Keys
          /\ call.listed \in SUBSET Keys /\ call.more \in BOOLEAN /\ Progress(call, seen[c])
          /\ seen[c].steady \subseteq Present
      BY <1>1, ListTyped
    <2>2. k \notin seen[c].steady  BY <1>5, <2>1 DEF Skips, Present
    <2>3. todo \in SUBSET Keys /\ todo \subseteq call.todo /\ call.todo \subseteq todo \cup {k}
      BY <2>1
    <2>4. Update(c, [call EXCEPT !.todo = todo])  BY <1>5
    <2> HIDE DEF todo
    <2>5. Goes(c, "each", todo, call.found, call.listed, call.more)
      BY <1>1, <1>5, <2>1, <2>4, OnForms DEF Goes
    <2>6. /\ on.key = call.key /\ on.pc = "each" /\ on.limit = call.limit /\ on.todo = todo
          /\ on.found = call.found /\ on.listed = call.listed /\ on.more = call.more
      BY <2>1, <2>3, OnTyped
    <2>7. Progress(on, seen[c])
      <3> HIDE DEF on, call
      <3> QED  BY <1>1, <2>1, <2>2, <2>3, <2>6 DEF Progress, Complete, Asked
    <2> QED  BY <1>1, <2>1, <2>3, <2>5, <2>7, GoesLists
  <1> QED  BY <1>2, <1>3, <1>4, <1>5

\* What a page of S3 leaves out comes after it, and after the pages before.
LEMMA PageLists ==
    ASSUME Inv, ListsSound, NEW c \in Callers, S3Page(c)
    PROVE  ListsSound'
  <1> DEFINE call == calls[c]
             rest == {k \in Present : /\ IsPrefix(call.key, k)
                                      /\ \A l \in call.listed : Before(l, k)}
  <1>1. /\ ListStep(c) /\ backend = "s3" /\ UNCHANGED <<told, seen>> /\ call.todo = {}
        /\ call.pc = "start" \/ (call.pc = "each" /\ call.more)
    BY DEF ListStep, S3Page, AtS3, At
  <1>2. PICK page \in SUBSET rest :
          /\ \A k \in page, l \in rest : Before(l, k) => l \in page
          /\ Update(c, [call EXCEPT !.pc = "each", !.todo = page, !.more = page # rest])
    BY DEF S3Page
  <1> DEFINE more == page # rest
             on   == On(call, "each", page, call.found, call.listed, more)
  <1>3. /\ call \in Call /\ call.found \in SUBSET Keys /\ call.listed \in SUBSET Keys
        /\ Progress(call, seen[c])
        /\ Present \subseteq seen[c].alive /\ seen[c].steady \subseteq Present
    BY <1>1, ListTyped
  <1>4. /\ page \in SUBSET Keys /\ page \subseteq seen[c].alive \cap Asked(call) /\ more \in BOOLEAN
    BY <1>3 DEF Present, Asked
  <1>5. Goes(c, "each", page, call.found, call.listed, more)
    <2>1. Update(c, [call EXCEPT !.pc = "each", !.todo = page, !.more = more])  BY <1>2
    <2>2. UNCHANGED <<told, seen>>  BY <1>1
    <2> HIDE DEF more, rest
    <2>3. call \in Call  BY <1>3
    <2>4. \A new : [call EXCEPT !.pc = "each", !.todo = page, !.more = new]
                     = On(call, "each", page, call.found, call.listed, new)
      <3> HIDE DEF call
      <3> QED  BY ONLY <2>3, OnForms
    <2> QED  BY <2>1, <2>2, <2>4 DEF Goes
  <1>6. /\ on.key = call.key /\ on.pc = "each" /\ on.limit = call.limit /\ on.todo = page
        /\ on.found = call.found /\ on.listed = call.listed /\ on.more = more
    <2> HIDE DEF more, rest
    <2> QED  BY <1>3, <1>4, OnTyped
  <1>7. call.listed \subseteq seen[c].alive \cap Asked(call)
    BY <1>1, <1>3 DEF Progress
  <1>8. \A l \in call.listed, k \in page : Before(l, k)  OBVIOUS
  <1>9. ASSUME NEW k \in (seen[c].steady \cap Asked(call)) \ (page \cup call.listed)
        PROVE  more /\ \A l \in page \cup call.listed : Before(l, k)
    <2>1. \A l \in call.listed : Before(l, k)
      BY <1>1, <1>3 DEF Progress, Complete
    <2>2. k \in rest  BY <1>3, <2>1 DEF Asked
    <2>3. \A l \in page : Before(l, k)
      <3> SUFFICES ASSUME NEW l \in page, ~Before(l, k) PROVE FALSE
        OBVIOUS
      <3>1. k \in Keys /\ l \in Keys /\ k # l  BY <1>4 DEF Asked
      <3>2. Before(k, l)  BY <3>1, Ordered DEF Inv
      <3> QED  BY <1>2, <2>2, <3>2
    <2> QED  BY <2>1, <2>2, <2>3
  <1>10. Progress(on, seen[c])
    <2>1. IsFiniteSet(call.listed) /\ Cardinality(call.listed) <= call.limit  BY <1>3 DEF Progress
    <2>2. Asked(on) = Asked(call)  BY <1>6 DEF Asked
    <2> HIDE DEF on, call, rest, more
    <2> QED  BY <1>1, <1>4, <1>6, <1>7, <1>8, <1>9, <2>1, <2>2 DEF Progress
  <1> HIDE DEF rest, more
  <1> QED  BY <1>1, <1>3, <1>4, <1>5, <1>10, GoesLists

\* The steps of puts, gets and deletes.
LEMMA KeyStepLists ==
    ASSUME Inv, ListsSound, NEW c \in Callers,
           \/ MakeTemp(c) \/ WriteChunk(c) \/ Replace(c) \/ StatPath(c) \/ OpenFile(c)
           \/ ReadChunk(c) \/ Unlink(c) \/ S3Apply(c)
    PROVE  ListsSound'
  <1>1. /\ Busy(c) /\ calls[c] \in Call /\ Shaped(calls[c]) /\ UNCHANGED backend
    BY CallTyped DEF MakeTemp, WriteChunk, Replace, StatPath, OpenFile, ReadChunk, Unlink, S3Apply,
                     AtLocal, AtS3, At, Busy, Same, Inv, Sound
  <1>2. calls[c].op \in {"put", "get", "delete"}
    BY <1>1 DEF MakeTemp, WriteChunk, Replace, StatPath, OpenFile, ReadChunk, Unlink, S3Apply,
                AtLocal, AtS3, At, Shaped, Call
  <1>3. calls[c].key \in Keys  BY <1>1, <1>2 DEF Shaped, OnKey
  <1>4. CASE MakeTemp(c)
    <2>1. [calls[c] EXCEPT !.pc = "write", !.fd = Len(inodes')].op = calls[c].op  BY <1>1 DEF Call
    <2> QED  BY <1>1, <1>2, <1>4, <2>1, UpdateLists DEF MakeTemp
  <1>5. CASE WriteChunk(c)
    BY <1>1, <1>5, OthersList DEF WriteChunk, ListsSound
  <1>6. CASE StatPath(c)
    <2>1. [calls[c] EXCEPT !.pc = "etag"].op = calls[c].op  BY <1>1 DEF Call
    <2> QED  BY <1>1, <1>2, <1>6, <2>1, UpdateLists, AnswerLists DEF StatPath, disk
  <1>7. CASE OpenFile(c)
    <2>1. \A i : [calls[c] EXCEPT !.pc = "read", !.fd = i].op = calls[c].op  BY <1>1 DEF Call
    <2> QED  BY <1>1, <1>2, <1>7, <2>1, UpdateLists, AnswerLists DEF OpenFile, disk
  <1>8. CASE ReadChunk(c)
    <2>1. \A v : [calls[c] EXCEPT !.got = Append(@, v)].op = calls[c].op  BY <1>1 DEF Call
    <2> QED  BY <1>1, <1>2, <1>8, <2>1, UpdateLists, AnswerLists DEF ReadChunk, disk
  <1>9. CASE Replace(c)
    <2>1. [calls[c] EXCEPT !.pc = "stat"].op = calls[c].op  BY <1>1 DEF Call
    <2>2. calls[c].fd \in Nat  BY <1>1 DEF Call, File, NoFile
    <2> QED  BY <1>1, <1>2, <1>3, <1>9, <2>1, <2>2, EnterLists DEF Replace
  <1>10. CASE Unlink(c)
    <2>1. [calls[c] EXCEPT !.pc = "stat"].op = calls[c].op  BY <1>1 DEF Call
    <2> QED  BY <1>1, <1>2, <1>3, <1>10, <2>1, EnterLists DEF Unlink, NoFile
  <1>11. CASE S3Apply(c)
    <2>1. [calls[c] EXCEPT !.tries = @ + 1].op = calls[c].op  BY <1>1 DEF Call
    <2>2. Len(inodes') \in Nat \/ calls[c].op # "put"
      BY <1>1, <1>11, FullTyped DEF S3Apply, Inv, TypeOK, Shaped
    <2> QED  BY <1>1, <1>2, <1>3, <1>11, <2>1, <2>2, EnterLists DEF S3Apply, NoFile
  <1> QED  BY <1>4, <1>5, <1>6, <1>7, <1>8, <1>9, <1>10, <1>11

LEMMA ListsStep == Inv /\ ListsSound /\ [Next]_vars => ListsSound'
  <1> SUFFICES ASSUME Inv, ListsSound, [Next]_vars PROVE ListsSound'
    OBVIOUS
  <1>1. CASE UNCHANGED vars  BY <1>1, OthersList DEF vars, disk, ListsSound
  <1>2. CASE Next
    <2>a. 0 \in Nat  OBVIOUS
    <2>1. PICK c \in Callers :
           \/ \E op, k, p : \E n \in Nat : Begin(c, op, k, p, n)
           \/ MakeTemp(c) \/ WriteChunk(c) \/ Replace(c) \/ WriteFails(c) \/ StatPath(c)
           \/ OpenFile(c) \/ ReadChunk(c) \/ Unlink(c) \/ Walk(c) \/ Visit(c)
           \/ Sorts(c) \/ ListEach(c) \/ S3Page(c) \/ S3Each(c)
           \/ S3Apply(c) \/ S3Answers(c) \/ S3Get(c)
           \/ Returns(c) \/ Dies(c)
      BY <1>2, ListAssumption, <2>a DEF Next
    <2>2. CASE \E op, k, p : \E n \in Nat : Begin(c, op, k, p, n)  BY <2>2, BeginLists
    <2>3. CASE \/ MakeTemp(c) \/ WriteChunk(c) \/ Replace(c) \/ StatPath(c) \/ OpenFile(c)
               \/ ReadChunk(c) \/ Unlink(c) \/ S3Apply(c)
      BY <2>3, KeyStepLists
    <2>4. CASE WriteFails(c) \/ S3Answers(c) \/ S3Get(c) \/ Returns(c) \/ Dies(c)
      BY <2>4, AnswerLists DEF WriteFails, S3Answers, S3Get, Returns, Dies, disk, Same
    <2>5. CASE Walk(c) \/ Visit(c) \/ Sorts(c)  BY <2>5, WalkLists, VisitLists, SortsLists
    <2>6. CASE ListEach(c) \/ S3Page(c)  BY <2>6, EachLists, PageLists
    <2>7. CASE S3Each(c)  BY <2>7, YieldsLists DEF S3Each, ListStep, AtS3, At
    <2> QED  BY <2>1, <2>2, <2>3, <2>4, <2>5, <2>6, <2>7
  <1> QED  BY <1>1, <1>2

\* A list of whole directories, when it ends, is within its limit, has nothing that never
\* was, and of what was there throughout lacks only what comes after all it has once the
\* limit is reached, whatever is put and deleted while the tree is walked or between pages.
THEOREM ListsHaveWhatStays == Spec => []ListsWhatStays
  <1>1. Init => ListsSound  BY DEF Init, ListsSound, Lists, Busy
  <1>2. Inv /\ ListsSound => ListsWhatStays
    <2> SUFFICES ASSUME Inv, ListsSound, NEW c \in Callers, ListEnds(c)
                 PROVE  LET call == calls[c] IN
                        /\ call.listed \subseteq {k \in seen[c].alive : IsPrefix(call.key, k)}
                        /\ Cardinality(call.listed) <= call.limit
                        /\ backend = "s3" \/ Whole(call.key) =>
                             \A k \in seen[c].steady : IsPrefix(call.key, k) =>
                                 \/ k \in call.listed
                                 \/ /\ Cardinality(call.listed) = call.limit
                                    /\ \A l \in call.listed : Before(l, k)
      BY DEF ListsWhatStays
    <2> DEFINE call == calls[c]
    <2>1. /\ Lists(c) /\ Busy(c) /\ call.op = "list" /\ call.pc = "each"
          /\ Enough(call) \/ (call.todo = {} /\ ~call.more)
      BY DEF ListsSound, ListEnds, At, Busy
    <2>2. call \in Call /\ seen[c].steady \subseteq Keys
      BY <2>1, CallTyped DEF Inv, TypeOK
    <2>3. Progress(call, seen[c])  BY <2>1 DEF Lists
    <2>4. Cardinality(call.listed) \in Nat /\ call.limit \in Nat
      BY <2>2, <2>3, FS_CardinalityType DEF Progress, Call
    <2>5. Enough(call) => Cardinality(call.listed) = call.limit
      BY <2>3, <2>4 DEF Enough, Progress
    <2>6. Cardinality(call.listed) <= call.limit  BY <2>3 DEF Progress
    <2>7. call.listed \subseteq {k \in seen[c].alive : IsPrefix(call.key, k)}
      BY <2>1, <2>3 DEF Progress, Asked
    <2>8. ASSUME backend = "s3" \/ Whole(call.key), NEW k \in seen[c].steady, IsPrefix(call.key, k)
          PROVE  \/ k \in call.listed
                 \/ Cardinality(call.listed) = call.limit /\ \A l \in call.listed : Before(l, k)
      <3>1. k \in Asked(call)  BY <2>2, <2>8 DEF Asked
      <3>2. \/ k \in call.listed
            \/ k \in call.todo /\ \A l \in call.listed : Before(l, k)
            \/ call.more /\ \A l \in call.listed : Before(l, k)
        BY <2>1, <2>3, <2>8, <3>1 DEF Progress, Complete
      <3> QED  BY <2>1, <2>5, <3>2
    <2> QED  BY <2>6, <2>7, <2>8
  <1> QED  BY <1>1, <1>2, ListsStep, InvHolds, PTL DEF Spec

-----------------------------------------------------------------------------
(* Refinement of AtomicStore *)

Store == [k \in Keys |-> Content(entry[k])]
View(c) == Promised(calls[c], seen[c].values)
Views == [c \in Callers |-> View(c)]

LEMMA ViewOf ==
    ASSUME Inv, NEW c \in Callers
    PROVE  /\ ~Busy(c) \/ calls[c].op = "list" => View(c) = [op |-> "none"]
           /\ Busy(c) /\ OnKey(calls[c]) =>
                /\ View(c) = [op |-> calls[c].op, key |-> calls[c].key,
                              value |-> IF calls[c].op = "put" THEN Full(calls[c].data) ELSE Absent,
                              applied |-> calls[c].op # "get" /\ Applied(calls[c]),
                              seen |-> seen[c].values]
                /\ View(c) # [op |-> "none"] /\ calls[c].key \in Keys
           /\ ~Busy(c) \/ calls[c].op = "list" \/ OnKey(calls[c])
  <1>1. CASE ~Busy(c)  BY <1>1 DEF View, Promised, Busy, Idle
  <1>2. CASE Busy(c)
    <2>1. calls[c] \in Call /\ Shaped(calls[c])  BY <1>2, CallTyped DEF Inv, Sound
    <2>2. calls[c].op = "list" \/ OnKey(calls[c])  BY <2>1 DEF Call, OnKey
    <2>3. calls[c].op = "list" => View(c) = [op |-> "none"]  BY DEF View, Promised
    <2>4. OnKey(calls[c]) =>
                /\ View(c) = [op |-> calls[c].op, key |-> calls[c].key,
                              value |-> IF calls[c].op = "put" THEN Full(calls[c].data) ELSE Absent,
                              applied |-> calls[c].op # "get" /\ Applied(calls[c]),
                              seen |-> seen[c].values]
                /\ calls[c].key \in Keys
      BY <2>1 DEF View, Promised, OnKey, Shaped
    <2>5. OnKey(calls[c]) => View(c).op = calls[c].op /\ View(c).op # "none"
      BY <2>4 DEF OnKey
    <2> QED  BY <1>2, <2>2, <2>3, <2>4, <2>5
  <1> QED  BY <1>1, <1>2

\* A step that changes neither what keys hold nor what is promised.
LEMMA Stutters ==
    ASSUME UNCHANGED told, \A k \in Keys : Content(entry[k])' = Content(entry[k]),
           \A c \in Callers : View(c)' = View(c)
    PROVE  UNCHANGED Abstract!vars
  <1>1. Store' = Store /\ Views' = Views  BY DEF Store, Views
  <1> QED  BY <1>1 DEF Abstract!vars, Store, Views, View

\* An answer that is a failure, or a value seen by a call that has done its part.
LEMMA Answers ==
    ASSUME Inv, NEW c \in Callers, NEW v, Busy(c), Answer(c, v), UNCHANGED <<inodes, entry>>,
           OnKey(calls[c]) =>
             \/ v = Failed
             \/ /\ v \in {Full(p) : p \in Payloads} \cup {Absent}
                /\ v \in seen[c].values
                /\ calls[c].op = "get" \/ Applied(calls[c])
    PROVE  [Abstract!Next]_Abstract!vars
  <1>1. /\ calls'[c] = Idle /\ \A d \in Callers \ {c} : calls'[d] = calls[d] /\ seen'[d] = seen[d]
    BY DEF Answer, Update, Inv, TypeOK
  <1>2. \A d \in Callers \ {c} : View(d)' = View(d)  BY <1>1 DEF View
  <1>3. View(c)' = [op |-> "none"]  BY <1>1 DEF View, Promised, Idle
  <1>4. \A k \in Keys : Content(entry[k])' = Content(entry[k])  BY DEF Content
  <1>5. CASE calls[c].op = "list"
    <2>1. View(c)' = View(c)  BY <1>3, <1>5, ViewOf
    <2>2. told' = told  BY <1>5 DEF Answer
    <2> QED  BY <1>2, <1>4, <2>1, <2>2, Stutters
  <1>6. CASE OnKey(calls[c])
    <2>1. told' = <<c, v>>  BY <1>6 DEF Answer, OnKey
    <2>2. Store' = Store  BY <1>4 DEF Store
    <2>3. View(c) # [op |-> "none"]  BY <1>6, ViewOf
    <2>4. Views' = [Views EXCEPT ![c] = [op |-> "none"]]  BY <1>2, <1>3 DEF Views
    <2>5. Abstract!Ends(c, v)
      BY <2>1, <2>2, <2>3, <2>4 DEF Abstract!Ends, Abstract!NoCall, Store, Views, View
    <2>6. CASE v = Failed
      BY <2>5, <2>6 DEF Abstract!Next, Abstract!Lose
    <2>7. CASE v # Failed
      <3>1. /\ v \in View(c).seen
            /\ View(c).op \in {"put", "delete"} => View(c).applied
        <4>1. v \in seen[c].values /\ (calls[c].op = "get" \/ Applied(calls[c]))
          BY <1>6, <2>7
        <4>2. View(c).seen = seen[c].values /\ View(c).op = calls[c].op
          BY <1>6, ViewOf
        <4>3. View(c).applied = (calls[c].op # "get" /\ Applied(calls[c]))
          BY <1>6, ViewOf
        <4> QED  BY <4>1, <4>2, <4>3
      <3>2. Abstract!Answer(c, v)
        BY <2>5, <3>1 DEF Abstract!Answer, View
      <3> QED  BY <1>6, <2>7, <3>2 DEF Abstract!Next
    <2> QED  BY <2>6, <2>7
  <1> QED  BY <1>5, <1>6, ViewOf

\* The moment of a put or a delete.
LEMMA Applies ==
    ASSUME Inv, Inv', NEW c \in Callers, NEW k \in Keys, NEW i \in Nat, NEW v,
           Enter(k, i, inodes'), Busy(c), calls[c].op \in {"put", "delete"}, calls[c].key = k,
           UNCHANGED told,
           v = IF calls[c].op = "put" THEN Full(calls[c].data) ELSE Absent,
           v = IF i = NoFile THEN Absent ELSE inodes'[i],
           \A j \in DOMAIN inodes : inodes'[j] = inodes[j],
           NEW call \in Call, Update(c, call), Applied(call),
           call.op = calls[c].op, call.key = k, call.data = calls[c].data
    PROVE  Abstract!Next
  <1>1. /\ calls'[c] = call /\ \A d \in Callers \ {c} : calls'[d] = calls[d]
        /\ OnKey(calls[c]) /\ Busy(c)' /\ call.op \in {"put", "delete"}
    BY DEF Update, Inv, TypeOK, OnKey, Busy, Call, Idle
  <1>2. View(c).value = v /\ View(c).key = k /\ View(c).op \in {"put", "delete"}
    BY <1>1, ViewOf
  <1>3. entry' = [entry EXCEPT ![k] = i]  BY DEF Enter
  <1>4. Store' = [Store EXCEPT ![k] = v]
    <2>1. \A j \in Keys \ {k} : Content(entry[j])' = Content(entry[j])
      BY <1>3, EntryTyped DEF Content, Inv, TypeOK
    <2>2. Content(entry[k])' = v
      BY <1>3 DEF Content, Inv, TypeOK
    <2> QED  BY <2>1, <2>2 DEF Store
  <1>5. ASSUME NEW d \in Callers
        PROVE  View(d)' = IF View(d) = [op |-> "none"] \/ View(d).key # k THEN View(d)
                          ELSE [op |-> View(d).op, key |-> k, value |-> View(d).value,
                                applied |-> View(d).applied \/ d = c, seen |-> View(d).seen \cup {v}]
    <2>1. CASE View(d) = [op |-> "none"]
      <3>1. d # c /\ (~Busy(d) \/ calls[d].op = "list")  BY <1>1, <1>2, <2>1, ViewOf
      <3>2. (~Busy(d))' \/ calls'[d].op = "list"  BY <1>1, <3>1 DEF Busy
      <3>3. View(d)' = [op |-> "none"]  BY <3>2 DEF View, Promised, Busy, Idle
      <3> QED  BY <2>1, <3>3
    <2>2. CASE View(d) # [op |-> "none"]
      <3>1. Busy(d) /\ OnKey(calls[d]) /\ View(d).key = calls[d].key  BY <2>2, ViewOf
      <3>2. /\ calls'[d].op = calls[d].op /\ calls'[d].key = calls[d].key
            /\ calls'[d].data = calls[d].data /\ OnKey(calls'[d])
        BY <1>1, <3>1 DEF OnKey
      <3>3. seen'[d].values = IF calls[d].key = k THEN seen[d].values \cup {v} ELSE seen[d].values
        <4>1. seen[d] \in [values : SUBSET Seq(Payloads), steady : SUBSET Keys, alive : SUBSET Keys]
          BY DEF Inv, TypeOK
        <4>2. seen'[d] = IF calls[d].key = k THEN [seen[d] EXCEPT !.values = @ \cup {v}] ELSE seen[d]
          BY <3>1 DEF Enter, Busy, OnKey
        <4> QED  BY <4>1, <4>2
      <3>4. (calls'[d].op # "get" /\ Applied(calls'[d]))
              <=> ((calls[d].op # "get" /\ Applied(calls[d])) \/ d = c)
        BY <1>1, <3>2 DEF OnKey
      <3>5. View(d)' = [op |-> calls[d].op, key |-> calls[d].key,
                        value |-> IF calls[d].op = "put" THEN Full(calls[d].data) ELSE Absent,
                        applied |-> (calls[d].op # "get" /\ Applied(calls[d])) \/ d = c,
                        seen |-> seen'[d].values]
        BY <3>2, <3>4 DEF View, Promised, OnKey
      <3>6. View(d) = [op |-> calls[d].op, key |-> calls[d].key,
                       value |-> IF calls[d].op = "put" THEN Full(calls[d].data) ELSE Absent,
                       applied |-> calls[d].op # "get" /\ Applied(calls[d]),
                       seen |-> seen[d].values]
        BY <3>1, ViewOf
      <3>7. CASE calls[d].key = k
        <4>1. /\ View(d).op = calls[d].op /\ View(d).key = k /\ View(d).seen = seen[d].values
              /\ View(d).value = IF calls[d].op = "put" THEN Full(calls[d].data) ELSE Absent
          BY <3>6, <3>7
        <4>2. View(d).applied = (calls[d].op # "get" /\ Applied(calls[d]))  BY <3>6
        <4>3. (View(d).applied \/ d = c)
                = ((calls[d].op # "get" /\ Applied(calls[d])) \/ d = c)
          BY <4>2
        <4>4. seen'[d].values = View(d).seen \cup {v}  BY <3>3, <3>7, <4>1
        <4> QED  BY <2>2, <3>5, <3>7, <4>1, <4>3, <4>4
      <3>8. CASE calls[d].key # k  BY <2>2, <3>1, <3>3, <3>5, <3>6, <3>8
      <3> QED  BY <3>7, <3>8
    <2> QED  BY <2>1, <2>2
  <1>6. Abstract!Apply(c)
    <2>1. \A d \in Callers : Views[d] = View(d)  BY DEF Views
    <2>2. /\ Views[c].op \in {"put", "delete"} /\ UNCHANGED told
          /\ Store' = [Store EXCEPT ![Views[c].key] = Views[c].value]
      BY <1>2, <1>4, <2>1
    <2>3. \A d \in Callers : Views'[d] =
               IF Views[d] = [op |-> "none"] \/ Views[d].key # Views[c].key THEN Views[d]
               ELSE [op |-> Views[d].op, key |-> Views[c].key, value |-> Views[d].value,
                     applied |-> Views[d].applied \/ d = c, seen |-> Views[d].seen \cup {Views[c].value}]
      <3> TAKE d \in Callers
      <3>1. Views'[d] = View(d)'  BY DEF Views
      <3> QED  BY <1>2, <1>5, <2>1, <3>1
    <2>4. Views' = [d \in Callers |->
               IF Views[d] = [op |-> "none"] \/ Views[d].key # Views[c].key THEN Views[d]
               ELSE [op |-> Views[d].op, key |-> Views[c].key, value |-> Views[d].value,
                     applied |-> Views[d].applied \/ d = c, seen |-> Views[d].seen \cup {Views[c].value}]]
      BY <2>3 DEF Views
    <2> QED  BY <2>2, <2>4 DEF Abstract!Apply, Abstract!NoCall, Store, Views, View
  <1> QED  BY <1>6 DEF Abstract!Next

LEMMA BeginMaps ==
    ASSUME Inv, Inv', NEW c \in Callers, NEW op \in {"put", "get", "delete", "list"},
           NEW k \in Keys \cup ListPrefixes, NEW p \in Payloads \cup {Absent},
           NEW n \in Nat, op # "list" => k \in Keys, op = "put" => p \in Payloads,
           op # "put" => p = Absent, Begin(c, op, k, p, n)
    PROVE  [Abstract!Next]_Abstract!vars
  <1> DEFINE v == IF op = "put" THEN Full(p) ELSE Absent
  <1>1. /\ calls'[c].op = op /\ calls'[c].key = k /\ calls'[c].data = p /\ calls'[c].pc = "start"
        /\ calls'[c].tries = 0 /\ \A d \in Callers \ {c} : calls'[d] = calls[d] /\ seen'[d] = seen[d]
        /\ op # "list" => seen'[c].values = {Content(entry[k])}
    BY DEF Begin, Update, Inv, TypeOK
  <1>2. \A d \in Callers \ {c} : View(d)' = View(d)  BY <1>1 DEF View
  <1>3. View(c) = [op |-> "none"]  BY ViewOf DEF Begin, Busy
  <1>4. UNCHANGED <<told, inodes, entry>>  BY DEF Begin, disk
  <1>5. \A j \in Keys : Content(entry[j])' = Content(entry[j])  BY <1>4 DEF Content
  <1>6. CASE op = "list"
    <2>1. View(c)' = View(c)  BY <1>1, <1>3, <1>6 DEF View, Promised
    <2> QED  BY <1>2, <1>4, <1>5, <2>1, Stutters
  <1>7. CASE op # "list"
    <2>1. View(c)' = [op |-> op, key |-> k, value |-> v, applied |-> FALSE,
                      seen |-> {Content(entry[k])}]
      <3>1. (op # "get" /\ Applied(calls'[c])) = FALSE  BY <1>1 DEF Applied
      <3> QED  BY <1>1, <1>7, <3>1 DEF View, Promised
    <2>2. Store' = Store /\ Store[k] = Content(entry[k])  BY <1>5, <1>7 DEF Store
    <2>3. Views' = [Views EXCEPT ![c] = View(c)'] /\ Views[c] = [op |-> "none"]
      BY <1>2, <1>3 DEF Views
    <2>4. View(c)' = Abstract!Call(op, k, v)
      BY <2>1, <2>2 DEF Abstract!Call, Store
    <2>5. op = "put" => v \in {Full(q) : q \in Payloads}  OBVIOUS
    <2>6. View(c)' \in {Abstract!Call("get", k, Absent), Abstract!Call("delete", k, Absent)}
                         \cup {Abstract!Call("put", k, w) : w \in {Full(q) : q \in Payloads}}
      <3>1. CASE op = "put"  BY <2>4, <2>5, <3>1
      <3>2. CASE op # "put"  BY <1>7, <2>4, <3>2
      <3> QED  BY <3>1, <3>2
    <2> DEFINE New(j) == {Abstract!Call("get", j, Absent), Abstract!Call("delete", j, Absent)}
                           \cup {Abstract!Call("put", j, w) : w \in {Full(q) : q \in Payloads}}
    <2>7. \E new \in UNION {New(j) : j \in Keys} : Views' = [Views EXCEPT ![c] = new]
      <3>1. View(c)' \in UNION {New(j) : j \in Keys}
        <4> HIDE DEF v
        <4>1. View(c)' \in New(k) /\ k \in Keys  BY <1>7, <2>6
        <4> HIDE DEF New
        <4> QED  BY <4>1
      <3> QED  BY <2>3, <3>1
    <2>8. Views[c] = [op |-> "none"] /\ UNCHANGED <<Store, told>>  BY <1>4, <2>2, <2>3
    <2>9. Abstract!Begins(c)
      BY <2>7, <2>8 DEF Abstract!Begins, Abstract!NoCall, Store, Views, View
    <2> QED  BY <2>9 DEF Abstract!Next
  <1> QED  BY <1>6, <1>7

\* A call that goes on without its effect becoming visible.
LEMMA GoesOnMaps ==
    ASSUME Inv, Inv', NEW c \in Callers, NEW call, Update(c, call), Busy(c), UNCHANGED <<told, seen>>,
           \A k \in Keys : Content(entry[k])' = Content(entry[k]),
           call.op = calls[c].op, call.key = calls[c].key, call.data = calls[c].data,
           call.op \in {"get", "list"} \/ (Applied(call) <=> Applied(calls[c]))
    PROVE  [Abstract!Next]_Abstract!vars
  <1>1. calls'[c] = call /\ \A d \in Callers \ {c} : calls'[d] = calls[d]
    BY DEF Update, Inv, TypeOK
  <1>2. \A d \in Callers \ {c} : View(d)' = View(d)  BY <1>1 DEF View
  <1>3. View(c)' = View(c)
    <2>1. CASE call.op = "list"  BY <1>1, <2>1 DEF View, Promised
    <2>2. CASE call.op # "list"
      <3>1. (call.op # "get" /\ Applied(call)) = (call.op # "get" /\ Applied(calls[c]))
        BY <2>2
      <3> QED  BY <1>1, <3>1 DEF View, Promised
    <2> QED  BY <2>1, <2>2
  <1> QED  BY <1>2, <1>3, Stutters

LEMMA WriteMaps ==
    ASSUME Inv, Inv', NEW c \in Callers, MakeTemp(c) \/ WriteChunk(c)
    PROVE  [Abstract!Next]_Abstract!vars
  <1>1. CASE MakeTemp(c)
    <2> DEFINE call == [calls[c] EXCEPT !.pc = "write", !.fd = Len(inodes')]
    <2>1. calls[c] \in Call /\ Busy(c) /\ calls[c].pc = "start"
      BY <1>1, CallTyped DEF MakeTemp, AtLocal, At, Busy, Inv
    <2>2. /\ call.op = calls[c].op /\ call.key = calls[c].key /\ call.data = calls[c].data
          /\ call.tries = calls[c].tries /\ call.pc = "write"
      BY <2>1 DEF Call
    <2>3. Update(c, call) /\ UNCHANGED <<told, seen, entry>>  BY <1>1 DEF MakeTemp
    <2>4. \A j \in DOMAIN inodes : inodes'[j] = inodes[j]  BY <1>1 DEF MakeTemp, Inv, TypeOK
    <2>5. \A k \in Keys : Content(entry[k])' = Content(entry[k])
      BY <2>3, <2>4, EntryTyped DEF Content
    <2> HIDE DEF call
    <2> QED  BY <2>1, <2>2, <2>3, <2>5, GoesOnMaps DEF Applied
  <1>2. CASE WriteChunk(c)
    <2>1. WritesApart(c) /\ At(c, "put", "write")  BY <1>2 DEF WriteChunk, AtLocal, Inv, Sound
    <2>2. \A j \in DOMAIN inodes \ {calls[c].fd} : inodes'[j] = inodes[j]
      BY <1>2 DEF WriteChunk, Inv, TypeOK
    <2>3. \A k \in Keys : Content(entry[k])' = Content(entry[k])
      BY <1>2, <2>1, <2>2, EntryTyped DEF Content, WritesApart, WriteChunk
    <2>4. \A d \in Callers : View(d)' = View(d)  BY <1>2 DEF WriteChunk, View
    <2> QED  BY <1>2, <2>3, <2>4, Stutters DEF WriteChunk
  <1> QED  BY <1>1, <1>2

LEMMA ApplyMaps ==
    ASSUME Inv, Inv', NEW c \in Callers, Replace(c) \/ Unlink(c) \/ S3Apply(c)
    PROVE  Abstract!Next
  <1>1. /\ calls[c] \in Call /\ Busy(c) /\ Sound(c) /\ calls[c].op \in {"put", "delete"}
        /\ UNCHANGED told
    BY CallTyped DEF Replace, Unlink, S3Apply, AtLocal, AtS3, At, Busy, Inv
  <1>2. calls[c].key \in Keys /\ (calls[c].op = "put" => calls[c].data \in Payloads)
    BY <1>1 DEF Sound, Shaped, OnKey
  <1>3. CASE Replace(c) \/ Unlink(c)
    <2> DEFINE call == [calls[c] EXCEPT !.pc = "stat"]
               i == IF calls[c].op = "put" THEN calls[c].fd ELSE NoFile
               v == IF calls[c].op = "put" THEN Full(calls[c].data) ELSE Absent
    <2>1. /\ call \in Call /\ call.op = calls[c].op /\ call.key = calls[c].key
          /\ call.data = calls[c].data /\ call.pc = "stat"
      BY <1>1 DEF Call
    <2>2. Enter(calls[c].key, i, inodes') /\ Update(c, call) /\ inodes' = inodes
      BY <1>3 DEF Replace, Unlink, AtLocal, At, Enter
    <2>3. i \in Nat /\ v = IF i = NoFile THEN Absent ELSE inodes'[i]
      BY <1>1, <1>3, <2>2, WrittenIsFull
      DEF Replace, Unlink, AtLocal, At, Sound, WritesApart, Inv, TypeOK, NoFile
    <2> HIDE DEF call, i, v
    <2> QED  BY <1>1, <1>2, <2>1, <2>2, <2>3, Applies DEF Applied, v
  <1>4. CASE S3Apply(c)
    <2> DEFINE call == [calls[c] EXCEPT !.tries = @ + 1]
               i == IF calls[c].op = "put" THEN Len(inodes') ELSE NoFile
               v == IF calls[c].op = "put" THEN Full(calls[c].data) ELSE Absent
    <2>a. call.tries \in 0 .. MaxAttempts /\ call.tries > 0
      BY <1>1, <1>4 DEF Call, S3Apply, MaySend
    <2>1. /\ call \in Call /\ call.op = calls[c].op /\ call.key = calls[c].key
          /\ call.data = calls[c].data /\ call.tries > 0
      BY <1>1, <2>a DEF Call
    <2>2. Enter(calls[c].key, i, inodes') /\ Update(c, call)
      BY <1>1, <1>4 DEF S3Apply, Enter
    <2>3. \A j \in DOMAIN inodes : inodes'[j] = inodes[j]
      <3>1. CASE calls[c].op = "put"
        <4>1. /\ inodes' = Append(inodes, Full(calls[c].data)) /\ inodes \in Seq(Seq(Payloads))
              /\ Full(calls[c].data) \in Seq(Payloads)
          BY <1>4, <1>2, <3>1, FullTyped DEF S3Apply, Inv, TypeOK
        <4> QED  BY <4>1
      <3>2. CASE calls[c].op # "put"  BY <1>4, <3>2 DEF S3Apply
      <3> QED  BY <3>1, <3>2
    <2>4. i \in Nat /\ v = IF i = NoFile THEN Absent ELSE inodes'[i]
      <3>1. CASE calls[c].op = "put"
        BY <1>2, <1>4, <3>1, FullTyped DEF S3Apply, Inv, TypeOK, NoFile
      <3>2. CASE calls[c].op # "put"  BY <3>2 DEF NoFile
      <3> QED  BY <3>1, <3>2
    <2> HIDE DEF call, i, v
    <2> QED  BY <1>1, <1>2, <2>1, <2>2, <2>3, <2>4, Applies DEF Applied, v
  <1> QED  BY <1>3, <1>4

LEMMA AnswerMaps ==
    ASSUME Inv, Inv', NEW c \in Callers,
           WriteFails(c) \/ S3Answers(c) \/ S3Get(c) \/ Returns(c) \/ Dies(c)
    PROVE  [Abstract!Next]_Abstract!vars
  <1>1. Busy(c) /\ calls[c] \in Call /\ Sound(c) /\ UNCHANGED <<inodes, entry>>
    BY CallTyped
    DEF WriteFails, S3Answers, S3Get, Returns, ListEnds, Dies, AtLocal, AtS3, At, Busy, disk, Inv
  <1>2. OnKey(calls[c]) => calls[c].key \in Keys /\ (calls[c].op = "put" => calls[c].data \in Payloads)
    BY <1>1 DEF Sound, Shaped, OnKey
  <1>3. CASE WriteFails(c) \/ Dies(c)
    BY <1>1, <1>3, Answers DEF WriteFails, Dies
  <1>4. CASE S3Answers(c)
    <2> DEFINE v == IF calls[c].op = "put" THEN Full(calls[c].data) ELSE Absent
    <2>1. Answer(c, v) /\ Applied(calls[c]) /\ OnKey(calls[c]) /\ calls[c].op \in {"put", "delete"}
      BY <1>4 DEF S3Answers, Applied, OnKey
    <2>2. v \in seen[c].values
      BY <1>1, <1>4, <2>1 DEF S3Answers, Sound, KnowsKey
    <2>3. v \in {Full(p) : p \in Payloads} \cup {Absent}  BY <1>2, <2>1
    <2> HIDE DEF v
    <2> QED  BY <1>1, <2>1, <2>2, <2>3, Answers
  <1>5. CASE S3Get(c)
    <2> DEFINE v == Content(entry[calls[c].key])
    <2>1. Answer(c, v) /\ OnKey(calls[c]) /\ calls[c].op = "get"
      BY <1>5 DEF S3Get, AtS3, At, OnKey
    <2>2. v \in seen[c].values  BY <1>1, <2>1 DEF Sound, KnowsKey
    <2>3. v \in {Full(p) : p \in Payloads} \cup {Absent}
      BY <1>2, <2>1 DEF Content, Inv, EntriesWhole, Present
    <2> HIDE DEF v
    <2> QED  BY <1>1, <2>1, <2>2, <2>3, Answers
  <1>6. CASE Returns(c)
    <2>1. CASE calls[c].op = "list"
      BY <1>1, <1>6, <2>1, Answers DEF Returns, OnKey
    <2>2. CASE calls[c].op # "list"
      <3>1. Answer(c, Absent) /\ calls[c].op = "delete" /\ calls[c].pc = "stat"
        BY <1>6, <2>2 DEF Returns, ListEnds, AtLocal, At
      <3>2. Absent \in seen[c].values /\ Applied(calls[c])
        BY <1>1, <3>1 DEF Sound, KnowsKey, OnKey, Applied
      <3> QED  BY <1>1, <3>1, <3>2, Answers
    <2> QED  BY <2>1, <2>2
  <1> QED  BY <1>3, <1>4, <1>5, <1>6

LEMMA ReadMaps ==
    ASSUME Inv, Inv', NEW c \in Callers, StatPath(c) \/ OpenFile(c) \/ ReadChunk(c)
    PROVE  [Abstract!Next]_Abstract!vars
  <1>1. Busy(c) /\ calls[c] \in Call /\ Sound(c) /\ UNCHANGED <<inodes, entry>>
    BY CallTyped DEF StatPath, OpenFile, ReadChunk, AtLocal, At, Busy, disk, Inv
  <1>2. \A k \in Keys : Content(entry[k])' = Content(entry[k])  BY <1>1 DEF Content
  <1>3. CASE StatPath(c)
    <2> DEFINE call == [calls[c] EXCEPT !.pc = "etag"]
    <2>1. CASE Answer(c, Failed)  BY <1>1, <2>1, Answers
    <2>2. CASE Update(c, call) /\ UNCHANGED <<told, seen>>
      <3>1. /\ call.op = calls[c].op /\ call.key = calls[c].key /\ call.data = calls[c].data
            /\ call.pc = "etag" /\ calls[c].pc = "stat"
        BY <1>1, <1>3 DEF Call, StatPath, AtLocal, At
      <3> HIDE DEF call
      <3> QED  BY <1>1, <1>2, <2>2, <3>1, GoesOnMaps DEF Applied
    <2> QED  BY <1>3, <2>1, <2>2 DEF StatPath
  <1>4. CASE OpenFile(c)
    <2> DEFINE i == entry[calls[c].key]
               call == [calls[c] EXCEPT !.pc = "read", !.fd = i]
    <2>1. calls[c].op \in {"put", "get"} /\ (calls[c].op = "put" => calls[c].pc = "etag")
      BY <1>4 DEF OpenFile, AtLocal, At
    <2>2. CASE i = NoFile /\ calls[c].op = "get"
      <3>1. Answer(c, Absent)  BY <1>4, <2>2 DEF OpenFile
      <3>2. Absent \in seen[c].values
        BY <1>1, <2>2 DEF Sound, KnowsKey, OnKey, Content
      <3> QED  BY <1>1, <2>2, <3>1, <3>2, Answers
    <2>3. CASE i = NoFile /\ calls[c].op # "get"
      BY <1>1, <1>4, <2>3, Answers DEF OpenFile
    <2>4. CASE i # NoFile
      <3>1. /\ call.op = calls[c].op /\ call.key = calls[c].key /\ call.data = calls[c].data
            /\ call.pc = "read"
        <4> HIDE DEF i
        <4> QED  BY <1>1 DEF Call
      <3>2. Update(c, call) /\ UNCHANGED <<told, seen>>  BY <1>4, <2>4 DEF OpenFile
      <3> HIDE DEF call
      <3> QED  BY <1>1, <1>2, <2>1, <3>1, <3>2, GoesOnMaps DEF Applied
    <2> QED  BY <2>2, <2>3, <2>4
  <1>5. CASE ReadChunk(c)
    <2> DEFINE file == inodes[calls[c].fd]
               next == Len(calls[c].got) + 1
               call == [calls[c] EXCEPT !.got = Append(@, file[next])]
    <2>1. /\ calls[c].pc = "read" /\ OnKey(calls[c]) /\ calls[c].op \in {"put", "get"}
          /\ file \in seen[c].values /\ calls[c].got \in Seq(Payloads)
          /\ \A n \in DOMAIN calls[c].got : calls[c].got[n] = file[n]
          /\ Len(calls[c].got) <= Chunks
      BY <1>1, <1>5 DEF ReadChunk, Sound, ReadsWhole, Shaped, OnKey, Call
    <2>2. PICK p \in Payloads : file = Full(p)  BY <1>1, <2>1 DEF Sound, ReadsWhole
    <2>3. file \in Seq(Payloads) /\ Len(file) = Chunks  BY <2>2, FullTyped
    <2> HIDE DEF file
    <2>4. CASE next \in DOMAIN file
      <3>1. /\ call.op = calls[c].op /\ call.key = calls[c].key /\ call.data = calls[c].data
            /\ call.pc = "read"
        BY <1>1, <2>1 DEF Call
      <3>2. Update(c, call) /\ UNCHANGED <<told, seen>>
        BY <1>5, <2>4 DEF ReadChunk, ReadFrom, file
      <3> HIDE DEF call
      <3> QED  BY <1>1, <1>2, <2>1, <3>1, <3>2, GoesOnMaps DEF Applied
    <2>5. CASE next \notin DOMAIN file
      <3>1. Answer(c, calls[c].got)  BY <1>5, <2>5 DEF ReadChunk, ReadFrom, file
      <3>2. Len(calls[c].got) = Chunks  BY <2>1, <2>3, <2>5
      <3>3. calls[c].got = file  BY <2>1, <2>3, <3>2
      <3>4. Applied(calls[c])  BY <2>1 DEF Applied
      <3> QED  BY <1>1, <2>1, <2>2, <3>1, <3>3, <3>4, Answers
    <2> QED  BY <2>4, <2>5
  <1> QED  BY <1>3, <1>4, <1>5

LEMMA ListMaps ==
    ASSUME Inv, Inv', NEW c \in Callers, ListStep(c)
    PROVE  [Abstract!Next]_Abstract!vars
  <1>1. /\ UNCHANGED <<inodes, entry>> /\ calls[c] \in Call /\ calls[c].op = "list" /\ Busy(c)
    BY ListSteps
  <1>2. \A k \in Keys : Content(entry[k])' = Content(entry[k])  BY <1>1 DEF Content
  <1>3. CASE Answer(c, Failed)  BY <1>1, <1>3, Answers DEF OnKey
  <1>4. ASSUME NEW pc \in {"walk", "each"}, NEW todo \in SUBSET Keys, NEW found \in SUBSET Keys,
               NEW listed \in SUBSET Keys, NEW more \in BOOLEAN,
               Goes(c, pc, todo, found, listed, more)
        PROVE  [Abstract!Next]_Abstract!vars
    <2> DEFINE call == On(calls[c], pc, todo, found, listed, more)
    <2>1. call.op = calls[c].op /\ call.key = calls[c].key /\ call.data = calls[c].data
      BY <1>1, OnTyped
    <2>2. Update(c, call) /\ UNCHANGED <<told, seen>>  BY <1>4 DEF Goes
    <2> HIDE DEF call
    <2> QED  BY <1>1, <1>2, <2>1, <2>2, GoesOnMaps
  <1> QED  BY <1>3, <1>4, ListSteps DEF GoesSomehow

\* Both backends keep AtomicStore, whatever interleaves, dies or is repeated.
THEOREM StoreIsAtomic == Spec => KeepsAtomicStore
  <1>1. Init => Abstract!Init
    <2> SUFFICES ASSUME Init PROVE Abstract!Init
      OBVIOUS
    <2>1. \A k \in Keys : Content(entry[k]) = Absent  BY DEF Init, Content
    <2>2. \A c \in Callers : Promised(calls[c], seen[c].values) = [op |-> "none"]
      BY DEF Init, Promised, Idle
    <2> QED  BY <2>1, <2>2 DEF Init, Abstract!Init, Abstract!NoCall
  <1>2. Inv /\ Inv' /\ [Next]_vars => [Abstract!Next]_Abstract!vars
    <2> SUFFICES ASSUME Inv, Inv', [Next]_vars PROVE [Abstract!Next]_Abstract!vars
      OBVIOUS
    <2>1. CASE UNCHANGED vars
      <3>1. \A k \in Keys : Content(entry[k])' = Content(entry[k])  BY <2>1 DEF vars, disk, Content
      <3>2. \A c \in Callers : View(c)' = View(c)  BY <2>1 DEF vars, View
      <3> QED  BY <2>1, <3>1, <3>2, Stutters DEF vars
    <2>2. CASE Next
      <3>1. PICK c \in Callers :
             \/ \E k \in Keys : \/ \E p \in Payloads : Begin(c, "put", k, p, 0)
                                \/ Begin(c, "get", k, Absent, 0)
                                \/ Begin(c, "delete", k, Absent, 0)
             \/ \E k \in ListPrefixes, n \in Limits : Begin(c, "list", k, Absent, n)
             \/ MakeTemp(c) \/ WriteChunk(c) \/ Replace(c) \/ WriteFails(c) \/ StatPath(c)
             \/ OpenFile(c) \/ ReadChunk(c) \/ Unlink(c) \/ ListStep(c)
             \/ S3Apply(c) \/ S3Answers(c) \/ S3Get(c)
             \/ Returns(c) \/ Dies(c)
        BY <2>2 DEF Next, ListStep
      <3>2. CASE \/ \E k \in Keys : \/ \E p \in Payloads : Begin(c, "put", k, p, 0)
                                   \/ Begin(c, "get", k, Absent, 0)
                                   \/ Begin(c, "delete", k, Absent, 0)
                 \/ \E k \in ListPrefixes, n \in Limits : Begin(c, "list", k, Absent, n)
        BY <3>2, ListAssumption, BeginMaps
      <3>3. CASE MakeTemp(c) \/ WriteChunk(c)  BY <3>3, WriteMaps
      <3>4. CASE Replace(c) \/ Unlink(c) \/ S3Apply(c)  BY <3>4, ApplyMaps
      <3>5. CASE WriteFails(c) \/ S3Answers(c) \/ S3Get(c) \/ Returns(c) \/ Dies(c)
        BY <3>5, AnswerMaps
      <3>6. CASE StatPath(c) \/ OpenFile(c) \/ ReadChunk(c)  BY <3>6, ReadMaps
      <3>7. CASE ListStep(c)  BY <3>7, ListMaps
      <3> QED  BY <3>1, <3>2, <3>3, <3>4, <3>5, <3>6, <3>7
    <2> QED  BY <2>1, <2>2
  <1> QED  BY <1>1, <1>2, InvHolds, PTL DEF Spec, KeepsAtomicStore, Abstract!Spec
=============================================================================
