----------------------------- MODULE PayloadStore -----------------------------
(***************************************************************************)
(* PayloadManager: the file of payloads that could not be sent.            *)
(*                                                                         *)
(* storeData appends a record to the file: a packed header (compression    *)
(* flag and size) and the compressed payload.  retrieveData reads the file *)
(* and parses it back, record after record, trusting every header.  The    *)
(* file survives a crash, and CacheAndPersist, which is not part of this   *)
(* code, may leave the front of a record behind when a write fails or the  *)
(* process dies in it.                                                     *)
(*                                                                         *)
(* A byte of the file is a cell <<r, k>>, byte k of the image of record r. *)
(* Where a header is put together from cells that are not the header of    *)
(* one record, its flag and its size may be anything.                      *)
(***************************************************************************)
EXTENDS Integers, Sequences

CONSTANTS
  Records,      \* the payloads that may be stored
  PayloadSize,  \* the size of a payload once compressed
  Compressed,   \* payloads whose collection scheme asks for compression
  HeaderSize,   \* sizeof(PayloadHeader)
  MaxGarbage,   \* bound: the size found in bytes that are no header
  TornWrites    \* may a failed or interrupted write leave a part behind

ASSUME PayloadStoreAssumption ==
  /\ PayloadSize \in [Records -> Nat \ {0}]
  /\ Compressed \subseteq Records
  /\ HeaderSize \in Nat \ {0}
  /\ MaxGarbage \in Nat
  /\ TornWrites \in BOOLEAN

VARIABLES
  file,       \* what CacheAndPersist holds for EDGE_TO_CLOUD_PAYLOAD
  history,    \* every write that left something: its record, if it is whole, its end
  reader,     \* where retrieveData is
  readSize,   \* the size retrieveData asked for
  readBuffer, \* what it read
  pos,        \* its place in readBuffer
  data,       \* the payloads it parsed
  status,     \* what it returned
  overread    \* did it copy a header that ends behind readBuffer

readerVars == <<reader, readSize, readBuffer, pos, data, status, overread>>
vars == <<file, history, readerVars>>

ErrorCodes == {"none", "SUCCESS", "EMPTY", "FILESYSTEM_ERROR", "INVALID_DATA"}

ImageSize(r) == HeaderSize + PayloadSize[r]

\* What preparePayload lays out in the write buffer.
Image(r) == [k \in 1..ImageSize(r) |-> <<r, k>>]

Cells == UNION {{r} \X (1..ImageSize(r)) : r \in Records}
Writes == [record : Records, whole : BOOLEAN, end : Nat]
Garbage == "garbage"

TypeOK ==
  /\ file \in Seq(Cells)
  /\ history \in Seq(Writes)
  /\ reader \in {"idle", "sized", "parsing", "done"}
  /\ readSize \in Nat /\ pos \in Nat
  /\ readBuffer \in Seq(Cells)
  /\ data \in Seq(Records \cup {Garbage})
  /\ status \in ErrorCodes
  /\ overread \in BOOLEAN

Init ==
  /\ file = <<>> /\ history = <<>>
  /\ reader = "idle" /\ readSize = 0 /\ readBuffer = <<>> /\ pos = 0
  /\ data = <<>> /\ status = "none" /\ overread = FALSE

-------------------------------------------------------------------------------
(***************************************************************************)
(* storeData.  A payload that snappy cannot compress, and a write that     *)
(* fails cleanly, leave the file as it is: nothing happens.                *)
(***************************************************************************)

NotYetStored(r) == \A i \in DOMAIN history : history[i].record # r

\* The first n bytes of the image of record r come to the end of the file.
Write(r, n) ==
  /\ NotYetStored(r)
  /\ file' = file \o SubSeq(Image(r), 1, n)
  /\ history' = Append(history, [record |-> r, whole |-> n = ImageSize(r),
                                end |-> Len(file) + n])
  /\ UNCHANGED readerVars

StoreData(r) == Write(r, ImageSize(r))

\* The disk is full or the process dies in the write; the caller hears of a
\* failure, if it still lives.
StoreDataTorn(r) == TornWrites /\ \E n \in 1..(ImageSize(r) - 1) : Write(r, n)

-------------------------------------------------------------------------------
(***************************************************************************)
(* retrieveData.                                                           *)
(***************************************************************************)

\* Mutant: the size asked for leaves out the first header.
SizeAskedLessHeader == Len(file) - HeaderSize

SizeAsked == Len(file)

\* getSize; nobody locks the file until it is read.
GetSize ==
  /\ reader \in {"idle", "done"}
  /\ data' = <<>> /\ pos' = 0 /\ overread' = FALSE
  /\ readSize' = SizeAsked
  /\ IF Len(file) = 0
     THEN reader' = "done" /\ status' = "EMPTY"
     ELSE reader' = "sized" /\ status' = "none"
  /\ UNCHANGED <<file, history, readBuffer>>

Read ==
  /\ reader = "sized"
  /\ \/ /\ readBuffer' = SubSeq(file, 1, readSize)
        /\ reader' = "parsing" /\ UNCHANGED status
     \/ /\ reader' = "done" /\ status' = "FILESYSTEM_ERROR"
        /\ UNCHANGED readBuffer
  /\ UNCHANGED <<file, history, readSize, pos, data, overread>>

\* The header at the place of the reader is the header of record r.
HeaderOf(r) ==
  /\ pos + HeaderSize <= readSize
  /\ \A k \in 1..HeaderSize : readBuffer[pos + k] = <<r, k>>

\* Mutant: the size in the header counts the header too.
SizeFieldWithHeader(r) == ImageSize(r)

\* PayloadHeader.size as preparePayload writes it.
SizeField(r) == PayloadSize[r]

\* What the memcpy of the header may yield.
Headers ==
  LET true == {r \in Records : HeaderOf(r)} IN
  IF true # {}
  THEN {[compressionRequired |-> r \in Compressed, size |-> SizeField(r)] : r \in true}
  ELSE [compressionRequired : BOOLEAN, size : 0..MaxGarbage]

\* The bytes that follow the header, as many as it says, as many as there are.
DataString(header) ==
  SubSeq(readBuffer, pos + HeaderSize + 1,
         IF pos + HeaderSize + header.size < readSize
         THEN pos + HeaderSize + header.size ELSE readSize)

\* Mutant: the place is moved by the header only.
NextPosHeaderOnly(header) == pos + HeaderSize

\* Mutant: the place is moved by the size that the header says.
NextPosTrusting(header) == pos + HeaderSize + header.size

NextPos(header) == pos + HeaderSize + Len(DataString(header))

StoredForm(r) == [k \in 1..PayloadSize[r] |-> <<r, HeaderSize + k>>]

\* Snappy undoes what it did; of any other bytes it may refuse to make sense.
Uncompresses(s) ==
  IF \E r \in Records \ Compressed : s = StoredForm(r) THEN {TRUE} ELSE BOOLEAN

\* The payload the caller gets: r if the bytes are those of r and the flag is
\* the one they were stored with.
Payload(header, s) ==
  IF \E r \in Records : s = StoredForm(r) /\ header.compressionRequired = (r \in Compressed)
  THEN CHOOSE r \in Records : s = StoredForm(r)
  ELSE Garbage

\* Mutant: after a record that does not uncompress the file is read again.
AfterBadRecordRead == "sized"

AfterBadRecord == "done"

\* One turn of the loop.  A record that does not uncompress ends it, with the
\* payloads before it in data and those behind it never looked at.
ParseRecord ==
  /\ reader = "parsing" /\ pos < readSize
  /\ overread' = (overread \/ pos + HeaderSize > readSize)
  /\ \E header \in Headers :
       LET s == DataString(header) IN
       \/ /\ ~header.compressionRequired /\ FALSE \in Uncompresses(s)
          /\ reader' = AfterBadRecord /\ status' = "INVALID_DATA"
          /\ UNCHANGED <<pos, data>>
       \/ /\ header.compressionRequired \/ TRUE \in Uncompresses(s)
          /\ data' = Append(data, Payload(header, s))
          /\ pos' = NextPos(header)
          /\ UNCHANGED <<reader, status>>
  /\ UNCHANGED <<file, history, readSize, readBuffer>>

EndOfBuffer ==
  /\ reader = "parsing" /\ pos >= readSize
  /\ reader' = "done" /\ status' = "SUCCESS"
  /\ UNCHANGED <<file, history, readSize, readBuffer, pos, data, overread>>

-------------------------------------------------------------------------------
Next ==
  \/ \E r \in Records : StoreData(r) \/ StoreDataTorn(r)
  \/ GetSize
  \/ Read
  \/ ParseRecord
  \/ EndOfBuffer

Spec == Init /\ [][Next]_vars

\* retrieveData is one call without a wait: once it has begun it goes on.
FairSpec == Spec /\ WF_vars(Read \/ ParseRecord \/ EndOfBuffer)

-------------------------------------------------------------------------------
(***************************************************************************)
(* Properties.                                                             *)
(***************************************************************************)

\* The writes before the first torn one, and where in the file a write ends.
IntactFront == {i \in DOMAIN history : \A k \in 1..i : history[k].whole}
EndOf(i) == IF i = 0 THEN 0 ELSE history[i].end
Torn == \E i \in DOMAIN history : ~history[i].whole

FrontRetrieved ==
  \A i \in IntactFront :
    EndOf(i) <= readSize => i <= Len(data) /\ data[i] = history[i].record

\* Whatever the end of the file looks like, retrieveData hands out every
\* payload that was stored before the first torn write and before it asked for
\* the size, in order (PayloadManager.cpp:158-200), also when it then returns
\* INVALID_DATA, and also when payloads are stored while it runs.
RetrievesIntactFront ==
  reader = "done" /\ status \in {"SUCCESS", "INVALID_DATA"} => FrontRetrieved

\* As long as no write was torn the reader parses true headers only: it never
\* copies a header from behind its buffer, fails on no payload and invents
\* none.
ExactWithoutTears ==
  ~Torn =>
    /\ ~overread /\ status # "INVALID_DATA"
    /\ \A i \in DOMAIN data : data[i] = history[i].record

\* Whatever the headers say, the place of the reader is less than a header behind
\* its buffer, so that no more is copied from there, and every payload it handed
\* out has moved it by a header at least: there are no more of them than headers
\* fit (PayloadManager.cpp:158-199).
ParseBound == pos < readSize + HeaderSize /\ Len(data) * HeaderSize <= pos

\* retrieveData ends, whatever the headers say: each turn of its loop moves
\* behind at least a header.
RetrieveEnds == reader = "sized" ~> reader = "done"

-------------------------------------------------------------------------------
(***************************************************************************)
(* Why the safety properties hold.                                         *)
(***************************************************************************)

\* The file is the writes one behind the other, and the whole ones are images.
FileInv ==
  /\ Len(file) = EndOf(Len(history))
  /\ \A i, j \in 0..Len(history) : i < j => EndOf(i) < EndOf(j)
  /\ \A i \in DOMAIN history : history[i].whole =>
       LET r == history[i].record IN
       /\ EndOf(i) = EndOf(i - 1) + ImageSize(r)
       /\ \A k \in 1..ImageSize(r) : file[EndOf(i - 1) + k] = <<r, k>>

\* The buffer is the front of the file, up to the end of a write.
BufferInv ==
  /\ \E m \in 0..Len(history) : readSize = EndOf(m)
  /\ reader = "sized" => pos = 0 /\ data = <<>>
  /\ reader = "parsing" =>
       Len(readBuffer) = readSize /\ \A k \in 1..readSize : readBuffer[k] = file[k]

\* The reader is at the end of a write, and all before it is whole and parsed.
Aligned ==
  /\ Len(data) \in 0..Len(history)
  /\ pos = EndOf(Len(data)) /\ pos <= readSize
  /\ \A i \in 1..Len(data) : history[i].whole /\ data[i] = history[i].record

\* The reader is aligned until it meets the torn write, and is through with the
\* front by then.
ParseInv ==
  /\ reader \in {"sized", "parsing"} => Aligned \/ FrontRetrieved
  /\ ~Torn => Aligned
  /\ RetrievesIntactFront /\ ExactWithoutTears
===============================================================================
