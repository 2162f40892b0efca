--------------------------- MODULE PayloadStoreProofs --------------------------
(***************************************************************************)
(* What retrieveData gives back of a file that failed writes have torn,    *)
(* for any payloads of any sizes.                                          *)
(*                                                                         *)
(* The ends of the writes divide the file.  The reader stands at such an   *)
(* end, with all writes before it parsed, until it comes to a torn one;    *)
(* what it does from there on cannot change what it has.                   *)
(***************************************************************************)
EXTENDS PayloadStore, SequenceTheorems, TLAPS

-------------------------------------------------------------------------------
(***************************************************************************)
(* Images, writes and their ends.                                          *)
(***************************************************************************)

\* The image of a record is its cells, one after the other.
LEMMA ImageCells ==
  ASSUME NEW r \in Records
  PROVE  /\ HeaderSize \in Nat /\ HeaderSize >= 1
         /\ PayloadSize[r] \in Nat /\ PayloadSize[r] >= 1
         /\ ImageSize(r) \in Nat /\ ImageSize(r) = HeaderSize + PayloadSize[r]
         /\ \A k \in 1..ImageSize(r) : Image(r)[k] = <<r, k>> /\ <<r, k>> \in Cells
  BY PayloadStoreAssumption DEF ImageSize, Image, Cells

\* What a write does to the file.
LEMMA WriteFile ==
  ASSUME TypeOK, NEW r \in Records, NEW n \in 1..ImageSize(r), Write(r, n)
  PROVE  /\ file' \in Seq(Cells) /\ Len(file') = Len(file) + n
         /\ \A k \in 1..Len(file) : file'[k] = file[k]
         /\ \A k \in 1..n : file'[Len(file) + k] = <<r, k>>
<1> DEFINE front == SubSeq(Image(r), 1, n)
<1>1. ASSUME NEW k \in 1..n
      PROVE  Image(r)[k] = <<r, k>> /\ <<r, k>> \in Cells
  <2>1. k \in 1..ImageSize(r)
    BY ImageCells
  <2> QED
    BY <2>1, ImageCells
<1>2. /\ front \in Seq(Cells) /\ Len(front) = n
      /\ \A k \in 1..n : front[k] = <<r, k>>
  <2>1. n \in Nat /\ n >= 1
    BY ImageCells
  <2> HIDE DEF front
  <2>2. /\ front \in Seq(Cells)
        /\ Len(front) = IF 1 <= n THEN n - 1 + 1 ELSE 0
        /\ \A k \in 1..(n - 1 + 1) : front[k] = Image(r)[1 + k - 1]
    <3>1. \A k \in 1..n : Image(r)[k] \in Cells
      BY <1>1
    <3> QED
      BY <2>1, <3>1, SubSeqProperties DEF front
  <2>3. n - 1 + 1 = n /\ \A k \in 1..n : 1 + k - 1 = k
    BY <2>1
  <2> QED
    BY <1>1, <2>1, <2>2, <2>3
<1>3. file' = file \o front /\ file \in Seq(Cells)
  BY DEF Write, TypeOK
<1> HIDE DEF front
<1>4. /\ file \o front \in Seq(Cells)
      /\ Len(file \o front) = Len(file) + Len(front)
      /\ \A i \in 1..(Len(file) + Len(front)) :
           (file \o front)[i] = IF i <= Len(file) THEN file[i] ELSE front[i - Len(file)]
  BY <1>2, <1>3, ConcatProperties
<1>5. Len(file) \in Nat
  BY <1>3, LenProperties
<1>6. ASSUME NEW k \in 1..n
      PROVE  (file \o front)[Len(file) + k] = <<r, k>>
  BY <1>2, <1>4, <1>5
<1> QED
  BY <1>2, <1>3, <1>4, <1>5, <1>6

\* What a write does to the history of the writes.
LEMMA WriteHistory ==
  ASSUME TypeOK, NEW r \in Records, NEW n \in 1..ImageSize(r), Write(r, n)
  PROVE  /\ history' \in Seq(Writes) /\ Len(history') = Len(history) + 1
         /\ Len(history) \in Nat
         /\ \A i \in 1..Len(history) : history'[i] = history[i]
         /\ history'[Len(history) + 1].record = r
         /\ history'[Len(history) + 1].whole <=> n = ImageSize(r)
         /\ history'[Len(history) + 1].end = Len(file) + n
<1> DEFINE w == [record |-> r, whole |-> n = ImageSize(r), end |-> Len(file) + n]
<1>1. w \in Writes
  BY ImageCells, LenProperties DEF Writes, TypeOK
<1>2. history' = Append(history, w) /\ history \in Seq(Writes)
  BY DEF Write, TypeOK
<1> HIDE DEF w
<1>3. /\ Append(history, w) \in Seq(Writes)
      /\ Len(Append(history, w)) = Len(history) + 1
      /\ \A i \in 1..Len(history) : Append(history, w)[i] = history[i]
      /\ Append(history, w)[Len(history) + 1] = w
  BY <1>1, <1>2, AppendProperties
<1>4. w.record = r /\ (w.whole <=> n = ImageSize(r)) /\ w.end = Len(file) + n
  BY DEF w
<1> QED
  BY <1>2, <1>3, <1>4, LenProperties

\* What the history says of a write.
LEMMA Recorded ==
  ASSUME TypeOK, NEW i \in 1..Len(history)
  PROVE  history[i].record \in Records /\ history[i].whole \in BOOLEAN /\ history[i].end \in Nat
<1>1. history[i] \in Writes
  BY ElementOfSeq DEF TypeOK
<1> QED
  BY <1>1 DEF Writes

\* The ends of the writes are numbers.
LEMMA EndType ==
  ASSUME TypeOK, NEW i \in 0..Len(history)
  PROVE  EndOf(i) \in Nat
<1>1. CASE i = 0
  BY <1>1 DEF EndOf
<1>2. CASE i # 0
  <2>1. Len(history) \in Nat /\ i \in 1..Len(history)
    BY <1>2, LenProperties DEF TypeOK
  <2> QED
    BY <1>2, <2>1, Recorded DEF EndOf
<1> QED
  BY <1>1, <1>2

\* A write adds an end and moves none.
LEMMA WriteEnds ==
  ASSUME TypeOK, NEW r \in Records, NEW n \in 1..ImageSize(r), Write(r, n)
  PROVE  /\ \A i \in 0..Len(history) : EndOf(i)' = EndOf(i)
         /\ EndOf(Len(history))' = Len(file) + n
<1>1. Len(history) \in Nat
  BY LenProperties DEF TypeOK
<1>2. ASSUME NEW i \in 0..Len(history)
      PROVE  EndOf(i)' = EndOf(i)
  <2>1. CASE i = 0
    BY <2>1 DEF EndOf
  <2>2. CASE i # 0
    <3>1. i \in 1..Len(history)
      BY <1>1, <2>2
    <3>2. history'[i] = history[i]
      BY <3>1, WriteHistory
    <3> QED
      BY <2>2, <3>2 DEF EndOf
  <2> QED
    BY <2>1, <2>2
<1>3. EndOf(Len(history))' = Len(file) + n
  <2>1. history'[Len(history')].end = Len(file) + n /\ Len(history') = Len(history) + 1
    BY WriteHistory
  <2> QED
    BY <1>1, <2>1 DEF EndOf
<1> QED
  BY <1>2, <1>3

\* A write of storeData, torn or not.
LEMMA StoreIsWrite ==
  ASSUME NEW r \in Records, StoreData(r) \/ StoreDataTorn(r)
  PROVE  \E n \in 1..ImageSize(r) : Write(r, n)
  BY ImageCells DEF StoreData, StoreDataTorn

-------------------------------------------------------------------------------
(***************************************************************************)
(* Types.                                                                  *)
(***************************************************************************)

\* The empty file and an idle reader.
LEMMA StoreTypeInit == Init => TypeOK
<1>1. /\ <<>> \in Seq(Cells) /\ <<>> \in Seq(Writes)
      /\ <<>> \in Seq(Records \cup {Garbage})
  BY EmptySeq
<1> SUFFICES ASSUME Init PROVE TypeOK
  OBVIOUS
<1>2. /\ file \in Seq(Cells) /\ history \in Seq(Writes) /\ readBuffer \in Seq(Cells)
      /\ data \in Seq(Records \cup {Garbage})
  BY <1>1 DEF Init
<1>3. /\ reader \in {"idle", "sized", "parsing", "done"} /\ status \in ErrorCodes
      /\ readSize \in Nat /\ pos \in Nat /\ overread \in BOOLEAN
  BY DEF Init, ErrorCodes
<1> QED
  BY <1>2, <1>3 DEF TypeOK

\* The reader gets payloads or garbage, and its place is a number.
LEMMA ParseTypes ==
  ASSUME TypeOK, NEW header \in Headers
  PROVE  /\ header.compressionRequired \in BOOLEAN /\ header.size \in Nat
         /\ NextPos(header) \in Nat
         /\ Payload(header, DataString(header)) \in Records \cup {Garbage}
<1>1. header \in [compressionRequired : BOOLEAN, size : Nat]
  <2>1. CASE \E r \in Records : HeaderOf(r)
    <3>1. PICK r \in Records :
            header = [compressionRequired |-> r \in Compressed, size |-> SizeField(r)]
      BY <2>1 DEF Headers
    <3>2. SizeField(r) \in Nat /\ (r \in Compressed) \in BOOLEAN
      BY PayloadStoreAssumption DEF SizeField
    <3> QED
      BY <3>1, <3>2
  <2>2. CASE ~\E r \in Records : HeaderOf(r)
    <3>1. header \in [compressionRequired : BOOLEAN, size : 0..MaxGarbage]
      BY <2>2 DEF Headers
    <3>2. 0..MaxGarbage \subseteq Nat
      BY PayloadStoreAssumption
    <3> QED
      BY <3>1, <3>2
  <2> QED
    BY <2>1, <2>2
<1>2. Len(DataString(header)) \in Nat
  <2> DEFINE last == IF pos + HeaderSize + header.size < readSize
                     THEN pos + HeaderSize + header.size ELSE readSize
  <2>1. last \in Int /\ pos + HeaderSize + 1 \in Int
    BY <1>1, PayloadStoreAssumption DEF TypeOK
  <2>2. DataString(header) = SubSeq(readBuffer, pos + HeaderSize + 1, last)
    BY DEF DataString
  <2> HIDE DEF last
  <2>3. Len(SubSeq(readBuffer, pos + HeaderSize + 1, last)) \in Nat
    BY <2>1
  <2> QED
    BY <2>2, <2>3
<1>3. NextPos(header) \in Nat
  BY <1>2, PayloadStoreAssumption DEF NextPos, TypeOK
<1>4. Payload(header, DataString(header)) \in Records \cup {Garbage}
  BY DEF Payload
<1> QED
  BY <1>1, <1>3, <1>4

\* The bytes that follow a header end where the buffer does.
LEMMA DataStringFits ==
  ASSUME TypeOK, NEW header \in Headers, pos < readSize
  PROVE  /\ NextPos(header) < readSize + HeaderSize
         /\ pos + HeaderSize <= NextPos(header)
<1> DEFINE first == pos + HeaderSize + 1
           last == IF pos + HeaderSize + header.size < readSize
                   THEN pos + HeaderSize + header.size ELSE readSize
<1>1. /\ pos \in Nat /\ readSize \in Nat /\ header.size \in Nat
      /\ HeaderSize \in Nat /\ HeaderSize >= 1
  BY ParseTypes, PayloadStoreAssumption DEF TypeOK
<1>2. first \in Int /\ last \in Int /\ last <= readSize /\ first = pos + HeaderSize + 1
  BY <1>1
<1>3. NextPos(header) = pos + HeaderSize + Len(SubSeq(readBuffer, first, last))
  BY DEF NextPos, DataString
<1> HIDE DEF first, last
<1>4. Len(SubSeq(readBuffer, first, last)) = IF first <= last THEN last - first + 1 ELSE 0
  BY <1>2
<1> QED
  BY <1>1, <1>2, <1>3, <1>4

\* Every step keeps the types.
LEMMA StoreTypeStep ==
  ASSUME TypeOK, BufferInv, FileInv, [Next]_vars
  PROVE  TypeOK'
<1>1. ASSUME NEW r \in Records, NEW n \in 1..ImageSize(r), Write(r, n)
      PROVE  TypeOK'
  BY <1>1, WriteFile, WriteHistory DEF Write, TypeOK, readerVars
<1>2. CASE GetSize
  <2>1. SizeAsked \in Nat
    BY LenProperties DEF SizeAsked, TypeOK
  <2>2. data' \in Seq(Records \cup {Garbage})
    BY <1>2, EmptySeq DEF GetSize
  <2> QED
    BY <1>2, <2>1, <2>2 DEF GetSize, TypeOK, ErrorCodes
<1>3. CASE Read
  <2>1. /\ SubSeq(file, 1, readSize) \in Seq(Cells) \/ readBuffer' = readBuffer
    <3>1. PICK m \in 0..Len(history) : readSize = EndOf(m)
      BY DEF BufferInv
    <3>2. Len(history) \in Nat /\ EndOf(m) \in Nat /\ EndOf(Len(history)) \in Nat
      BY EndType, LenProperties DEF TypeOK
    <3>3. readSize <= Len(file)
      BY <3>1, <3>2 DEF FileInv
    <3>4. \A i \in 1..readSize : file[i] \in Cells
      BY <3>1, <3>2, <3>3, ElementOfSeq, LenProperties DEF TypeOK
    <3> QED
      BY <3>1, <3>2, <3>4, SubSeqProperties
  <2> QED
    BY <1>3, <2>1 DEF Read, TypeOK, ErrorCodes
<1>4. CASE ParseRecord
  <2>1. PICK header \in Headers :
          \/ UNCHANGED <<pos, data>>
          \/ /\ data' = Append(data, Payload(header, DataString(header)))
             /\ pos' = NextPos(header)
    BY <1>4 DEF ParseRecord
  <2>2. pos' \in Nat /\ data' \in Seq(Records \cup {Garbage})
    <3>1. /\ NextPos(header) \in Nat
          /\ Payload(header, DataString(header)) \in Records \cup {Garbage}
      BY ParseTypes
    <3>2. pos \in Nat /\ data \in Seq(Records \cup {Garbage})
      BY DEF TypeOK
    <3>3. Append(data, Payload(header, DataString(header))) \in Seq(Records \cup {Garbage})
      BY <3>1, <3>2, AppendProperties
    <3> QED
      BY <2>1, <3>1, <3>2, <3>3
  <2>3. overread' \in BOOLEAN
    BY <1>4 DEF ParseRecord, TypeOK
  <2>4. /\ reader' \in {"idle", "sized", "parsing", "done"} /\ status' \in ErrorCodes
    BY <1>4 DEF ParseRecord, TypeOK, ErrorCodes, AfterBadRecord
  <2> QED
    BY <1>4, <2>2, <2>3, <2>4 DEF ParseRecord, TypeOK
<1>5. CASE EndOfBuffer
  BY <1>5 DEF EndOfBuffer, TypeOK, ErrorCodes
<1>6. CASE UNCHANGED vars
  BY <1>6 DEF vars, readerVars, TypeOK
<1> QED
  BY <1>1, <1>2, <1>3, <1>4, <1>5, <1>6, StoreIsWrite DEF Next

-------------------------------------------------------------------------------
(***************************************************************************)
(* The file.                                                               *)
(***************************************************************************)

\* All but the writes leave the file alone.
LEMMA NextCases ==
  ASSUME [Next]_vars
  PROVE  \/ \E r \in Records : \E n \in 1..ImageSize(r) : Write(r, n)
         \/ UNCHANGED <<file, history>>
<1>1. CASE \E r \in Records : StoreData(r) \/ StoreDataTorn(r)
  BY <1>1, StoreIsWrite
<1>2. CASE GetSize \/ Read \/ ParseRecord \/ EndOfBuffer \/ UNCHANGED vars
  BY <1>2 DEF GetSize, Read, ParseRecord, EndOfBuffer, vars
<1> QED
  BY <1>1, <1>2 DEF Next

\* An empty file has no writes.
LEMMA FileInit == Init => FileInv
<1> SUFFICES ASSUME Init PROVE FileInv
  OBVIOUS
<1>1. Len(file) = 0 /\ Len(history) = 0 /\ DOMAIN history = {}
  BY EmptySeq DEF Init
<1>2. Len(file) = EndOf(Len(history))
  BY <1>1 DEF EndOf
<1>3. \A i, j \in 0..Len(history) : ~(i < j)
  BY <1>1
<1> QED
  BY <1>1, <1>2, <1>3 DEF FileInv

\* A write divides the file as before, and once more.
LEMMA FileWrite ==
  ASSUME TypeOK, FileInv, NEW r \in Records, NEW n \in 1..ImageSize(r), Write(r, n)
  PROVE  FileInv'
<1> DEFINE L == Len(history)
<1>1. /\ L \in Nat /\ Len(history') = L + 1 /\ Len(file) \in Nat /\ n \in Nat /\ n >= 1
      /\ DOMAIN history = 1..L /\ DOMAIN history' = 1..(L + 1)
  BY WriteHistory, ImageCells, LenProperties DEF TypeOK
<1>2. /\ \A i \in 0..L : EndOf(i) \in Nat /\ EndOf(i)' = EndOf(i)
      /\ \A i \in 0..L : EndOf(i) <= Len(file)
      /\ EndOf(L) = Len(file)
  <2>1. \A i \in 0..L : EndOf(i) \in Nat /\ EndOf(i)' = EndOf(i)
    BY EndType, WriteEnds
  <2>2. EndOf(L) = Len(file) /\ \A i \in 0..L : i < L => EndOf(i) < EndOf(L)
    BY <1>1 DEF FileInv
  <2> QED
    BY <1>1, <2>1, <2>2
<1>3. \A i \in 0..(L + 1) : i = L + 1 => EndOf(i)' = Len(file) + n
  BY <1>1, WriteEnds
<1>4. (Len(file) = EndOf(Len(history)))'
  BY WriteFile, WriteEnds
<1>5. ASSUME NEW i \in 0..Len(history'), NEW j \in 0..Len(history'), i < j
      PROVE  EndOf(i)' < EndOf(j)'
  <2>1. i \in 0..L
    BY <1>1, <1>5
  <2>2. CASE j \in 0..L
    BY <1>2, <1>5, <2>1, <2>2 DEF FileInv
  <2>3. CASE j = L + 1
    <3>1. EndOf(j)' = Len(file) + n
      BY <1>1, <1>3, <2>3
    <3> QED
      BY <1>1, <1>2, <2>1, <3>1
  <2> QED
    BY <1>1, <2>2, <2>3
<1>6. ASSUME NEW i \in DOMAIN history', history'[i].whole
      PROVE  /\ EndOf(i)' = EndOf(i - 1)' + ImageSize(history'[i].record)
             /\ \A k \in 1..ImageSize(history'[i].record) :
                  file'[EndOf(i - 1)' + k] = <<history'[i].record, k>>
  <2>1. CASE i \in 1..L
    <3>1. /\ history'[i] = history[i] /\ i \in 0..L /\ i - 1 \in 0..L
          /\ EndOf(i)' = EndOf(i) /\ EndOf(i - 1)' = EndOf(i - 1)
      BY <1>1, <1>2, <2>1, WriteHistory
    <3>2. history[i].record \in Records
      BY <2>1, Recorded
    <3>3. /\ EndOf(i) = EndOf(i - 1) + ImageSize(history[i].record)
          /\ \A k \in 1..ImageSize(history[i].record) :
               file[EndOf(i - 1) + k] = <<history[i].record, k>>
      BY <1>1, <1>6, <2>1, <3>1 DEF FileInv
    <3>4. ASSUME NEW k \in 1..ImageSize(history[i].record)
          PROVE  file'[EndOf(i - 1) + k] = file[EndOf(i - 1) + k]
      <4>1. ImageSize(history[i].record) \in Nat
        BY <3>2, ImageCells
      <4>2. EndOf(i - 1) + k \in 1..Len(file)
        BY <1>1, <1>2, <3>1, <3>3, <4>1
      <4> QED
        BY <4>2, WriteFile
    <3> QED
      BY <3>1, <3>3, <3>4
  <2>2. CASE i = L + 1
    <3>1. history'[i].record = r /\ n = ImageSize(r)
      BY <1>6, <2>2, WriteHistory
    <3>2. EndOf(i)' = Len(file) + n /\ EndOf(i - 1)' = Len(file)
      <4>1. i \in 0..(L + 1) /\ i - 1 = L /\ L \in 0..L
        BY <1>1, <2>2
      <4> QED
        BY <1>2, <1>3, <2>2, <4>1
    <3>3. \A k \in 1..n : file'[Len(file) + k] = <<r, k>>
      BY WriteFile
    <3> QED
      BY <3>1, <3>2, <3>3
  <2> QED
    BY <1>1, <2>1, <2>2
<1> QED
  BY <1>4, <1>5, <1>6 DEF FileInv

\* Every step keeps the division of the file.
LEMMA FileStep ==
  ASSUME TypeOK, FileInv, [Next]_vars
  PROVE  FileInv'
<1>1. CASE UNCHANGED <<file, history>>
  BY <1>1 DEF FileInv, EndOf
<1> QED
  BY <1>1, NextCases, FileWrite

-------------------------------------------------------------------------------
(***************************************************************************)
(* The buffer.                                                             *)
(***************************************************************************)

\* The size that was asked for lies within the file.
LEMMA SizeInFile ==
  ASSUME TypeOK, FileInv, BufferInv
  PROVE  readSize <= Len(file) /\ readSize \in Nat /\ Len(file) \in Nat
<1>1. PICK m \in 0..Len(history) : readSize = EndOf(m)
  BY DEF BufferInv
<1>2. Len(history) \in Nat /\ EndOf(m) \in Nat /\ EndOf(Len(history)) \in Nat
  BY EndType, LenProperties DEF TypeOK
<1> QED
  BY <1>1, <1>2, LenProperties DEF FileInv, TypeOK

\* A write leaves the buffer as it is, and what it was read from.
LEMMA BufferWrite ==
  ASSUME TypeOK, FileInv, BufferInv,
         NEW r \in Records, NEW n \in 1..ImageSize(r), Write(r, n)
  PROVE  BufferInv'
<1>1. UNCHANGED readerVars
  BY DEF Write
<1>2. PICK m \in 0..Len(history) : readSize = EndOf(m)
  BY DEF BufferInv
<1>3. m \in 0..Len(history') /\ readSize' = EndOf(m)'
  BY <1>1, <1>2, WriteHistory, WriteEnds DEF readerVars
<1>4. \A k \in 1..readSize : file'[k] = file[k]
  BY SizeInFile, WriteFile
<1> QED
  BY <1>1, <1>3, <1>4 DEF BufferInv, readerVars

\* The reader starts with no buffer.
LEMMA BufferInit == Init => BufferInv
<1> SUFFICES ASSUME Init PROVE BufferInv
  OBVIOUS
<1>1. Len(history) = 0 /\ EndOf(0) = 0
  BY EmptySeq DEF Init, EndOf
<1> QED
  BY <1>1 DEF Init, BufferInv

\* Every step keeps the buffer the front of the file.
LEMMA BufferStep ==
  ASSUME TypeOK, FileInv, BufferInv, [Next]_vars
  PROVE  BufferInv'
<1>1. CASE GetSize
  <2>1. readSize' = EndOf(Len(history))' /\ Len(history') \in 0..Len(history')
    BY <1>1, LenProperties DEF GetSize, SizeAsked, FileInv, EndOf, TypeOK
  <2>2. reader' # "parsing" /\ pos' = 0 /\ data' = <<>>
    BY <1>1 DEF GetSize
  <2> QED
    BY <2>1, <2>2 DEF BufferInv
<1>2. CASE Read
  <2>1. PICK m \in 0..Len(history) : readSize = EndOf(m)
    BY DEF BufferInv
  <2>2. m \in 0..Len(history') /\ readSize' = EndOf(m)'
    BY <1>2, <2>1 DEF Read, EndOf
  <2>3. /\ Len(SubSeq(file, 1, readSize)) = readSize
        /\ \A k \in 1..readSize : SubSeq(file, 1, readSize)[k] = file[k]
    <3>1. \A k \in 1..readSize : file[k] \in Cells
      BY SizeInFile, ElementOfSeq DEF TypeOK
    <3>2. /\ Len(SubSeq(file, 1, readSize))
               = IF 1 <= readSize THEN readSize - 1 + 1 ELSE 0
          /\ \A k \in 1..(readSize - 1 + 1) :
               SubSeq(file, 1, readSize)[k] = file[1 + k - 1]
      BY <3>1, SizeInFile, SubSeqProperties
    <3>3. readSize - 1 + 1 = readSize /\ \A k \in 1..readSize : 1 + k - 1 = k
      BY SizeInFile
    <3> QED
      BY <3>2, <3>3, SizeInFile
  <2> QED
    BY <1>2, <2>2, <2>3 DEF Read, BufferInv
<1>3. CASE ParseRecord
  <2>1. /\ reader = "parsing" /\ reader' \in {"parsing", "done"}
        /\ UNCHANGED <<file, history, readSize, readBuffer>>
    BY <1>3 DEF ParseRecord, AfterBadRecord
  <2> QED
    BY <2>1 DEF BufferInv, EndOf
<1>4. CASE EndOfBuffer
  BY <1>4 DEF EndOfBuffer, BufferInv, EndOf
<1>5. CASE UNCHANGED vars
  BY <1>5 DEF vars, readerVars, BufferInv, EndOf
<1> QED
  BY <1>1, <1>2, <1>3, <1>4, <1>5, StoreIsWrite, BufferWrite DEF Next

-------------------------------------------------------------------------------
(***************************************************************************)
(* A turn of the loop at a whole record.                                   *)
(***************************************************************************)

\* An aligned reader that is not at the end of its buffer has a write before
\* it, and the image of its record if the write is whole.
LEMMA WriteAhead ==
  ASSUME TypeOK, FileInv, BufferInv, Aligned, reader = "parsing", pos < readSize
  PROVE  /\ Len(data) \in Nat /\ Len(data) + 1 \in 1..Len(history)
         /\ history[Len(data) + 1].whole =>
              LET r == history[Len(data) + 1].record IN
              /\ r \in Records
              /\ EndOf(Len(data) + 1) = pos + ImageSize(r)
              /\ pos + ImageSize(r) <= readSize
              /\ \A k \in 1..ImageSize(r) : readBuffer[pos + k] = <<r, k>>
<1> DEFINE n == Len(data)
           r == history[n + 1].record
<1>1. n \in 0..Len(history) /\ Len(history) \in Nat /\ n \in Nat /\ pos \in Nat
  BY LenProperties DEF Aligned, TypeOK
<1>2. PICK m \in 0..Len(history) : readSize = EndOf(m)
  BY DEF BufferInv
<1>3. \A i, j \in 0..Len(history) :
        EndOf(i) \in Nat /\ EndOf(j) \in Nat /\ (i < j => EndOf(i) < EndOf(j))
  BY EndType DEF FileInv
<1>4. pos = EndOf(n)
  BY DEF Aligned
<1>5. n + 1 \in 1..Len(history) /\ n + 1 \in 0..Len(history) /\ n + 1 <= m
  <2>1. ~(m < n) /\ m # n
    BY <1>1, <1>2, <1>3, <1>4
  <2> QED
    BY <1>1, <2>1
<1>6. EndOf(n + 1) <= readSize
  BY <1>2, <1>3, <1>5
<1>7. ASSUME history[n + 1].whole
      PROVE  /\ r \in Records
             /\ EndOf(n + 1) = pos + ImageSize(r)
             /\ pos + ImageSize(r) <= readSize
             /\ \A k \in 1..ImageSize(r) : readBuffer[pos + k] = <<r, k>>
  <2>1. r \in Records
    BY <1>5, Recorded
  <2>2. n + 1 \in DOMAIN history /\ n + 1 - 1 = n
    BY <1>1, <1>5, LenProperties DEF TypeOK
  <2>3. /\ EndOf(n + 1) = EndOf(n) + ImageSize(r)
        /\ \A k \in 1..ImageSize(r) : file[EndOf(n) + k] = <<r, k>>
    BY <1>7, <2>2 DEF FileInv
  <2>4. ASSUME NEW k \in 1..ImageSize(r)
        PROVE  readBuffer[pos + k] = <<r, k>>
    <3>1. ImageSize(r) \in Nat
      BY <2>1, ImageCells
    <3>2. pos + k \in 1..readSize
      BY <1>1, <1>4, <1>6, <2>3, <3>1 DEF TypeOK
    <3>3. readBuffer[pos + k] = file[pos + k]
      BY <3>2 DEF BufferInv
    <3> QED
      BY <1>4, <2>3, <3>3
  <2> QED
    BY <1>4, <1>6, <2>1, <2>3, <2>4
<1> QED
  BY <1>1, <1>5, <1>7

\* What was stored for two records tells them apart.
LEMMA StoredFormInjective ==
  ASSUME NEW q \in Records, NEW r \in Records, StoredForm(q) = StoredForm(r)
  PROVE  q = r
<1>1. 1 \in 1..PayloadSize[q] /\ 1 \in 1..PayloadSize[r]
  BY ImageCells
<1>2. StoredForm(q)[1] = <<q, HeaderSize + 1>> /\ StoredForm(r)[1] = <<r, HeaderSize + 1>>
  BY <1>1 DEF StoredForm
<1> QED
  BY <1>2

\* At the image of a record the reader gets its header and its bytes.
LEMMA HeaderAhead ==
  ASSUME TypeOK, NEW r \in Records, pos + ImageSize(r) <= readSize,
         \A k \in 1..ImageSize(r) : readBuffer[pos + k] = <<r, k>>,
         NEW header \in Headers
  PROVE  /\ header.compressionRequired = (r \in Compressed)
         /\ DataString(header) = StoredForm(r)
         /\ NextPos(header) = pos + ImageSize(r)
         /\ pos + HeaderSize <= readSize
<1>1. /\ HeaderSize \in Nat /\ HeaderSize >= 1 /\ PayloadSize[r] \in Nat /\ PayloadSize[r] >= 1
      /\ ImageSize(r) = HeaderSize + PayloadSize[r] /\ ImageSize(r) \in Nat
      /\ pos \in Nat /\ readSize \in Nat
  BY ImageCells DEF TypeOK
<1>2. HeaderOf(r)
  <2>1. pos + HeaderSize <= readSize /\ \A k \in 1..HeaderSize : k \in 1..ImageSize(r)
    BY <1>1
  <2> QED
    BY <2>1 DEF HeaderOf
<1>3. ASSUME NEW q \in Records, HeaderOf(q)
      PROVE  q = r
  <2>1. 1 \in 1..HeaderSize
    BY <1>1
  <2>2. readBuffer[pos + 1] = <<q, 1>> /\ readBuffer[pos + 1] = <<r, 1>>
    BY <1>2, <1>3, <2>1 DEF HeaderOf
  <2> QED
    BY <2>2
<1>4. header = [compressionRequired |-> r \in Compressed, size |-> PayloadSize[r]]
  <2>1. PICK q \in Records :
          /\ HeaderOf(q)
          /\ header = [compressionRequired |-> q \in Compressed, size |-> SizeField(q)]
    BY <1>2 DEF Headers
  <2>2. q = r
    BY <1>3, <2>1
  <2> QED
    BY <2>1, <2>2 DEF SizeField
<1>5. header.compressionRequired = (r \in Compressed) /\ header.size = PayloadSize[r]
  BY <1>4
<1> DEFINE first == pos + HeaderSize + 1
           last == pos + HeaderSize + PayloadSize[r]
<1>6. DataString(header) = SubSeq(readBuffer, first, last)
  <2>1. (IF pos + HeaderSize + header.size < readSize
         THEN pos + HeaderSize + header.size ELSE readSize) = last
    BY <1>1, <1>5
  <2> QED
    BY <2>1 DEF DataString
<1>7. /\ first \in Int /\ last \in Int /\ first <= last /\ last - first + 1 = PayloadSize[r]
      /\ \A i \in first..last : i - pos \in 1..ImageSize(r) /\ pos + (i - pos) = i
      /\ \A k \in 1..PayloadSize[r] :
           first + k - 1 = pos + (HeaderSize + k) /\ HeaderSize + k \in 1..ImageSize(r)
  BY <1>1
<1>8. \A i \in first..last : readBuffer[i] \in Cells
  BY <1>7, ImageCells
<1> HIDE DEF first, last
<1>9. /\ SubSeq(readBuffer, first, last) \in Seq(Cells)
      /\ Len(SubSeq(readBuffer, first, last)) = PayloadSize[r]
      /\ \A k \in 1..PayloadSize[r] :
           SubSeq(readBuffer, first, last)[k] = readBuffer[first + k - 1]
  <2>1. /\ SubSeq(readBuffer, first, last) \in Seq(Cells)
        /\ Len(SubSeq(readBuffer, first, last))
             = IF first <= last THEN last - first + 1 ELSE 0
        /\ \A k \in 1..(last - first + 1) :
             SubSeq(readBuffer, first, last)[k] = readBuffer[first + k - 1]
    BY <1>7, <1>8, SubSeqProperties
  <2> QED
    BY <1>7, <2>1
<1>10. DataString(header) = StoredForm(r)
  <2>1. DataString(header) \in [1..PayloadSize[r] -> Cells]
    BY <1>6, <1>9, LenProperties
  <2>2. \A k \in 1..PayloadSize[r] : DataString(header)[k] = <<r, HeaderSize + k>>
    BY <1>6, <1>7, <1>9
  <2> QED
    BY <2>1, <2>2 DEF StoredForm
<1>11. NextPos(header) = pos + ImageSize(r)
  BY <1>1, <1>6, <1>9 DEF NextPos
<1> QED
  BY <1>1, <1>5, <1>10, <1>11

\* And makes the record of them: snappy undoes what it did.
LEMMA PayloadAhead ==
  ASSUME NEW r \in Records, NEW header, header.compressionRequired = (r \in Compressed)
  PROVE  /\ Payload(header, StoredForm(r)) = r
         /\ ~header.compressionRequired => FALSE \notin Uncompresses(StoredForm(r))
<1>1. (CHOOSE q \in Records : StoredForm(r) = StoredForm(q)) = r
  BY StoredFormInjective
<1>2. Payload(header, StoredForm(r)) = r
  BY <1>1 DEF Payload
<1>3. ~header.compressionRequired => Uncompresses(StoredForm(r)) = {TRUE}
  BY DEF Uncompresses
<1> QED
  BY <1>2, <1>3

-------------------------------------------------------------------------------
(***************************************************************************)
(* The reader.                                                             *)
(***************************************************************************)

\* An aligned reader that has met the torn write has the front.
LEMMA FrontAtTear ==
  ASSUME TypeOK, Aligned, Len(data) + 1 \in 1..Len(history), ~history[Len(data) + 1].whole
  PROVE  FrontRetrieved /\ Torn
<1>1. Len(data) \in Nat /\ Len(history) \in Nat /\ DOMAIN history = 1..Len(history)
  BY LenProperties DEF TypeOK
<1>2. ASSUME NEW i \in IntactFront
      PROVE  i \in 1..Len(data)
  <2>1. i \in 1..Len(history) /\ \A k \in 1..i : history[k].whole
    BY <1>1, <1>2 DEF IntactFront
  <2>2. ~(Len(data) + 1 \in 1..i)
    BY <2>1
  <2> QED
    BY <1>1, <2>1, <2>2
<1>3. FrontRetrieved
  BY <1>1, <1>2 DEF FrontRetrieved, Aligned
<1>4. Torn
  BY <1>1 DEF Torn
<1> QED
  BY <1>3, <1>4

\* So has one that is at the end of its buffer.
LEMMA FrontAtEnd ==
  ASSUME TypeOK, FileInv, Aligned, pos >= readSize
  PROVE  FrontRetrieved
<1>1. /\ Len(data) \in Nat /\ Len(data) \in 0..Len(history) /\ Len(history) \in Nat
      /\ DOMAIN history = 1..Len(history) /\ pos \in Nat /\ readSize \in Nat
  BY LenProperties DEF TypeOK, Aligned
<1>2. ASSUME NEW i \in IntactFront, EndOf(i) <= readSize
      PROVE  i \in 1..Len(data)
  <2>1. i \in 1..Len(history)
    BY <1>1, <1>2 DEF IntactFront
  <2>2. i \in 0..Len(history) /\ EndOf(i) \in Nat
    BY <1>1, <2>1, EndType
  <2>3. ~(EndOf(Len(data)) < EndOf(i))
    BY <1>1, <1>2, <2>2 DEF Aligned
  <2> QED
    BY <1>1, <2>1, <2>2, <2>3 DEF FileInv
<1> QED
  BY <1>1, <1>2 DEF FrontRetrieved, Aligned

\* What the reader has it keeps, whatever it parses behind it.
LEMMA FrontKept ==
  ASSUME TypeOK, FrontRetrieved, ParseRecord
  PROVE  FrontRetrieved'
<1>1. UNCHANGED <<history, readSize>>
  BY DEF ParseRecord
<1>2. PICK header \in Headers :
        \/ UNCHANGED data
        \/ data' = Append(data, Payload(header, DataString(header)))
  BY DEF ParseRecord
<1>3. CASE UNCHANGED data
  BY <1>1, <1>3 DEF FrontRetrieved, IntactFront, EndOf
<1>4. CASE data' = Append(data, Payload(header, DataString(header)))
  <2>1. data \in Seq(Records \cup {Garbage}) /\ Len(data) \in Nat
    BY LenProperties DEF TypeOK
  <2>2. Payload(header, DataString(header)) \in Records \cup {Garbage}
    BY ParseTypes
  <2>3. Len(data') = Len(data) + 1 /\ \A i \in 1..Len(data) : data'[i] = data[i]
    BY <1>4, <2>1, <2>2, AppendProperties
  <2>4. \A i \in IntactFront : i >= 1 /\ i \in Nat
    BY LenProperties DEF IntactFront, TypeOK
  <2>5. ASSUME NEW i \in IntactFront, EndOf(i) <= readSize
        PROVE  i <= Len(data') /\ data'[i] = history[i].record
    <3>1. i <= Len(data) /\ data[i] = history[i].record
      BY <2>5 DEF FrontRetrieved
    <3> QED
      BY <2>1, <2>3, <2>4, <3>1
  <2>6. IntactFront' = IntactFront /\ \A i : EndOf(i)' = EndOf(i)
    BY <1>1 DEF IntactFront, EndOf
  <2> QED
    BY <1>1, <2>5, <2>6 DEF FrontRetrieved
<1> QED
  BY <1>2, <1>3, <1>4

\* A turn of the loop at a whole record leaves the reader aligned behind it.
LEMMA TurnAligned ==
  ASSUME TypeOK, FileInv, BufferInv, Aligned, ParseRecord, history[Len(data) + 1].whole
  PROVE  Aligned' /\ UNCHANGED <<reader, status, overread>>
<1> DEFINE n == Len(data)
           r == history[n + 1].record
<1>1. /\ n \in Nat /\ n + 1 \in 1..Len(history) /\ r \in Records
      /\ EndOf(n + 1) = pos + ImageSize(r) /\ pos + ImageSize(r) <= readSize
      /\ \A k \in 1..ImageSize(r) : readBuffer[pos + k] = <<r, k>>
  BY WriteAhead DEF ParseRecord
<1>2. UNCHANGED <<file, history, readSize, readBuffer>>
  BY DEF ParseRecord
<1> HIDE DEF n, r
<1>3. PICK header \in Headers :
        \/ ~header.compressionRequired /\ FALSE \in Uncompresses(DataString(header))
        \/ /\ data' = Append(data, Payload(header, DataString(header)))
           /\ pos' = NextPos(header)
           /\ UNCHANGED <<reader, status>>
  BY DEF ParseRecord
<1>4. /\ header.compressionRequired = (r \in Compressed)
      /\ DataString(header) = StoredForm(r) /\ NextPos(header) = pos + ImageSize(r)
      /\ pos + HeaderSize <= readSize
  BY <1>1, HeaderAhead
<1>5. /\ Payload(header, StoredForm(r)) = r
      /\ ~header.compressionRequired => FALSE \notin Uncompresses(StoredForm(r))
  BY <1>1, <1>4, PayloadAhead
<1>6. /\ data' = Append(data, r) /\ pos' = pos + ImageSize(r)
      /\ UNCHANGED <<reader, status>>
  BY <1>3, <1>4, <1>5
<1>7. UNCHANGED overread
  BY <1>1, <1>4, PayloadStoreAssumption DEF ParseRecord, TypeOK
<1>8. Aligned'
  <2>1. /\ Len(data') = n + 1 /\ data'[n + 1] = r
        /\ \A i \in 1..n : data'[i] = data[i]
    BY <1>1, <1>6, AppendProperties DEF TypeOK, n
  <2>2. Len(data') \in 0..Len(history') /\ pos' = EndOf(n + 1) /\ pos' <= readSize'
    BY <1>1, <1>2, <1>6, <2>1
  <2>3. EndOf(Len(data))' = EndOf(n + 1)
    BY <1>2, <2>1 DEF EndOf
  <2>4. \A i \in 1..(n + 1) : history[i].whole /\ data'[i] = history[i].record
    <3>1. \A i \in 1..n : history[i].whole /\ data[i] = history[i].record
      BY DEF Aligned, n
    <3>2. history[n + 1].whole /\ r = history[n + 1].record
      BY DEF n, r
    <3>3. \A i \in 1..(n + 1) : i \in 1..n \/ i = n + 1
      BY <1>1
    <3> QED
      BY <2>1, <3>1, <3>2, <3>3
  <2> QED
    BY <1>2, <2>1, <2>2, <2>3, <2>4 DEF Aligned
<1> QED
  BY <1>6, <1>7, <1>8

\* A write neither moves the reader nor adds to what it should have by now.
LEMMA ReaderWrite ==
  ASSUME TypeOK, FileInv, BufferInv,
         NEW r \in Records, NEW n \in 1..ImageSize(r), Write(r, n)
  PROVE  /\ Aligned => Aligned'
         /\ FrontRetrieved => FrontRetrieved'
         /\ Torn => Torn'
<1> DEFINE L == Len(history)
<1>1. /\ UNCHANGED readerVars /\ L \in Nat /\ Len(history') = L + 1 /\ Len(data) \in Nat
      /\ \A i \in 1..L : history'[i] = history[i]
      /\ \A i \in 0..L : EndOf(i)' = EndOf(i)
      /\ DOMAIN history = 1..L /\ DOMAIN history' = 1..(L + 1)
  <2>1. /\ history \in Seq(Writes) /\ data \in Seq(Records \cup {Garbage})
        /\ UNCHANGED readerVars
    BY DEF TypeOK, Write
  <2>2. /\ history' \in Seq(Writes) /\ Len(history') = L + 1 /\ L \in Nat
        /\ \A i \in 1..L : history'[i] = history[i]
    BY WriteHistory
  <2>3. Len(data) \in Nat /\ DOMAIN history = 1..L /\ DOMAIN history' = 1..(L + 1)
    BY <2>1, <2>2, LenProperties
  <2>4. \A i \in 0..L : EndOf(i)' = EndOf(i)
    BY WriteEnds
  <2> QED
    BY <2>1, <2>2, <2>3, <2>4
<1>2. UNCHANGED <<data, pos, readSize>>
  BY <1>1 DEF readerVars
<1>3. ASSUME Aligned
      PROVE  Aligned'
  <2>1. Len(data) \in 0..L /\ Len(data) \in 0..Len(history') /\ EndOf(Len(data))' = EndOf(Len(data))
    <3>1. Len(data) \in 0..L
      BY <1>3 DEF Aligned
    <3>2. EndOf(Len(data))' = EndOf(Len(data))
      BY <1>1, <1>2, <3>1
    <3> QED
      BY <1>1, <3>1, <3>2
  <2>2. \A i \in 1..Len(data) : history'[i].whole /\ data[i] = history'[i].record
    BY <1>1, <1>3, <2>1 DEF Aligned
  <2> QED
    BY <1>2, <1>3, <2>1, <2>2 DEF Aligned
<1>4. ASSUME FrontRetrieved
      PROVE  FrontRetrieved'
  <2>1. ASSUME NEW i \in IntactFront', EndOf(i)' <= readSize
        PROVE  i \in 1..L
    <3>1. i \in 1..(L + 1)
      BY <1>1, <2>1 DEF IntactFront
    <3>2. ASSUME i = L + 1
          PROVE  FALSE
      <4>1. EndOf(i)' = Len(file) + n
        BY <1>1, <3>2, WriteEnds
      <4>2. n \in Nat /\ n >= 1 /\ Len(file) \in Nat /\ readSize \in Nat /\ readSize <= Len(file)
        BY ImageCells, SizeInFile
      <4> QED
        BY <2>1, <4>1, <4>2
    <3> QED
      BY <1>1, <3>1, <3>2
  <2>2. ASSUME NEW i \in IntactFront', EndOf(i)' <= readSize
        PROVE  i <= Len(data) /\ data[i] = history'[i].record
    <3>1. i \in 1..L
      BY <2>1, <2>2
    <3>2. \A k \in 1..i : history[k].whole
      BY <1>1, <2>2, <3>1 DEF IntactFront
    <3>3. i \in IntactFront /\ EndOf(i)' = EndOf(i) /\ history'[i] = history[i]
      BY <1>1, <3>1, <3>2 DEF IntactFront
    <3> QED
      BY <1>4, <2>2, <3>3 DEF FrontRetrieved
  <2> QED
    BY <1>2, <2>2 DEF FrontRetrieved
<1>5. ASSUME Torn
      PROVE  Torn'
  BY <1>1, <1>5 DEF Torn
<1> QED
  BY <1>3, <1>4, <1>5

\* The reader starts aligned, with nothing read of nothing.
LEMMA ParseInit == Init => ParseInv
<1> SUFFICES ASSUME Init PROVE ParseInv
  OBVIOUS
<1>1. Len(data) = 0 /\ Len(history) = 0 /\ EndOf(0) = 0 /\ DOMAIN data = {}
  BY EmptySeq DEF Init, EndOf
<1>2. Aligned
  BY <1>1 DEF Init, Aligned
<1> QED
  BY <1>1, <1>2 DEF Init, ParseInv, RetrievesIntactFront, ExactWithoutTears

\* A turn of the loop: the reader stays aligned, or has met the torn write.
LEMMA ParseTurn ==
  ASSUME TypeOK, FileInv, BufferInv, ParseInv, ParseRecord
  PROVE  ParseInv'
<1>1. reader = "parsing" /\ pos < readSize /\ UNCHANGED history
  BY DEF ParseRecord
<1>2. Torn' <=> Torn
  BY <1>1 DEF Torn
<1>3. CASE Aligned /\ history[Len(data) + 1].whole
  <2>1. Aligned' /\ UNCHANGED <<reader, status, overread>>
    BY <1>3, TurnAligned
  <2>2. ASSUME ~Torn'
        PROVE  /\ ~overread' /\ status' # "INVALID_DATA"
               /\ \A i \in DOMAIN data' : data'[i] = history'[i].record
    <3>1. ~overread /\ status # "INVALID_DATA"
      BY <1>2, <2>2 DEF ParseInv, ExactWithoutTears
    <3>2. DOMAIN data' = 1..Len(data')
      BY StoreTypeStep, LenProperties DEF TypeOK, Next
    <3> QED
      BY <2>1, <3>1, <3>2 DEF Aligned
  <2> QED
    BY <1>1, <2>1, <2>2 DEF ParseInv, RetrievesIntactFront, ExactWithoutTears
<1>4. CASE ~(Aligned /\ history[Len(data) + 1].whole)
  <2>1. FrontRetrieved /\ Torn
    <3>1. CASE Aligned
      <4>1. Len(data) + 1 \in 1..Len(history) /\ ~history[Len(data) + 1].whole
        BY <1>1, <1>4, <3>1, WriteAhead
      <4> QED
        BY <3>1, <4>1, FrontAtTear
    <3>2. CASE ~Aligned
      BY <1>1, <3>2 DEF ParseInv
    <3> QED
      BY <3>1, <3>2
  <2>2. FrontRetrieved' /\ Torn'
    BY <1>2, <2>1, FrontKept
  <2> QED
    BY <2>2 DEF ParseInv, RetrievesIntactFront, ExactWithoutTears
<1> QED
  BY <1>3, <1>4

\* Every step keeps the reader aligned until it has the front.
LEMMA ParseStep ==
  ASSUME TypeOK, FileInv, BufferInv, ParseInv, [Next]_vars
  PROVE  ParseInv'
<1>1. ASSUME NEW r \in Records, NEW n \in 1..ImageSize(r), Write(r, n)
      PROVE  ParseInv'
  <2>1. /\ Aligned => Aligned'
        /\ FrontRetrieved => FrontRetrieved'
        /\ Torn => Torn'
    BY <1>1, ReaderWrite
  <2>2. UNCHANGED <<reader, status, overread, data>>
    BY <1>1 DEF Write, readerVars
  <2>3. ExactWithoutTears'
    <3>1. DOMAIN data = 1..Len(data)
      BY LenProperties DEF TypeOK
    <3> QED
      BY <2>1, <2>2, <3>1 DEF ParseInv, ExactWithoutTears, Aligned
  <2> QED
    BY <2>1, <2>2, <2>3 DEF ParseInv, RetrievesIntactFront
<1>2. CASE GetSize
  <2>1. data' = <<>> /\ pos' = 0 /\ overread' = FALSE /\ readSize' = Len(file)
    BY <1>2 DEF GetSize, SizeAsked
  <2>2. /\ Len(data') = 0 /\ DOMAIN data' = {} /\ readSize' \in Nat
        /\ Len(history') \in Nat
    BY <1>2, <2>1, EmptySeq, LenProperties DEF TypeOK, GetSize
  <2>3. EndOf(Len(data))' = 0
    BY <2>2 DEF EndOf
  <2>4. Aligned'
    BY <2>1, <2>2, <2>3 DEF Aligned
  <2>5. status' \in {"EMPTY", "none"}
    BY <1>2 DEF GetSize
  <2> QED
    BY <2>1, <2>2, <2>4, <2>5 DEF ParseInv, RetrievesIntactFront, ExactWithoutTears
<1>3. CASE Read
  <2>1. /\ Aligned' <=> Aligned
        /\ FrontRetrieved' <=> FrontRetrieved
        /\ Torn' <=> Torn
    BY <1>3 DEF Read, Aligned, FrontRetrieved, IntactFront, Torn, EndOf
  <2>2. \/ reader' = "parsing" /\ status' = status
        \/ reader' = "done" /\ status' = "FILESYSTEM_ERROR"
    BY <1>3 DEF Read
  <2>3. UNCHANGED <<history, data, overread>> /\ reader = "sized"
    BY <1>3 DEF Read
  <2> QED
    BY <2>1, <2>2, <2>3 DEF ParseInv, RetrievesIntactFront, ExactWithoutTears
<1>4. CASE ParseRecord
  BY <1>4, ParseTurn
<1>5. CASE EndOfBuffer
  <2>1. /\ Aligned' <=> Aligned
        /\ FrontRetrieved' <=> FrontRetrieved
        /\ Torn' <=> Torn
    BY <1>5 DEF EndOfBuffer, Aligned, FrontRetrieved, IntactFront, Torn, EndOf
  <2>2. FrontRetrieved
    BY <1>5, FrontAtEnd DEF EndOfBuffer, ParseInv
  <2>3. /\ reader' = "done" /\ status' = "SUCCESS"
        /\ UNCHANGED <<history, data, overread>>
    BY <1>5 DEF EndOfBuffer
  <2> QED
    BY <2>1, <2>2, <2>3 DEF ParseInv, RetrievesIntactFront, ExactWithoutTears
<1>6. CASE UNCHANGED vars
  BY <1>6 DEF vars, readerVars, ParseInv, RetrievesIntactFront, ExactWithoutTears,
              Aligned, FrontRetrieved, IntactFront, Torn, EndOf
<1> QED
  BY <1>1, <1>2, <1>3, <1>4, <1>5, <1>6, StoreIsWrite DEF Next

-------------------------------------------------------------------------------
(***************************************************************************)
(* The theorems.                                                           *)
(***************************************************************************)

\* The four parts are inductive together.
LEMMA StoreInv == Spec => [](TypeOK /\ FileInv /\ BufferInv /\ ParseInv)
<1> DEFINE Inv == TypeOK /\ FileInv /\ BufferInv /\ ParseInv
<1>1. Init => Inv
  BY StoreTypeInit, FileInit, BufferInit, ParseInit
<1>2. Inv /\ [Next]_vars => Inv'
  BY StoreTypeStep, FileStep, BufferStep, ParseStep
<1> QED
  BY <1>1, <1>2, PTL DEF Spec

\* The file and the buffer are cells of records, the reader's place is a number
\* whatever the headers it trusts say, and what it hands out is a payload that
\* may be stored or garbage (PayloadManager.cpp:35-104, 115-206).
THEOREM StoreTypeCorrect == Spec => []TypeOK
  BY StoreInv, PTL

\* Whatever failed writes leave behind, retrieveData hands out every payload that
\* was stored before the first of them and before it asked for the size, in
\* order (PayloadManager.cpp:158-200).
THEOREM FrontSafety == Spec => []RetrievesIntactFront
<1>1. ParseInv => RetrievesIntactFront
  BY DEF ParseInv
<1> QED
  BY <1>1, StoreInv, PTL

\* Without a failed write every header it parses is one that storeData wrote: it
\* reads none from behind its buffer, refuses no payload and makes none up
\* (PayloadManager.cpp:158-200).
THEOREM ExactSafety == Spec => []ExactWithoutTears
<1>1. ParseInv => ExactWithoutTears
  BY DEF ParseInv
<1> QED
  BY <1>1, StoreInv, PTL

\* The place of the reader is less than a header behind its buffer and moves by a
\* header at least with each payload, whatever the headers say: the loop has no
\* more turns than headers fit (PayloadManager.cpp:158-199).
THEOREM BoundSafety == Spec => []ParseBound
<1>1. Init => ParseBound
  <2>1. Len(<<>>) = 0 /\ HeaderSize \in Nat /\ HeaderSize >= 1
    BY EmptySeq, PayloadStoreAssumption
  <2> QED
    BY <2>1 DEF Init, ParseBound
<1>2. TypeOK /\ ParseBound /\ [Next]_vars => ParseBound'
  <2> SUFFICES ASSUME TypeOK, ParseBound, [Next]_vars
               PROVE  ParseBound'
    OBVIOUS
  <2>1. /\ pos \in Nat /\ readSize \in Nat /\ Len(data) \in Nat
        /\ HeaderSize \in Nat /\ HeaderSize >= 1
    BY LenProperties, PayloadStoreAssumption DEF TypeOK
  <2>2. CASE UNCHANGED <<pos, readSize, data>>
    BY <2>2 DEF ParseBound
  <2>3. CASE GetSize
    <3>1. pos' = 0 /\ Len(data') = 0 /\ readSize' \in Nat
      BY <2>3, EmptySeq, LenProperties DEF GetSize, SizeAsked, TypeOK
    <3>2. 0 * HeaderSize = 0
      BY <2>1
    <3>3. \A n \in Nat : 0 < n + HeaderSize
      BY <2>1
    <3>4. pos' < readSize' + HeaderSize
      BY <3>1, <3>3
    <3>5. Len(data') * HeaderSize <= pos'
      BY <3>1, <3>2
    <3> QED
      BY <3>4, <3>5 DEF ParseBound
  <2>4. CASE ParseRecord /\ ~UNCHANGED <<pos, readSize, data>>
    <3>1. PICK header \in Headers :
            /\ data' = Append(data, Payload(header, DataString(header)))
            /\ pos' = NextPos(header) /\ readSize' = readSize /\ pos < readSize
      BY <2>4 DEF ParseRecord
    <3>2. /\ NextPos(header) \in Nat /\ NextPos(header) < readSize + HeaderSize
          /\ pos + HeaderSize <= NextPos(header)
      BY <3>1, ParseTypes, DataStringFits
    <3>3. Len(data') = Len(data) + 1
      BY <3>1, ParseTypes, AppendProperties DEF TypeOK
    <3>4. (Len(data) + 1) * HeaderSize = Len(data) * HeaderSize + HeaderSize
      BY <2>1
    <3> QED
      BY <2>1, <3>1, <3>2, <3>3, <3>4 DEF ParseBound
  <2>5. CASE \E r \in Records : StoreData(r) \/ StoreDataTorn(r)
    <3>1. UNCHANGED <<pos, readSize, data>>
      BY <2>5 DEF StoreData, StoreDataTorn, Write, readerVars
    <3> QED
      BY <2>2, <3>1
  <2>6. CASE Read \/ EndOfBuffer \/ UNCHANGED vars
    BY <2>2, <2>6 DEF Read, EndOfBuffer, vars, readerVars
  <2> QED
    BY <2>2, <2>3, <2>4, <2>5, <2>6 DEF Next
<1> QED
  BY <1>1, <1>2, StoreTypeCorrect, PTL DEF Spec
===============================================================================
