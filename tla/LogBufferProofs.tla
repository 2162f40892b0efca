---------------------------- MODULE LogBufferProofs ----------------------------
(***************************************************************************)
(* How far the log buffer can exceed its maximum, and that its counter is  *)
(* the size of what is in it, for any number of loggers, any sizes of      *)
(* entries and a stop at any time.                                         *)
(***************************************************************************)
EXTENDS LogBuffer, FiniteSetTheorems, TLAPS

\* The facts about the sets of loggers that the bound counts with.
LEMMA LoggersCount ==
  /\ Cardinality(Loggers) \in Nat
  /\ \A S \in SUBSET Loggers :
       /\ IsFiniteSet(S)
       /\ Cardinality(S) \in Nat
       /\ Cardinality(S) <= Cardinality(Loggers)
       /\ Cardinality(S) = Cardinality(Loggers) => S = Loggers
       /\ \A t \in Loggers \ S : Cardinality(S \cup {t}) = Cardinality(S) + 1
       /\ S # {} => Cardinality(S) >= 1
  BY LogAssumption, FS_Subset, FS_CardinalityType, FS_AddElement, FS_EmptySet

\* Multiplication by the size of an entry, as far as the bound needs it.
LEMMA OneMore ==
  ASSUME NEW n \in Nat
  PROVE  /\ (n + 1) * MaxEntrySize = n * MaxEntrySize + MaxEntrySize
         /\ n * MaxEntrySize \in Nat
  BY LogAssumption

\* More loggers allow for more bytes.
LEMMA Monotone ==
  ASSUME NEW m \in Nat, NEW n \in Nat, m <= n
  PROVE  m * MaxEntrySize <= n * MaxEntrySize
  BY LogAssumption

-------------------------------------------------------------------------------
(***************************************************************************)
(* Types, together with what a thread inside a call works for.             *)
(***************************************************************************)

\* The program starts in a state of the declared types, outside any call.
LEMMA TypeInit == Init => TypeOK /\ CallInv
<1> SUFFICES ASSUME Init PROVE TypeOK /\ CallInv
  OBVIOUS
<1>1. \A t \in Threads : pc[t] = "idle"
  BY DEF Init
<1>2. TypeOK
  BY DEF Init, TypeOK, Threads
<1>3. CallInv
  BY <1>1 DEF CallInv, Threads
<1> QED
  BY <1>2, <1>3

\* Every step keeps the types, and a logger its entry.
LEMMA TypeStep == TypeOK /\ CallInv /\ [Next]_vars => TypeOK' /\ CallInv'
<1> SUFFICES ASSUME TypeOK, CallInv, [Next]_vars
             PROVE  TypeOK' /\ CallInv'
  OBVIOUS
<1> USE LogAssumption DEF TypeOK, CallInv, Threads, buffer
<1>1. ASSUME NEW t \in Loggers, NEW e \in Entries, LogFits(t, e)
      PROVE  TypeOK' /\ CallInv'
  <2>1. SizeOf[e] \in Nat
    OBVIOUS
  <2> QED
    BY <1>1, <2>1 DEF LogFits, append, LoggingMutexFree
<1>2. ASSUME NEW t \in Loggers, NEW e \in Entries, LogFull(t, e)
      PROVE  TypeOK' /\ CallInv'
  BY <1>2 DEF LogFull, LoggingMutexFree
<1>3. CASE Flush
  BY <1>3 DEF Flush
<1>4. ASSUME NEW t \in Threads, ThreadStep(t)
      PROVE  TypeOK' /\ CallInv'
  <2>1. CASE SerializeAndReset(t)
    BY <2>1 DEF SerializeAndReset, initLogStructure, clearRoot, zeroCounter, LoggingMutexFree
  <2>2. CASE NothingToSend(t)
    BY <2>2 DEF NothingToSend, AfterSend
  <2>3. CASE SomethingToSend(t)
    BY <2>3 DEF SomethingToSend
  <2>4. CASE Sent(t)
    BY <2>4 DEF Sent, output, AfterSend
  <2>5. CASE AddAfterSend(t)
    <3>1. t \in Loggers /\ entry[t] \in Entries
      BY <2>5 DEF AddAfterSend
    <3>2. SizeOf[entry[t]] \in Nat
      BY <3>1
    <3> QED
      BY <2>5, <3>1, <3>2 DEF AddAfterSend, appendAfterSend, append, LoggingMutexFree
  <2>6. CASE CountEntry(t)
    <3>1. t \in Loggers /\ entry[t] \in Entries
      BY <2>6 DEF CountEntry
    <3>2. SizeOf[entry[t]] \in Nat
      BY <3>1
    <3> QED
      BY <2>6, <3>1, <3>2 DEF CountEntry
  <2> QED
    BY <1>4, <2>1, <2>2, <2>3, <2>4, <2>5, <2>6 DEF ThreadStep
<1>5. CASE StopClearsRoot
  BY <1>5 DEF StopClearsRoot, clearRoot
<1>6. CASE StopZeroesCounter
  <2>1. ASSUME NEW t \in Threads, pc[t] = "appended"
        PROVE  entry[t] \in Entries /\ SizeOf[entry[t]] \in Nat
    BY <2>1
  <2>2. UNCHANGED <<sum, pc, entry>> /\ fCurrentUserPayloadInLogRoot' = 0
    BY <1>6 DEF StopZeroesCounter, zeroCounter
  <2>3. ASSUME NEW t \in Threads, pc'[t] = "appended"
        PROVE  fCurrentUserPayloadInLogRoot' + SizeOf[entry'[t]] <= sum'
    <3>1. /\ SizeOf[entry[t]] \in Nat
          /\ fCurrentUserPayloadInLogRoot + SizeOf[entry[t]] <= sum
      BY <2>1, <2>2, <2>3
    <3> QED
      BY <2>2, <3>1
  <2>4. TypeOK'
    BY <1>6 DEF StopZeroesCounter, zeroCounter
  <2> QED
    BY <2>2, <2>3, <2>4
<1>7. CASE UNCHANGED vars
  BY <1>7 DEF vars
<1> QED
  BY <1>1, <1>2, <1>3, <1>4, <1>5, <1>6, <1>7 DEF Next

-------------------------------------------------------------------------------
(***************************************************************************)
(* The overshoot.                                                          *)
(***************************************************************************)

IInv == TypeOK /\ CallInv /\ OvershootInv

\* An empty buffer is within its bounds.
LEMMA OvershootInit == Init => OvershootInv
  BY LogAssumption, FS_EmptySet DEF Init, OvershootInv, Pending, Counted, LoggingMutexFree, Threads

\* What is counted is a number, and the counter is no more than that.
LEMMA CountedBounds ==
  ASSUME TypeOK, CallInv
  PROVE  Counted \in Nat /\ fCurrentUserPayloadInLogRoot <= Counted
<1>1. CASE LoggingMutexFree
  BY <1>1 DEF Counted, TypeOK
<1>2. CASE ~LoggingMutexFree
  <2>1. PICK t \in Threads : pc[t] = "appended"
    BY <1>2 DEF LoggingMutexFree
  <2>2. entry[t] \in Entries /\ SizeOf[entry[t]] \in Nat
    BY <2>1, LogAssumption DEF CallInv, Threads
  <2> QED
    BY <1>2, <2>1, <2>2 DEF Counted, TypeOK, CallInv
<1> QED
  BY <1>1, <1>2

\* A step that counts no more, and after which the same loggers have added or
\* have yet to add without a check, keeps the bounds.
LEMMA NoMoreCounted ==
  ASSUME OvershootInv, Counted \in Nat, Counted' \in Nat, Counted' <= Counted,
         unchecked \subseteq Loggers, UNCHANGED <<unchecked, Pending>>
  PROVE  OvershootInv'
<1> DEFINE n == Cardinality(unchecked)
<1>1. n \in Nat /\ MaxEntrySize \in Nat /\ n * MaxEntrySize \in Nat
      /\ MAX_BYTES_FOR_SINGLE_LOG_UPLOAD \in Nat /\ FullBuffer \in Nat
  BY LoggersCount, OneMore, LogAssumption DEF FullBuffer
<1>2. CASE unchecked = {}
  BY <1>1, <1>2 DEF OvershootInv
<1>3. CASE unchecked # {}
  <2>1. n - 1 \in Nat /\ (n - 1) * MaxEntrySize \in Nat
    <3>1. n - 1 \in Nat
      BY <1>1, <1>3, LoggersCount
    <3> QED
      BY <3>1, OneMore
  <2>2. FullBuffer' = FullBuffer
    BY DEF FullBuffer
  <2> QED
    BY <1>1, <1>3, <2>1, <2>2 DEF OvershootInv
<1> QED
  BY <1>2, <1>3

\* Only a reset empties the set of unchecked adders, only an add fills it.
LEMMA OvershootStep ==
  ASSUME IInv, [Next]_vars
  PROVE  OvershootInv'
<1>0. /\ TypeOK' /\ CallInv'
      /\ Counted \in Nat /\ fCurrentUserPayloadInLogRoot <= Counted
      /\ Counted' \in Nat
  <2>1. TypeOK' /\ CallInv'
    BY TypeStep DEF IInv
  <2>2. Counted' \in Nat
    BY <2>1 DEF TypeOK, Counted
  <2> QED
    BY <2>1, <2>2, CountedBounds DEF IInv
<1> USE LogAssumption DEF IInv, TypeOK, CallInv, Pending, Threads, buffer
<1>1. ASSUME NEW t \in Loggers, NEW e \in Entries, LogFits(t, e)
      PROVE  OvershootInv'
  <2>1. Counted' <= MAX_BYTES_FOR_SINGLE_LOG_UPLOAD
    <3>1. SizeOf[e] \in Nat /\ pc'[t] = "appended"
      BY <1>1 DEF LogFits, append
    <3>2. Counted' = sum'
      BY <3>1 DEF Counted, LoggingMutexFree
    <3> QED
      BY <1>1, <3>1, <3>2 DEF LogFits, Fits, append
  <2>2. t \notin Pending /\ Pending' = Pending /\ UNCHANGED unchecked
    BY <1>1 DEF LogFits, append
  <2>3. MAX_BYTES_FOR_SINGLE_LOG_UPLOAD <= FullBuffer /\ FullBuffer \in Nat
    BY DEF FullBuffer
  <2>4. /\ Cardinality(unchecked) * MaxEntrySize \in Nat
        /\ unchecked # {} => (Cardinality(unchecked) - 1) * MaxEntrySize \in Nat
    BY LoggersCount
  <2>5. unchecked # {} \/ t \notin unchecked
    OBVIOUS
  <2> QED
    BY <1>0, <2>1, <2>2, <2>3, <2>4, <2>5 DEF FullBuffer, OvershootInv
<1>2. ASSUME UNCHANGED <<fCurrentUserPayloadInLogRoot, sum, unchecked, Pending>>,
             LoggingMutexFree' = LoggingMutexFree
      PROVE  OvershootInv'
  <2>1. Counted' = Counted
    BY <1>2 DEF Counted
  <2> QED
    BY <1>0, <1>2, <2>1, NoMoreCounted
<1>3. ASSUME NEW t \in Loggers, NEW e \in Entries, LogFull(t, e)
      PROVE  OvershootInv'
  <2>1. LoggingMutexFree' = LoggingMutexFree /\ Pending' = Pending
    BY <1>3 DEF LogFull, LoggingMutexFree
  <2> QED
    BY <1>2, <1>3, <2>1 DEF LogFull
<1>4. CASE Flush
  <2>1. LoggingMutexFree' = LoggingMutexFree /\ Pending' = Pending
    BY <1>4 DEF Flush, LoggingMutexFree
  <2> QED
    BY <1>2, <1>4, <2>1 DEF Flush
<1>5. ASSUME NEW t \in Threads, ThreadStep(t)
      PROVE  OvershootInv'
  <2>1. CASE SerializeAndReset(t)
    <3>1. LoggingMutexFree' /\ Counted' = 0 /\ unchecked' = {}
      BY <2>1 DEF SerializeAndReset, initLogStructure, zeroCounter, LoggingMutexFree, Counted
    <3> QED
      BY <3>1, FS_EmptySet DEF OvershootInv
  <2>2. CASE NothingToSend(t) \/ SomethingToSend(t) \/ Sent(t)
    <3>1. LoggingMutexFree' = LoggingMutexFree /\ Pending' = Pending
      BY <2>2 DEF NothingToSend, SomethingToSend, Sent, AfterSend, LoggingMutexFree
    <3> QED
      BY <1>2, <2>2, <3>1 DEF NothingToSend, SomethingToSend, Sent
  <2>3. CASE CountEntry(t)
    <3>1. t \in Loggers /\ entry[t] \in Entries /\ SizeOf[entry[t]] \in Nat
      BY <2>3 DEF CountEntry
    <3>2. ~LoggingMutexFree /\ LoggingMutexFree'
      BY <2>3 DEF CountEntry, LoggingMutexFree
    <3>3. Counted = sum /\ Counted' = fCurrentUserPayloadInLogRoot'
      BY <3>2 DEF Counted
    <3>4. Counted' <= Counted
      BY <2>3, <3>1, <3>3 DEF CountEntry
    <3>5. UNCHANGED <<unchecked, Pending>>
      BY <2>3 DEF CountEntry
    <3> QED
      BY <1>0, <3>4, <3>5, NoMoreCounted
  <2>4. CASE AddAfterSend(t)
    <3>1. t \in Loggers /\ entry[t] \in Entries /\ t \in Pending /\ t \notin unchecked
      BY <2>4 DEF AddAfterSend, OvershootInv
    <3>2. Pending' = Pending \ {t} /\ unchecked' = unchecked \cup {t}
      BY <2>4, <3>1 DEF AddAfterSend, appendAfterSend, append
    <3>3. Cardinality(unchecked') = Cardinality(unchecked) + 1 /\ Cardinality(unchecked) \in Nat
      BY <3>1, <3>2, LoggersCount
    <3>4. Counted' <= Counted + MaxEntrySize
      <4>1. pc'[t] = "appended" /\ LoggingMutexFree
        BY <2>4 DEF AddAfterSend, appendAfterSend, append
      <4>2. Counted' = sum' /\ Counted = fCurrentUserPayloadInLogRoot
        BY <4>1 DEF Counted, LoggingMutexFree
      <4> QED
        BY <2>4, <3>1, <4>2 DEF AddAfterSend, appendAfterSend, append
    <3> DEFINE n == Cardinality(unchecked)
    <3>a. /\ Counted \in Nat /\ Counted' \in Nat
          /\ MAX_BYTES_FOR_SINGLE_LOG_UPLOAD \in Nat /\ MaxEntrySize \in Nat
          /\ FullBuffer \in Nat /\ MaxEntrySize <= FullBuffer
      BY <1>0 DEF FullBuffer
    <3>b. n \in Nat /\ (n + 1) * MaxEntrySize = n * MaxEntrySize + MaxEntrySize
          /\ n * MaxEntrySize \in Nat
      BY <3>3, OneMore
    <3>5. Counted'
            <= MAX_BYTES_FOR_SINGLE_LOG_UPLOAD + (n + 1) * MaxEntrySize
      <4>1. Counted
              <= MAX_BYTES_FOR_SINGLE_LOG_UPLOAD + n * MaxEntrySize
        BY DEF OvershootInv
      <4>2. SUFFICES Counted'
              <= MAX_BYTES_FOR_SINGLE_LOG_UPLOAD + (n * MaxEntrySize + MaxEntrySize)
        BY <3>b
      <4> DEFINE p == n * MaxEntrySize
      <4>3. p \in Nat /\ Counted <= MAX_BYTES_FOR_SINGLE_LOG_UPLOAD + p
        BY <3>b, <4>1
      <4> HIDE DEF p, IInv, TypeOK
      <4>4. Counted'
              <= MAX_BYTES_FOR_SINGLE_LOG_UPLOAD + (p + MaxEntrySize)
        BY <3>4, <3>a, <4>3
      <4> QED
        BY <4>4 DEF p
    <3>6. ASSUME Loggers = unchecked \cup Pending
          PROVE  Counted' <= FullBuffer + n * MaxEntrySize
      <4>1. CASE unchecked = {}
        <5>1. Counted = 0
          BY <3>6, <4>1 DEF OvershootInv
        <5>2. Counted' <= MaxEntrySize
          BY <3>4, <3>a, <5>1
        <5>3. n = 0
          BY <4>1, FS_EmptySet
        <5>4. n * MaxEntrySize = 0
          BY <5>3
        <5> QED
          BY <3>a, <5>2, <5>4
      <4>2. CASE unchecked # {}
        <5>1. n - 1 \in Nat
          BY <4>2, LoggersCount
        <5>2. ((n - 1) + 1) * MaxEntrySize = (n - 1) * MaxEntrySize + MaxEntrySize
              /\ (n - 1) * MaxEntrySize \in Nat
          BY <5>1, OneMore
        <5>3. (n - 1) + 1 = n
          BY <3>b
        <5>4. Counted <= FullBuffer + (n - 1) * MaxEntrySize
          BY <3>6, <4>2 DEF OvershootInv
        <5> DEFINE p == (n - 1) * MaxEntrySize
        <5>5. p \in Nat /\ n * MaxEntrySize = p + MaxEntrySize
          BY <5>2, <5>3
        <5>6. Counted <= FullBuffer + p
          BY <5>4
        <5> HIDE DEF p, IInv, TypeOK
        <5>7. Counted' <= FullBuffer + (p + MaxEntrySize)
          BY <3>4, <3>a, <5>5, <5>6
        <5> QED
          BY <5>5, <5>7
      <4> QED
        BY <4>1, <4>2
    <3>7. unchecked' \cap Pending' = {} /\ unchecked' # {}
      BY <3>1, <3>2 DEF OvershootInv
    <3>8. unchecked' \cup Pending' = unchecked \cup Pending
      BY <3>1, <3>2
    <3>9. Cardinality(unchecked') = n + 1 /\ (n + 1) - 1 = n
      BY <3>3
    <3> HIDE DEF n, Pending
    <3> QED
      BY <3>5, <3>6, <3>7, <3>8, <3>9 DEF FullBuffer, OvershootInv
  <2> QED
    BY <1>5, <2>1, <2>2, <2>3, <2>4 DEF ThreadStep
<1>6. CASE StopClearsRoot
  <2>1. LoggingMutexFree' = LoggingMutexFree /\ Pending' = Pending
    BY <1>6 DEF StopClearsRoot, LoggingMutexFree
  <2> QED
    BY <1>2, <1>6, <2>1 DEF StopClearsRoot
<1>7. CASE StopZeroesCounter
  <2>1. LoggingMutexFree' = LoggingMutexFree /\ UNCHANGED <<unchecked, Pending>>
    BY <1>7 DEF StopZeroesCounter, LoggingMutexFree
  <2>2. Counted' <= Counted
    BY <1>0, <1>7, <2>1 DEF StopZeroesCounter, zeroCounter, Counted
  <2> QED
    BY <1>0, <2>1, <2>2, NoMoreCounted
<1>8. CASE UNCHANGED vars
  <2>1. LoggingMutexFree' = LoggingMutexFree /\ Pending' = Pending
    BY <1>8 DEF vars, LoggingMutexFree
  <2> QED
    BY <1>2, <1>8, <2>1 DEF vars
<1> QED
  BY <1>1, <1>3, <1>4, <1>5, <1>6, <1>7, <1>8 DEF Next

\* The bound follows: either some logger has yet to add without a check, or the
\* first that did found the buffer empty.
LEMMA OvershootImplied == IInv => OvershootBound
<1> SUFFICES ASSUME IInv PROVE OvershootBound
  OBVIOUS
<1>0. Counted \in Nat /\ fCurrentUserPayloadInLogRoot <= Counted
  BY CountedBounds DEF IInv
<1> USE DEF IInv, TypeOK, OvershootInv
<1> DEFINE n == Cardinality(unchecked)
           N == Cardinality(Loggers)
<1>1. n \in Nat /\ N \in Nat /\ n <= N /\ N >= 1
  BY LoggersCount, LogAssumption
<1>2. CASE unchecked = Loggers
  <2>1. Loggers = unchecked \cup Pending
    BY <1>2 DEF Pending
  <2>2. unchecked # {}
    BY <1>2, LogAssumption
  <2>3. Counted
          <= FullBuffer + (Cardinality(unchecked) - 1) * MaxEntrySize
    BY <2>1, <2>2
  <2>4. FullBuffer \in Nat /\ (N - 1) * MaxEntrySize \in Nat
    BY <1>1, OneMore, LogAssumption DEF FullBuffer
  <2> QED
    BY <1>0, <1>1, <1>2, <2>3, <2>4 DEF OvershootBound
<1>3. CASE unchecked # Loggers
  <2>1. n <= N - 1
    BY <1>1, <1>3, LoggersCount
  <2>2. n * MaxEntrySize <= (N - 1) * MaxEntrySize
    BY <1>1, <2>1, Monotone
  <2>3. n * MaxEntrySize \in Nat /\ (N - 1) * MaxEntrySize \in Nat
    BY <1>1, OneMore
  <2>4. MAX_BYTES_FOR_SINGLE_LOG_UPLOAD <= FullBuffer
    BY LogAssumption DEF FullBuffer
  <2>5. FullBuffer \in Nat
    BY LogAssumption DEF FullBuffer
  <2>6. Counted <= MAX_BYTES_FOR_SINGLE_LOG_UPLOAD + n * MaxEntrySize
    OBVIOUS
  <2> HIDE DEF n, N
  <2>7. fCurrentUserPayloadInLogRoot <= FullBuffer + (N - 1) * MaxEntrySize
    BY <1>0, <2>2, <2>3, <2>4, <2>5, <2>6, LogAssumption
  <2> QED
    BY <2>7 DEF OvershootBound, N
<1> QED
  BY <1>2, <1>3

-------------------------------------------------------------------------------
(***************************************************************************)
(* The counter and the buffer.                                             *)
(***************************************************************************)

\* An entry that is not in the buffer adds as many bytes as it has.
LEMMA AppendCounts ==
  ASSUME NEW t \in Loggers, NEW e \in Entries, e \notin fLogRoot, append(t, e),
         IsFiniteSet(Bytes)
  PROVE  /\ IsFiniteSet(Bytes')
         /\ Cardinality(Bytes') = Cardinality(Bytes) + SizeOf[e]
<1> DEFINE new == {e} \X (1..SizeOf[e])
<1>1. SizeOf[e] \in Nat
  BY LogAssumption
<1>2. IsFiniteSet(new) /\ Cardinality(new) = SizeOf[e]
  <2>1. IsFiniteSet({e}) /\ Cardinality({e}) = 1
    BY FS_Singleton
  <2>2. IsFiniteSet(1..SizeOf[e]) /\ Cardinality(1..SizeOf[e]) = SizeOf[e]
    BY <1>1, FS_Interval
  <2>3. /\ IsFiniteSet(new)
        /\ Cardinality(new) = Cardinality({e}) * Cardinality(1..SizeOf[e])
    BY <2>1, <2>2, FS_Product, Zenon
  <2> HIDE DEF new
  <2> QED
    BY <1>1, <2>1, <2>2, <2>3
<1>3. Bytes' = Bytes \cup new
  BY DEF append, Bytes
<1>4. Bytes \cap new = {}
  BY DEF Bytes
<1> HIDE DEF new
<1>5. /\ IsFiniteSet(Bytes \cup new)
      /\ Cardinality(Bytes \cup new)
           = Cardinality(Bytes) + Cardinality(new) - Cardinality(Bytes \cap new)
  BY <1>2, FS_Union
<1>6. Cardinality(Bytes \cap new) = 0
  BY <1>4, FS_EmptySet
<1>7. Cardinality(Bytes) \in Nat
  BY FS_CardinalityType
<1>8. Cardinality(Bytes') = Cardinality(Bytes) + SizeOf[e] - 0
  BY <1>2, <1>3, <1>5, <1>6
<1> QED
  BY <1>1, <1>3, <1>5, <1>7, <1>8

\* A thread that appends an entry that nobody else has: unless stop is between
\* its two resets, it writes the new size to the counter.
LEMMA AppendBytes ==
  ASSUME TypeOK, CallInv, BytesInv,
         NEW t \in Loggers, NEW e \in Entries, e \notin accepted,
         LoggingMutexFree, append(t, e), UNCHANGED stopping,
         entry'[t] = e,
         \A u \in Threads : u # t => entry'[u] = entry[u] /\ entry[u] # e
  PROVE  BytesInv'
<1> USE DEF TypeOK, BytesInv, Threads
<1>1. /\ IsFiniteSet(Bytes')
      /\ Cardinality(Bytes') = Cardinality(Bytes) + SizeOf[e]
  BY AppendCounts
<1>2. SizeOf[e] \in Nat
  BY LogAssumption
<1>3. pc' = [pc EXCEPT ![t] = "appended"] /\ pc'[t] = "appended"
  BY DEF append
<1>4. CounterMatchesRoot'
  BY <1>3 DEF CounterMatchesRoot, LoggingMutexFree
<1>5. ASSUME ~raced', NEW u \in Threads, pc'[u] = "appended"
      PROVE  /\ sum' = Cardinality(Bytes')
             /\ fCurrentUserPayloadInLogRoot' + SizeOf[entry'[u]] = sum'
  <2>1. u = t
    BY <1>3, <1>5 DEF LoggingMutexFree
  <2>2. ~raced /\ ~stopping
    BY <1>5 DEF append
  <2>3. fCurrentUserPayloadInLogRoot = Cardinality(Bytes)
    BY <2>2 DEF CounterMatchesRoot
  <2> QED
    BY <1>1, <1>2, <2>1, <2>3 DEF append
<1>6. ~raced' => ~stopping'
  BY DEF append
<1>7. ASSUME NEW u \in Threads, entry'[u] # NoEntry, pc'[u] # "appended"
      PROVE  entry'[u] \notin accepted'
  <2>1. u # t /\ pc'[u] = pc[u]
    BY <1>3, <1>7
  <2> QED
    BY <1>7, <2>1 DEF append
<1>8. ASSUME NEW u \in Threads, NEW v \in Threads, entry'[u] = entry'[v], entry'[u] # NoEntry
      PROVE  u = v
  BY <1>8
<1>9. fLogRoot' \subseteq accepted'
  BY DEF append
<1> QED
  BY <1>1, <1>4, <1>5, <1>6, <1>7, <1>8, <1>9

\* Every step keeps the counter with the bytes.
LEMMA BytesStep ==
  ASSUME TypeOK, CallInv, BytesInv, [Next]_vars
  PROVE  BytesInv'
<1> USE LogAssumption DEF TypeOK, CallInv, Threads, buffer
<1>1. ASSUME NEW t \in Loggers, NEW e \in Entries, LogFits(t, e)
      PROVE  BytesInv'
  BY <1>1, AppendBytes DEF LogFits, Fresh
<1>2. ASSUME UNCHANGED <<buffer, stopping, accepted, raced>>,
             \A u \in Threads : pc'[u] = "appended" <=> pc[u] = "appended",
             \A u \in Threads : pc[u] = "appended" => entry'[u] = entry[u],
             \A u \in Threads : entry'[u] = entry[u] \/ entry'[u] \notin accepted,
             \A u, v \in Threads :
               entry'[u] = entry'[v] /\ entry'[u] # NoEntry => u = v
      PROVE  BytesInv'
  <2>1. UNCHANGED <<Bytes, LoggingMutexFree>>
    BY <1>2 DEF Bytes, LoggingMutexFree
  <2> QED
    BY <1>2, <2>1 DEF BytesInv, CounterMatchesRoot
<1>3. ASSUME NEW t \in Loggers, NEW e \in Entries, LogFull(t, e)
      PROVE  BytesInv'
  BY <1>2, <1>3 DEF LogFull, Fresh, BytesInv
<1>4. ASSUME NEW t \in Threads, SerializeAndReset(t)
      PROVE  BytesInv'
  <2>1. Bytes' = {} /\ fLogRoot' = {} /\ fCurrentUserPayloadInLogRoot' = 0
    BY <1>4 DEF SerializeAndReset, initLogStructure, clearRoot, zeroCounter, Bytes
  <2>2. LoggingMutexFree'
    BY <1>4 DEF SerializeAndReset, LoggingMutexFree
  <2>3. \A u \in Threads : pc[u] # "appended" /\ pc'[u] # "appended"
    BY <1>4 DEF SerializeAndReset, LoggingMutexFree
  <2> QED
    BY <1>4, <2>1, <2>2, <2>3, FS_EmptySet DEF SerializeAndReset, BytesInv, CounterMatchesRoot
<1>5. ASSUME NEW t \in Threads, AddAfterSend(t)
      PROVE  BytesInv'
  <2>1. t \in Loggers /\ entry[t] \in Entries /\ append(t, entry[t])
    BY <1>5 DEF AddAfterSend, appendAfterSend
  <2>2. entry[t] \notin accepted /\ entry[t] # NoEntry
    BY <1>5, <2>1 DEF AddAfterSend, BytesInv
  <2>3. \A u \in Threads : u # t => entry[u] # entry[t]
    BY <2>2 DEF BytesInv
  <2> QED
    BY <1>5, <2>1, <2>2, <2>3, AppendBytes DEF AddAfterSend
<1>6. ASSUME NEW t \in Threads, CountEntry(t)
      PROVE  BytesInv'
  <2>1. /\ t \in Loggers /\ entry[t] \in Entries
        /\ entry' = [entry EXCEPT ![t] = NoEntry]
        /\ pc' = [pc EXCEPT ![t] = "idle"]
    BY <1>6 DEF CountEntry
  <2>2. \A u \in Threads : pc'[u] # "appended"
    BY <1>6, <2>1 DEF CountEntry
  <2>3. Bytes' = Bytes
    BY <1>6 DEF CountEntry, Bytes
  <2>4. ASSUME ~raced
        PROVE  fCurrentUserPayloadInLogRoot' = Cardinality(Bytes) /\ ~stopping
    BY <1>6, <2>1, <2>4 DEF CountEntry, BytesInv, LoggingMutexFree
  <2>5. \A u \in Threads : entry'[u] # NoEntry => entry'[u] = entry[u] /\ u # t
    BY <2>1
  <2>6. ASSUME NEW u \in Threads, entry'[u] # NoEntry
        PROVE  entry'[u] \notin accepted
    <3>1. entry'[u] = entry[u] /\ u # t
      BY <2>5, <2>6
    <3>2. pc[u] # "appended"
      BY <1>6, <3>1 DEF CountEntry
    <3> QED
      BY <2>6, <3>1, <3>2 DEF BytesInv
  <2>7. \A u, v \in Threads : entry'[u] = entry'[v] /\ entry'[u] # NoEntry => u = v
    BY <2>5 DEF BytesInv
  <2>8. fLogRoot' = fLogRoot /\ UNCHANGED <<accepted, raced, stopping>>
    BY <1>6 DEF CountEntry
  <2>9. CounterMatchesRoot'
    BY <2>3, <2>4, <2>8 DEF CounterMatchesRoot
  <2> QED
    BY <2>2, <2>3, <2>4, <2>6, <2>7, <2>8, <2>9 DEF BytesInv
<1>7. CASE Flush
  BY <1>2, <1>7 DEF Flush, BytesInv
<1>8. ASSUME NEW t \in Threads, NothingToSend(t) \/ SomethingToSend(t) \/ Sent(t)
      PROVE  BytesInv'
  BY <1>2, <1>8 DEF NothingToSend, SomethingToSend, Sent, AfterSend, BytesInv
<1>9. CASE StopClearsRoot
  <2>1. Bytes' = {} /\ fLogRoot' = {}
    BY <1>9 DEF StopClearsRoot, clearRoot, Bytes
  <2>2. LoggingMutexFree' = LoggingMutexFree
    BY <1>9 DEF StopClearsRoot, LoggingMutexFree
  <2>3. ~raced' => \A u \in Threads : pc[u] # "appended"
    BY <1>9 DEF StopClearsRoot, LoggingMutexFree
  <2>4. ~raced' => LoggingMutexFree
    BY <1>9 DEF StopClearsRoot
  <2> QED
    BY <1>9, <2>1, <2>2, <2>3, <2>4, FS_EmptySet
    DEF StopClearsRoot, BytesInv, CounterMatchesRoot
<1>10. CASE StopZeroesCounter
  <2>1. Bytes' = Bytes /\ fLogRoot' = fLogRoot /\ fCurrentUserPayloadInLogRoot' = 0
    BY <1>10 DEF StopZeroesCounter, zeroCounter, Bytes
  <2>2. ASSUME ~raced
        PROVE  Cardinality(Bytes) = 0 /\ \A u \in Threads : pc[u] # "appended"
    <3>1. fLogRoot = {} /\ LoggingMutexFree
      BY <1>10, <2>2 DEF StopZeroesCounter, BytesInv
    <3>2. Bytes = {}
      BY <3>1 DEF Bytes
    <3> QED
      BY <3>1, <3>2, FS_EmptySet DEF LoggingMutexFree
  <2>3. CounterMatchesRoot'
    BY <1>10, <2>1, <2>2 DEF StopZeroesCounter, CounterMatchesRoot
  <2> QED
    BY <1>10, <2>1, <2>2, <2>3 DEF StopZeroesCounter, BytesInv
<1>11. CASE UNCHANGED vars
  BY <1>2, <1>11 DEF vars, BytesInv
<1> QED
  BY <1>1, <1>3, <1>4, <1>5, <1>6, <1>7, <1>8, <1>9, <1>10, <1>11 DEF Next, ThreadStep

-------------------------------------------------------------------------------
(***************************************************************************)
(* The theorems.                                                           *)
(***************************************************************************)

\* IInv is inductive.
LEMMA Invariance == Spec => []IInv
<1>1. Init => IInv
  BY TypeInit, OvershootInit DEF IInv
<1>2. IInv /\ [Next]_vars => IInv'
  BY TypeStep, OvershootStep DEF IInv
<1> QED
  BY <1>1, <1>2, PTL DEF Spec

\* Every variable keeps its type.
THEOREM TypeCorrect == Spec => []TypeOK
<1>1. IInv => TypeOK
  BY DEF IInv
<1> QED
  BY <1>1, Invariance, PTL

\* However the loggers interleave, the buffer exceeds its maximum by at most
\* one entry for every logger but one.
THEOREM OvershootSafety == Spec => []OvershootBound
  BY Invariance, OvershootImplied, PTL

\* However the loggers and the worker interleave, and whenever stop resets the
\* buffer without the mutex, the counter is the size of what is in the buffer
\* whenever nobody is changing the two, unless that reset of stop overlapped
\* with an add; and then only until the next reset under the mutex
\* (RemoteProfiler.cpp:116-132, 51-58, 198).
THEOREM CounterSafety == Spec => []CounterMatchesRoot
<1>1. Init => BytesInv
  <2> SUFFICES ASSUME Init PROVE BytesInv
    OBVIOUS
  <2>1. Bytes = {}
    BY DEF Init, Bytes
  <2> QED
    BY <2>1, FS_EmptySet, LogAssumption
    DEF Init, BytesInv, CounterMatchesRoot, LoggingMutexFree, Threads
<1>2. IInv => TypeOK /\ CallInv
  BY DEF IInv
<1>3. BytesInv => CounterMatchesRoot
  BY DEF BytesInv
<1> QED
  BY <1>1, <1>2, <1>3, BytesStep, Invariance, PTL DEF Spec
===============================================================================
