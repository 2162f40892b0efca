------------------------------- MODULE LogBuffer -------------------------------
(***************************************************************************)
(* The log buffer of the RemoteProfiler: threads log, the profiler's       *)
(* worker flushes when its interval is over, and either of them sends the  *)
(* buffer out when it is full.                                             *)
(*                                                                         *)
(* loggingMutex protects the accesses of logMessage and sendLogsOut, but   *)
(* not what happens between two of them: a logger that found the buffer    *)
(* full sends it out and then adds its entry without looking again, and    *)
(* sendLogsOut reads the counter after it gave the mutex back.             *)
(*                                                                         *)
(* stop resets the buffer without the mutex.  Therefore the two places     *)
(* that add an entry are two steps, the array and then the counter, and so *)
(* is the reset of stop.  That the two race is undefined behaviour; what   *)
(* is modelled of it is any order of these accesses, each of them whole.   *)
(***************************************************************************)
EXTENDS Integers, FiniteSets

CONSTANTS
  Loggers,        \* threads that call logMessage
  Worker,         \* the thread of the profiler, which runs doWork
  Entries,        \* the log entries, each logged once
  SizeOf,         \* what an entry adds to the counter, JSON overhead included
  MaxEntrySize,   \* no entry is larger
  BelowThreshold, \* entries with a level below fLogLevelThreshold
  MAX_BYTES_FOR_SINGLE_LOG_UPLOAD,
  HasLogSender,   \* fLogSender # nullptr
  StopCalled,     \* may a thread call stop while others log
  NoEntry

Threads == Loggers \cup {Worker}

ASSUME LogAssumption ==
  /\ IsFiniteSet(Loggers) /\ Loggers # {} /\ Worker \notin Loggers
  /\ NoEntry \notin Entries
  /\ MaxEntrySize \in Nat /\ SizeOf \in [Entries -> 0..MaxEntrySize]
  /\ BelowThreshold \subseteq Entries
  /\ MAX_BYTES_FOR_SINGLE_LOG_UPLOAD \in Nat
  /\ HasLogSender \in BOOLEAN /\ StopCalled \in BOOLEAN

VARIABLES
  fLogRoot,  \* the entries in the JSON array
  fCurrentUserPayloadInLogRoot,   \* the counter of their bytes
  sum,       \* what a logger that just appended may write to the counter
  stopping,  \* is stop between the reset of the array and of the counter
  pc,        \* where a thread is in logMessage or in doWork's flush
  entry,     \* the entry a logger works for
  accepted,  \* history: the entries added to the buffer so far
  offered,   \* history: the entries handed to the sender so far
  unchecked, \* history: who added without a check since the last locked reset
  raced      \* history: did the last reset, by stop, overlap with an add

buffer == <<fLogRoot, fCurrentUserPayloadInLogRoot, sum>>
vars == <<buffer, stopping, pc, entry, accepted, offered, unchecked, raced>>

TypeOK ==
  /\ fLogRoot \subseteq Entries
  /\ fCurrentUserPayloadInLogRoot \in Nat /\ sum \in Nat
  /\ stopping \in BOOLEAN
  /\ pc \in [Threads -> {"idle", "full", "reset", "sending", "adding", "appended"}]
  /\ entry \in [Threads -> Entries \cup {NoEntry}]
  /\ accepted \subseteq Entries
  /\ offered \subseteq Entries
  /\ unchecked \subseteq Loggers
  /\ raced \in BOOLEAN

Init ==
  /\ fLogRoot = {} /\ fCurrentUserPayloadInLogRoot = 0 /\ sum = 0
  /\ stopping = FALSE /\ raced = FALSE
  /\ pc = [t \in Threads |-> "idle"]
  /\ entry = [t \in Threads |-> NoEntry]
  /\ accepted = {} /\ offered = {} /\ unchecked = {}

-------------------------------------------------------------------------------
(***************************************************************************)
(* logMessage, up to sendLogsOut.                                          *)
(***************************************************************************)

Fresh(e) == e \notin accepted /\ \A t \in Threads : entry[t] # e

\* Only the block that adds an entry lasts longer than a step.
LoggingMutexFree == \A t \in Threads : pc[t] # "appended"

\* The logger appends, under the mutex, and is about to count: with the value of
\* the counter from now, or from when it writes it.
append(t, e) ==
  /\ fLogRoot' = fLogRoot \cup {e}
  /\ sum' = fCurrentUserPayloadInLogRoot + SizeOf[e]
  /\ accepted' = accepted \cup {e}
  /\ pc' = [pc EXCEPT ![t] = "appended"]
  /\ raced' = (raced \/ stopping)
  /\ UNCHANGED fCurrentUserPayloadInLogRoot

\* Mutant: only the bytes already there are compared with the maximum.
FitsIgnoringEntry(e) ==
  fCurrentUserPayloadInLogRoot <= MAX_BYTES_FOR_SINGLE_LOG_UPLOAD

Fits(e) ==
  SizeOf[e] + fCurrentUserPayloadInLogRoot <= MAX_BYTES_FOR_SINGLE_LOG_UPLOAD

\* An entry below the threshold is ignored; nothing changes, so no action.
LogFits(t, e) ==
  /\ pc[t] = "idle" /\ Fresh(e) /\ e \notin BelowThreshold
  /\ LoggingMutexFree /\ Fits(e)
  /\ append(t, e)
  /\ entry' = [entry EXCEPT ![t] = e]
  /\ UNCHANGED <<stopping, offered, unchecked>>

LogFull(t, e) ==
  /\ pc[t] = "idle" /\ Fresh(e) /\ e \notin BelowThreshold
  /\ LoggingMutexFree /\ ~Fits(e)
  /\ entry' = [entry EXCEPT ![t] = e]
  /\ pc' = [pc EXCEPT ![t] = "full"]
  /\ UNCHANGED <<buffer, stopping, accepted, offered, unchecked, raced>>

\* The second half of each block that adds: the counter, read before or after a
\* reset of it by stop, and the end of the block.
CountEntry(t) ==
  /\ pc[t] = "appended"
  /\ fCurrentUserPayloadInLogRoot' \in
       {sum, fCurrentUserPayloadInLogRoot + SizeOf[entry[t]]}
  /\ sum' = 0
  /\ entry' = [entry EXCEPT ![t] = NoEntry]
  /\ pc' = [pc EXCEPT ![t] = "idle"]
  /\ UNCHANGED <<fLogRoot, stopping, accepted, offered, unchecked, raced>>

\* The worker's interval is over, or it is told to stop: it calls sendLogsOut.
\* stop resets the buffer when the worker is gone; start waits for stop.
Flush ==
  /\ pc[Worker] = "idle" /\ ~stopping
  /\ pc' = [pc EXCEPT ![Worker] = "full"]
  /\ UNCHANGED <<buffer, stopping, entry, accepted, offered, unchecked, raced>>

-------------------------------------------------------------------------------
(***************************************************************************)
(* sendLogsOut, and the rest of logMessage.                                *)
(***************************************************************************)

clearRoot == fLogRoot' = {}

\* Mutant: the counter is not reset with the array.
initLogStructureKeepsCounter ==
  /\ clearRoot
  /\ UNCHANGED fCurrentUserPayloadInLogRoot

\* Mutant: the maximum is taken off the counter.
initLogStructureSubtracts ==
  /\ clearRoot
  /\ fCurrentUserPayloadInLogRoot' =
       fCurrentUserPayloadInLogRoot - MAX_BYTES_FOR_SINGLE_LOG_UPLOAD

zeroCounter == fCurrentUserPayloadInLogRoot' = 0

initLogStructure == clearRoot /\ zeroCounter

\* The block under loggingMutex.
SerializeAndReset(t) ==
  /\ pc[t] = "full" /\ LoggingMutexFree
  /\ initLogStructure
  /\ unchecked' = {} /\ raced' = FALSE
  /\ pc' = [pc EXCEPT ![t] = "reset"]
  /\ UNCHANGED <<sum, stopping, entry, accepted, offered>>

AfterSend(t) == IF t = Worker THEN "idle" ELSE "adding"

\* The counter is read again without the mutex, after the reset: it is only
\* above zero when another thread logged in between.
NothingToSend(t) ==
  /\ pc[t] = "reset"
  /\ ~HasLogSender \/ fCurrentUserPayloadInLogRoot = 0
  /\ pc' = [pc EXCEPT ![t] = AfterSend(t)]
  /\ UNCHANGED <<buffer, stopping, entry, accepted, offered, unchecked, raced>>

SomethingToSend(t) ==
  /\ pc[t] = "reset"
  /\ HasLogSender /\ fCurrentUserPayloadInLogRoot > 0
  /\ pc' = [pc EXCEPT ![t] = "sending"]
  /\ UNCHANGED <<buffer, stopping, entry, accepted, offered, unchecked, raced>>

\* The block under the mutex writes the JSON text to a variable of its own that
\* is named output too; the output that is sent was never assigned.
output == {}

\* send returns; an error is logged and forgotten.
Sent(t) ==
  /\ pc[t] = "sending"
  /\ offered' = offered \cup output
  /\ pc' = [pc EXCEPT ![t] = AfterSend(t)]
  /\ UNCHANGED <<buffer, stopping, entry, accepted, unchecked, raced>>

\* Mutant: the entry that did not fit is dropped.
appendAfterSendDrops(t, e) ==
  /\ pc' = [pc EXCEPT ![t] = "appended"]
  /\ UNCHANGED <<buffer, accepted, raced>>

appendAfterSend(t, e) == append(t, e)

\* The second critical section of logMessage, without a second check.
AddAfterSend(t) ==
  /\ pc[t] = "adding" /\ LoggingMutexFree
  /\ appendAfterSend(t, entry[t])
  /\ unchecked' = unchecked \cup {t}
  /\ UNCHANGED <<stopping, entry, offered>>

-------------------------------------------------------------------------------
(***************************************************************************)
(* stop, once the worker ended: initLogStructure without loggingMutex.     *)
(***************************************************************************)

StopClearsRoot ==
  /\ StopCalled /\ pc[Worker] = "idle" /\ ~stopping
  /\ stopping' = TRUE
  /\ clearRoot
  /\ raced' = ~LoggingMutexFree
  /\ UNCHANGED <<fCurrentUserPayloadInLogRoot, sum, pc, entry, accepted, offered, unchecked>>

StopZeroesCounter ==
  /\ stopping
  /\ stopping' = FALSE
  /\ zeroCounter
  /\ UNCHANGED <<fLogRoot, sum, pc, entry, accepted, offered, unchecked, raced>>

-------------------------------------------------------------------------------
ThreadStep(t) ==
  \/ CountEntry(t)
  \/ SerializeAndReset(t)
  \/ NothingToSend(t)
  \/ SomethingToSend(t)
  \/ Sent(t)
  \/ AddAfterSend(t)

Next ==
  \/ \E t \in Loggers, e \in Entries : LogFits(t, e) \/ LogFull(t, e)
  \/ Flush
  \/ \E t \in Threads : ThreadStep(t)
  \/ StopClearsRoot
  \/ StopZeroesCounter

Spec == Init /\ [][Next]_vars

\* A thread inside a call goes on; send always returns (ISender.h:71).  The mutex
\* needs no strong fairness, for the entries are finitely many.
FairSpec == Spec /\ \A t \in Threads : WF_vars(ThreadStep(t))

-------------------------------------------------------------------------------
(***************************************************************************)
(* Properties.                                                             *)
(***************************************************************************)

\* The bytes of the entries in the buffer.
Bytes == UNION {{e} \X (1..SizeOf[e]) : e \in fLogRoot}

\* Whenever no reset and no add is going on, the counter is the size of the
\* entries in the buffer, although many threads change the two, unless the last
\* reset was that of stop and overlapped with an add (RemoteProfiler.cpp:198).
\* The next locked reset puts this right again.
CounterMatchesRoot ==
  LoggingMutexFree /\ ~stopping /\ ~raced =>
    fCurrentUserPayloadInLogRoot = Cardinality(Bytes)

\* The loggers that have reset the buffer and have yet to add their entry.
Pending == {t \in Loggers : pc[t] \in {"reset", "sending", "adding"}}

FullBuffer ==
  IF MaxEntrySize > MAX_BYTES_FOR_SINGLE_LOG_UPLOAD
  THEN MaxEntrySize ELSE MAX_BYTES_FOR_SINGLE_LOG_UPLOAD

\* The adds without a check exceed the maximum by at most one entry for every
\* other logger (RemoteProfiler.cpp:126-134).
OvershootBound ==
  fCurrentUserPayloadInLogRoot
    <= FullBuffer + (Cardinality(Loggers) - 1) * MaxEntrySize

\* An entry that found the buffer full is added in the end.
FullEntryAdded ==
  \A t \in Loggers, e \in Entries : entry[t] = e ~> e \in accepted

\* A logger inside logMessage has an entry to add; the worker has none.  One
\* logger at a time is in a block that adds, and it counts no less than it read.
CallInv ==
  /\ \A t \in Loggers : pc[t] # "idle" => entry[t] \in Entries
  /\ pc[Worker] \notin {"adding", "appended"}
  /\ \A t, u \in Threads : pc[t] = "appended" /\ pc[u] = "appended" => t = u
  /\ \A t \in Threads : pc[t] = "appended" =>
       fCurrentUserPayloadInLogRoot + SizeOf[entry[t]] <= sum

\* Why CounterMatchesRoot holds: nobody adds an entry that is in the buffer, and
\* without a race what is not yet counted is the entry just appended.
BytesInv ==
  /\ fLogRoot \subseteq accepted
  /\ \A t \in Threads :
       entry[t] # NoEntry /\ pc[t] # "appended" => entry[t] \notin accepted
  /\ \A t, u \in Threads : entry[t] = entry[u] /\ entry[t] # NoEntry => t = u
  /\ IsFiniteSet(Bytes)
  /\ CounterMatchesRoot
  /\ ~raced =>
       /\ stopping => LoggingMutexFree /\ fLogRoot = {}
       /\ \A t \in Threads : pc[t] = "appended" =>
            /\ sum = Cardinality(Bytes)
            /\ fCurrentUserPayloadInLogRoot + SizeOf[entry[t]] = sum

\* The counter as it is at most when the add going on is over.
Counted == IF LoggingMutexFree THEN fCurrentUserPayloadInLogRoot ELSE sum

\* Why OvershootBound holds.  Since the last locked reset each logger added at
\* most once without a check; and if all of them did or will, nobody filled the
\* buffer before the first of them added.
OvershootInv ==
  /\ unchecked \cap Pending = {}
  /\ Counted
       <= MAX_BYTES_FOR_SINGLE_LOG_UPLOAD + Cardinality(unchecked) * MaxEntrySize
  /\ Loggers = unchecked \cup Pending =>
       IF unchecked = {}
       THEN Counted = 0
       ELSE Counted <= FullBuffer + (Cardinality(unchecked) - 1) * MaxEntrySize

-------------------------------------------------------------------------------
(***************************************************************************)
(* What the documentation says and the code does not do.                   *)
(***************************************************************************)

\* RemoteProfiler.h:70: logMessage "Packs the log string into a json and
\* uploads to the cloud if necessary".  So an entry that left the buffer was
\* handed to the sender, once sendLogsOut is through.
LogsUploaded ==
  HasLogSender /\ (\A t \in Threads : pc[t] \notin {"reset", "sending"}) =>
    accepted \subseteq fLogRoot \cup offered
===============================================================================
