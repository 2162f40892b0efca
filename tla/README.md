# Verification of the FleetWise Greengrass demo

This directory holds TLA+ models of the repository's own programs, the TLC
configurations that check them and TLAPS proofs about them. Most of them are
about the C++ code under
`src/repo-fwe-ggv2-seed/src/offboardconnectivity`, which replaces the MQTT
connectivity of the AWS IoT FleetWise edge agent by Greengrass IPC: it is the
part with threads, waits and failures. Two are about scripts that change shared
cloud state in several steps and are run again when they fail. The rest of the
repository is CDK stacks, build scripts and assets.

Run from this directory:

    tlasany Connectivity.tla
    tlc -workers 2 -config Connectivity.cfg MCConnectivity.tla
    tlapm ConnectivityProofs.tla

## 1. Inventory

| component | code | state | operations | what is hard |
|---|---|---|---|---|
| AwsIotConnectivityModule | `awsiotcpp/src/AwsIotConnectivityModule.cpp`, its header | `mConnected`, `mChannels`, the IPC client, one event loop thread | createNewChannel, connect, isAlive, getConnection, disconnect (does nothing), destructor | lost connections are not seen; the destructor races with senders |
| AwsIotChannel | `AwsIotChannel.cpp`, its header | pointer to the module, topic, the subscription, `mConnectivityMutex` | setTopic, subscribe, send, unsubscribe, isAlive, invalidateConnection, the stream callback | waits for the nucleus with the mutex held; late answers; callbacks on the event loop thread |
| Connectivity API | `ISender.h`, `IReceiver.h`, `IConnectionTypes.h` | none | send, onDataReceived | what its callers may rely on |
| PayloadManager | `PayloadManager.cpp`, its header | a file of records, kept by CacheAndPersist | storeData, retrieveData | torn writes; headers that are believed |
| RemoteProfiler, logs | `RemoteProfiler.cpp`, its header | `fLogRoot`, `fCurrentUserPayloadInLogRoot`, `loggingMutex` | logMessage, sendLogsOut, initLogStructure | what happens between two critical sections; sending logs logs |
| RemoteProfiler, metrics and worker | the same | `fMetricsRoot`, `fCurrentMetricsPending`, `fShouldStop`, intervals, the thread | start, stop, doWork, setMetric, sendMetricsOut | stop against start and the worker; boundaries of intervals and batches |
| Component publisher | `tools/ggv2-component/build_component_version.py` | versions, the bucket | generate, upload, register | two builds at once, partial failure |
| Provisioning | `repo-agl-seed/gg-env-setup.sh` | cloud resources, certificate files | create, attach | a second run after a failed one |
| Simulator bootstrap | `vehicle_ec2_sim.py` (user data) | the machine | wait, upgrade, reboot, signal | reboot loop, errors before the trap |
| CDK stacks, installers, Grafana | the remaining files | none of their own | | |

How they interact. The bootstrap thread of the agent creates one module, its
channels, sets their topics, connects and subscribes. The channels are handed
out as `ISender` and `IReceiver` to threads that live as long as they like; both
they and the module share the ownership. A channel calls back into the module
(`isAlive`, `getConnection`) through a plain pointer that the module's
destructor clears. When a channel is offline it hands a payload to its
PayloadManager. The RemoteProfiler uses two channels as senders and is itself
called by any thread that logs, also by the channels. The SDK's event loop thread
resolves every future and runs the listeners. The publisher and the provisioning
script share nothing with the agent; the first makes the component that contains
it, the second the device it runs on.

What makes each component correct:

- module and channel: no use of a destroyed module; an answer of `send` or
  `subscribe` that is true; nothing both stored and published; every call ends;
  the channels of `setTopic(.., true)` are subscribed by `connect`;
- PayloadManager: what was stored whole comes back whole and in order, whatever
  a crash left behind it; the parse loop ends;
- RemoteProfiler, logs: the counter agrees with the buffer, the buffer stays near
  its maximum, no entry is lost on its way into it, no thread waits for itself;
- RemoteProfiler, worker: stop returns, is not taken back, and makes the worker
  upload once more; no metric is lost between two batches; no upload is forgotten;
- publisher: versions without gap or duplicate, each with the artifact its recipe
  names, and its own one;
- provisioning: a run without a failure leaves a complete device; nothing is left
  over.

`PROJECT.json` lists the hazards line by line, with the properties that cover
them or a note why none does.

## 2. Modules

| module | models | used by |
|---|---|---|
| `Uplink` | what `ISender::send` promises, as an abstract specification | `Connectivity` (`ImplementsUplink`) |
| `Connectivity` | the module, its channels, the threads, the event loop, the nucleus | `MCConnectivity`, `ConnectivityProofs` |
| `PayloadStore` | the file of stored payloads, its writer and its reader | `MCPayloadStore`, `PayloadStoreProofs` |
| `LogBuffer` | the log half of RemoteProfiler | `MCLogBuffer`, `LogBufferProofs`, `LogForwarding` |
| `LogForwarding` | `LogBuffer` composed with the channel it sends on and the messages logged meanwhile | `MCLogForwarding`, `LogForwardingProofs` |
| `ProfilerWorker` | start, stop, the worker, the metrics batches | `MCProfilerWorker`, `ProfilerWorkerProofs` |
| `ComponentVersion` | build_component_version.py, by several builds | `MCComponentVersion`, `ComponentVersionProofs` |
| `GreengrassProvisioning` | gg-env-setup.sh, by several runs | `MCGreengrassProvisioning`, `GreengrassProvisioningProofs` |
| `MC...` | values of the constants for TLC | the `.cfg` files |

### Connectivity

Variables with the names of members stand for these members. `boot` is where the
bootstrap thread is in the life of the module, `loop` what is left of a range-for
over `mChannels`. `pc` is where a thread is inside a call: `entry` means it waits
for `mConnectivityMutex`; `checked` that it holds the mutex and passed
`isAliveNotThreadSafe`; `activating` that it waits for the future of `Activate`;
`awaiting` that it is in `wait_for`. The same with `sub` for `subscribe`. `op`,
`streams` and `ipc` are the state of the SDK and the nucleus, which are modelled
from how this code uses them.

`streams[c]` has the subscribe operations of a channel in the order of their
creation, each in its own state: created, requested, open, ended or failed. The
last one is the channel's `mSubscribeOperation`; a further `subscribe` replaces it
before it knows whether its own request succeeds (`AwsIotChannel.cpp:89-93`), so a
failed retry costs the channel the stream it had. The nucleus may answer any
operation at any time, also one that `subscribe` gave up waiting for or replaced.
That a replaced operation, which is destroyed, hands over neither a result nor
events is an assumption about the SDK; a loss of the connection ends the open
streams and fails the requests under way (`BreakStreams`).

| code | actions |
|---|---|
| `connect` | `Connect`, then `ConnectFailed` or `Connected`, `SubscribeNext` for each channel, `ConnectReturns` |
| `send` | `CallSend`, then `SendRefused`, `SendOffline` or `SendChecked`, `SendActivate`, `SendActivated` or `SendActivateFailed`, `SendAwaited` |
| `subscribe` | `CallSubscribe` or `SubscribeNext`, then `SubscribeRefused` or `SubscribeChecked`, `SubscribeActivate`, `SubscribeActivated` or `SubscribeActivateFailed`, `SubscribeAwaited` |
| `setTopic`, `createNewChannel` | `setTopic`, `CreateNewChannel` |
| destructor | `StartDestructor`, `InvalidateConnection` for each channel, `EndDestructor` |
| stream handler with its listeners, lifecycle handler | `OnStreamEvent` with `onDataReceived`, `Disconnect` |

Where the lock is taken and given back with nothing in between that another
thread could disturb (the refusals, the offline path), the call is one step.
`mConnectivityLambdaMutex` is only ever taken inside `mConnectivityMutex`, so it
excludes nobody and is left out. `OnDisconnectCallback` prints a line, so
`Disconnect` changes `ipc` and nothing the code can see. `unsubscribe` has no
action: `mSubscribed` is set nowhere, so it returns false and changes nothing.

The payloads are model values, each sent once. A payload is persistent or not,
and sendable or not; its bytes do not matter. `AWS_IOT_MAX_MESSAGE_SIZE` and the
empty buffer are the set `Unsendable`.

### Uplink

Three variables: what the caller was told, what the nucleus took, what is on
disk. `Connectivity` implements it with `ret`, the payloads whose operation is
published, and the payloads that were persisted. A published payload may have
been answered with NoConnection (the ten seconds were over); a stored one may
not be published.

### PayloadStore

A file is a sequence of cells, byte `k` of the image of record `r`. `StoreData`
appends an image, `StoreDataTorn` a proper prefix of one; both are a `Write`.
`history` is a history variable: the record of each write that left something,
whether it is whole, and where in the file it ends. `retrieveData` is
`GetSize`, `Read`, `ParseRecord` for each turn of the loop, and `EndOfBuffer`;
stores may come in between, for the file has no lock. When the cells at the
reader's place are the header of a record, the header is that record's; else it is
any flag with any size up to `MaxGarbage`, which covers what `memcpy` may yield
from other bytes and from behind the buffer. CacheAndPersist and snappy are not
in this repository: a write may fail or tear, a read may fail, and bytes that
are no compressed payload may or may not uncompress.

### LogBuffer

A thread's step is one critical section of `loggingMutex`, or the unlocked read
of the counter in `sendLogsOut`, or the return of `send`. `pc` is `full` before
`sendLogsOut` takes the mutex, `reset` after it gave it back, `sending` in
`send`, and `adding` before the second critical section of `logMessage`.

`stop` resets the buffer as well, and takes no lock (`RemoteProfiler.cpp:198`). So
its reset is two steps, `StopClearsRoot` and `StopZeroesCounter`, and so are the
two blocks that add an entry: the append (`LogFits`, `AddAfterSend`; `pc` is
`appended`) and `CountEntry`, which writes either the `sum` it read before a reset
or what the counter is now plus the entry. `raced` remembers that the last reset
was one of `stop` and overlapped with an add. The worker has ended when `stop`
resets, and a `start` that makes another one waits for `stop`, so the worker does
not flush in between; a logger that found the buffer full may. `StopCalled` says
whether the profiler is ever stopped.

An entry of size `n` is `n` numbered bytes (`Bytes`), so that what the counter should be is
the size of a set. The constant `output` is the empty set: the outer `output` of
`sendLogsOut` is never assigned. `accepted`, `offered`, `unchecked` and `raced` are
history variables. The worker's `Flush` may come at any time but during the reset
of `stop`, which is more than the intervals allow. An entry below the threshold
changes nothing.

### LogForwarding

RemoteProfiler is an `ILogger`: the logging module hands it every message of the
agent, and so the messages of `AwsIotChannel::send` and of `sendLogsOut` while
they send the logs (the comment at `RemoteProfiler.cpp:81` knows of this). The
loggers of `LogBuffer` are here the frames `<<thread, depth>>`; a message that
frame `f` logs is a call of `logMessage` by frame `Nested(f)`, and a frame goes on
only when no frame above it is busy (`Innermost`). Because the text that is sent
is always empty, `send` is `Lock`, `Warn` ("No valid data provided"), `Unlock`
with WrongInputData, and `sendLogsOut` then `Report`s the error. The mutex is
owned by a thread, so a thread that owns it and locks it again waits for itself.
`StopLogs` is a step of `stop`'s reset of the buffer.
`WarnForwarded` says whether warnings reach the buffer. When the frames or entries
are used up a message is ignored; that is the bound.

### ProfilerWorker

| code | actions |
|---|---|
| `start` | `CallStart`, `Start` |
| `stop`, the destructor | `CallStop` (the unlocked check), `StopRequest`, `StopNotify`, `StopFinish` |
| `doWork` | `WorkerHead`, `WorkerWaits`, `WorkerWakes`, `MetricsDue`, `setMetric` for each metric, `sendMetricsOut`, `LogsDue` |
| the clock | `Tick` |

`fShouldStop` is read three times in a turn of the loop, and so in three actions.
`Thread` and `Signal` are of the platform library: `release` joins, and
`WaitWithPredicate` keeps a notification for the next wait. `start` may be called
while no worker runs or while a stop holds the mutex; calling it twice in a row
would create a second thread in the same `Thread`, which the library's contract
and not this code excludes. `made` counts the metrics of a round, `unsent` those
set and neither sent nor in the root, `owed` the uploads that a worker has ahead
of it when a stop is requested. An upload of the logs is here the call of
`sendLogsOut`, and what that does is in `LogBuffer`; so is the reset of the logs
by `stop`. A metrics sender is assumed, for without it
`start` returns. The worker is at most `Slack` ticks late.

### ComponentVersion

A build is where it stands in the loop of the script (`pc`), with the components
it has yet to do. `registered` and `bucket` hold who put what there. Only the
micro number of a version ever changes, so a version is a number. A path of the
bucket is a sequence of levels. The script uploads under `Key`, which has the first
level of the path in `s3_path` (`build_component_version.py:95`); the recipe names
its artifact by `URI`, which has all of it (`recipe-template.yml:90`). `PathOf` gives
each build its path; one without a level raises. `Following` is the order of the
calls in the loop. Every call may
raise, and a build may be killed: `Raise` ends it at any place and takes nothing
back. Builds have checkouts of their own (`buildspec.yml`), so the recipe is per
build. `overlapped` is a history variable.

### GreengrassProvisioning

`step` is the next command of the script in the checkout where it runs. The
account (`objects`, `links`) is shared; the files belong to a checkout. The script
has no `set -e`: a command that fails is only a message, and the next one is run
with what there is, an empty `CERTIFICATE_ARN` included. A service call that
fails may have had its effect or not for the certificate, whose answer may be
lost. `Kill` ends the script anywhere. `disturbed` remembers the checkouts in
which a command failed or the script was killed. What the policies allow is left
out.

## 3. Runs

Passing runs:

| run | instance | shows |
|---|---|---|
| `connectivity` | 1 worker, and the event loop as the second sender; 2 channels, 2 payloads (one persistent), 1 event per channel, 1 subscribe per channel by Boot, unless connect subscribes it first | types; `SuccessOnlyIfPublished`; `NeverStoredAndPublished`; `AsyncChannelsSubscribed`; `ModuleOutlivesUse`; `ImplementsUplink` |
| `connectivity_live` | 2 workers, 1 channel, 2 subscribes of it, that of connect included, 3 payloads (one persistent, one too long), listeners that do not send | `SubscribeReportsStream`; `SendReturns`; `DestructorCompletes`; `ConnectEnds` |
| `payload_store` | 3 records of 3 to 4 bytes, headers of 2, any write torn, found sizes up to 9, so that a size may exceed what any file holds behind a header | types; `RetrievesIntactFront`; `ExactWithoutTears`; `ParseBound`; `RetrieveEnds` |
| `log_buffer` | 2 loggers, the worker and stop, 5 entries of 1 and 2 bytes for a buffer of 2, one more below the threshold | types; `CounterMatchesRoot`; `OvershootBound`; `FullEntryAdded` |
| `profiler` | 2 callers, 2 starts, intervals 0, 1 and 2 in every combination, batches of 1, 3 metrics a round, a delay of 1, 9 ticks | types; `StopReturns`; `StopNotTakenBack`; `FinalUpload`; `NoMetricLost`; `BatchBound`; `TimelyUpload` |
| `log_forwarding` | a thread with 3 frames, the worker with 3, 5 entries for a buffer of 2 bytes, errors forwarded | types; `SendUnderMutex`; `LogReturns` |
| `component_version` | 3 builds, 2 components in different orders, one of them known under AWS's name; paths of one level and of two | types; `VersionsConsecutive`; `RegisteredHasArtifact`; `SerialArtifacts` |
| `provisioning` | 2 checkouts, 3 runs, 3 certificates (symmetric) | types; `CompleteUnlessDisturbed`; `InGroupUnlessDisturbed`; `NoOrphanCertificate`; `NeverRepaired` |

Why these bounds. Two senders and two payloads on one channel are what it takes
to wait for a mutex; a second channel lets the destructor be between two of them.
`MaxSubscribes` counts the subscribe of `connect` too, so with two channels a
subscribe is repeated only if Boot called one before `connect`, which is refused;
`connectivity_live` has the retries, on one channel: two operations are one that is
replaced and one that replaces it. One event is enough for a listener to send. Three
records give a whole one, a torn one and one behind it. Two loggers can both find the buffer full; five entries let them fill it,
overflow it and fill it again, with a stop at any place. Two callers can stop at
the same time, or one start while the other stops; two starts give a second worker that meets the counter and
the timers of the first; three metrics overrun a batch of one twice. The bound of
`TimelyUpload` is at most seven ticks for these intervals and this delay, and it is
reached; the clock goes to nine, so that an upload could be later than that. Three
frames are a message inside a send inside a send. Of three builds one may fail, one
overlap it and one follow, and the third has the deeper path; three runs use one checkout twice and another one in between. The bounds besides the sets are
`MaxReceived`, `MaxSubscribes`, `MaxGarbage`, `MaxMetrics`, `MaxStarts`, `MaxTime`
and `MaxRuns`. `CHECK_DEADLOCK FALSE` is said where the program really ends: the
module is gone and every payload sent; nobody needs to stop a profiler; the
entries are used up; the builds are over; the runs are over. The symmetry of
`provisioning` is sound: no definition chooses a certificate, and no liveness is
checked.

Runs that show where the code does something else than its documentation says:

| run | the documentation | the code |
|---|---|---|
| `connectivity_persist` | `ISender.h:38`, persist is for "connection loss" | a payload whose request cannot be written is not stored (`AwsIotChannel.cpp:205`) |
| `connectivity_callback` | `ISender.h:71`, send returns fast and from any thread | from a listener it waits for its own thread (`AwsIotChannel.cpp:204`) |
| `log_buffer_upload` | `RemoteProfiler.h:70`, logs are uploaded | an empty text is, if anything (`RemoteProfiler.cpp:85`) |
| `log_forwarding_deadlock` | `RemoteProfiler.h:71`, logMessage is for many threads | a warning under `mConnectivityMutex` may send again (`AwsIotChannel.cpp:165`) |

`SendReturns` holds in `connectivity_live` and fails in `connectivity_callback`;
the difference is only whether a listener may send. `IReceiver.h:40` asks that
`onDataReceived` be fast, and does not forbid to send. `LogReturns` holds in
`log_forwarding` and fails in `log_forwarding_deadlock`; the difference is
`WarnForwarded` (and that the failing run has no `stop`, which would only lengthen
its trace). The error that `sendLogsOut` reports is forwarded in both, and
harmless, because it is logged when the mutex is free again.

Every property of a passing run has a mutant in `PROJECT.json`: an operator next
to the definition it changes, marked "Mutant", under which TLC finds the property
violated.

Seen while modelling, and not worth a run each:

- `unsubscribe` never does anything (`AwsIotChannel.cpp:262`), whatever
  `AwsIotChannel.h:116` says; `connect` discards `asynchronous`
  (`AwsIotConnectivityModule.h:74`); nothing connects again after a disconnect
  (`IConnectionTypes.h:32`).
- `retrieveData` returns INVALID_DATA too, which `PayloadManager.h:78` does not name.
- `OvershootBound` is tight: two loggers fill the buffer beyond
  `MAX_BYTES_FOR_SINGLE_LOG_UPLOAD` (`RemoteProfiler.cpp:131`).
- A batch of metrics is `MAX_PARALLEL_METRICS + 1` (`RemoteProfiler.cpp:140`).
  `BatchBound` accepts this one and would catch a second one; the constant is not
  commented, so that there is nothing in words that the code contradicts.
- The comparisons of `doWork` are strict, so a worker that wakes up exactly when an
  interval is over waits once more: `initialLogMaxInterval` is called "the max
  interval that logs can be cached before uploading" (`RemoteProfiler.h:54`) and is
  no maximum. `TimelyUpload` is about the metrics, whose interval is not called one,
  and nothing weaker than the documentation is stated of the logs. With one interval
  zero, each wake-up uploads that half too.
- A `stop` whose reset overlaps with an add leaves the counter apart from the buffer
  (`RemoteProfiler.cpp:198`): too low, so that the buffer grows beyond its maximum, or
  too high, so that it is found full early. `CounterMatchesRoot` says that nothing else
  does, and that the next reset under the mutex puts it right.
- The key of an artifact has only the first level of the path in `s3_path`
  (`build_component_version.py:95`), while the recipe's URI has all of it
  (`recipe-template.yml:90`). `RegisteredHasArtifact` states both sides: the artifact
  is where the recipe names it exactly if the path has one level, as in the pipeline
  (`fwe_ggv2_stack.py:103`).
- A failed retry of `subscribe` costs the channel an open stream, for the earlier
  operation is replaced first (`AwsIotChannel.cpp:93`).
- The second `create-policy` of the provisioning script is given
  `thing-policy.json` and not the document written for it
  (`gg-env-setup.sh:125`, `130`), so the role alias policy does not allow
  `AssumeRoleWithCertificate`.
- Builds that overlap may replace each other's artifact: `SerialArtifacts` needs
  its premise.
- The premises of the properties of `provisioning` are the failures the script does
  nothing about. `CompleteUnlessDisturbed` is of a checkout in which nothing failed;
  `InGroupUnlessDisturbed` leaves out a failed `add-thing-to-thing-group` and a
  group whose name `grep` finds in a longer one; `NoOrphanCertificate` leaves out a
  lost answer to `create-keys-and-certificate`. What a failure leaves behind is the
  subject of `NeverRepaired`: nothing completes it, whatever runs after it.

## 4. Fairness

`Connectivity`: a thread inside `send`, and the bootstrap thread inside a call,
goes on (weak fairness). This rests on the operating system and on two facts:
the SDK resolves the future of `Activate` while its loop thread is free, with an
error if the connection is lost; and `wait_for` ends after ten seconds
(`AwsIotChannel.cpp:109`, `218`). Nothing is assumed of the nucleus, of the
network, of the arrival of data, or of calls not yet made. A mutex that is free
again and again is obtained in the end because payloads and subscribes are
finitely many; `std::mutex` promises no more, and no strong fairness is assumed. So
`DestructorCompletes` says nothing of threads that send for ever. `ConnectEnds`
says that connect returns, which a connect that fails because the nucleus is not up
yet does as well.

`LogBuffer`: a thread inside a call goes on, but for `stop`, of which nothing is
assumed. The mutex is obtained in the end because the entries are finitely many. `send` is taken to return, which is
what `SendReturns` shows for a thread that is no listener. `LogForwarding`: the
same for each frame; a frame that waits for a mutex is not able to go on.

`ProfilerWorker`: the worker goes on when it can, and so does a caller inside
`start` or `stop`. Time may stand still: a stop does not rely on a timeout.
`WorkerStep` includes the choice of how many metrics there are, which are at most
`MaxMetrics`.

`PayloadStore`: `retrieveData`, once begun, goes on; it waits for nobody.

The two scripts have no fairness, for they may be killed at any time.

## 5. Proofs

All theorems are `Spec => []P`, or an implementation, for every value of the
constants that satisfies the named assumptions (`ProcsDistinct`,
`MessagesAssumption`, `ConfigAssumption`, `PayloadStoreAssumption`,
`LogAssumption`, `WorkerAssumption`, `ForwardAssumption`, `VersionAssumption`,
`ProvisioningAssumption`). Each states what kind of value a constant is, or that
the names of two kinds of things differ, and TLC evaluates it in every run. Each
stored payload has a byte at least, for `send` refuses an empty one
(`AwsIotChannel.cpp:163`) and snappy writes its length.

Every safety property and every action property that a passing run checks is a
theorem. `NeverRepaired` and `Refinement` are about steps, the others about states.

`ConnectivityProofs`: `TypeCorrect`, `ModuleSafety`, `SuccessSafety`,
`StoreSafety`, `SubscribeSafety`, `AsyncSafety`, `Refinement`.
`SubscribeReportsStream` is inductive together with the types and `SubInv`: outside
`subscribe` the bootstrap thread has no channel in hand. Only the call that is under
way adds an operation, so the last one is that of the last call until the next; and
an operation that was opened stays opened or ended, whatever is lost later. `AsyncSafety` adds
`AsyncInv`: a channel that asked for it has been subscribed, is being subscribed
or is ahead of the loop. None of the others is inductive. `IInv` adds what they
rest on:

- `CallInv`: a thread inside `send` works for a payload of its own, in a channel
  that exists, whose operation is as far as the thread is, and which nobody has
  stored or answered;
- `LockInv`: past the alive check a thread owns the channel's mutex, and the channel
  has its module. A channel loses its module only when its mutex is free;
- `DestructorInv`: a created channel that still has its module is one the
  destructor's loop has yet to visit, so the loop is not over and the module is
  not gone. With `LockInv` this gives `ModuleOutlivesUse`;
- `PayloadInv`: a stored payload was never tried; a success was published.

There is a lemma for each conjunct, by the actions of `Next`. `Refinement` maps
each step of a thread inside `send` to a step of `Uplink` or a stutter
(`UplinkSend`), every other step but the nucleus' own to a stutter.

`PayloadStoreProofs`: `StoreTypeCorrect`, `FrontSafety`, `ExactSafety`,
`BoundSafety`, for any payloads of any sizes, torn anywhere. Three invariants
carry the first three: the ends of the writes rise, the last one is the end of the
file, and between the ends of a whole write and of the one before it is the image
of its record (`FileInv`); the size that was asked for is such an end, and the
buffer the file up to it, whatever is stored meanwhile (`BufferInv`); and the
reader is `Aligned`, at the end of a write with all before it whole and parsed,
until it meets a torn one and has the front by then (`ParseInv`). The step that
needs work is a turn of the loop at a whole record: exactly one record has the
header that is found, and the bytes behind it are those stored for no other.
`BoundSafety` needs only the types: a record's data is cut off at the end of the
buffer, so that only a header can reach behind it. Together with the number of
payloads it bounds the turns of the loop; that the loop is gone through at all is
`RetrieveEnds`.

`LogBufferProofs`: `TypeCorrect`, `CounterSafety` and `OvershootSafety`, for any
number of loggers and any sizes. `CounterSafety` rests on `BytesInv`: the entries
in the buffer are finitely many, and an entry that is yet to be added is not among
them, so that its bytes add to theirs. Without a race, what is not counted yet is
the one entry just appended, and while `stop` is between its two steps the buffer is
empty and nobody adds. After a race the theorem says nothing until the next locked
reset. `OvershootSafety` holds after a race
too, for a reset of `stop` only ever makes the counter smaller; `Counted` is the
counter as it is at most when the add under way is over. The proof counts the loggers that
added without a check since the last reset: no logger can do it twice without a
reset of its own. That would allow one entry for each logger over the maximum.
The third conjunct of `OvershootInv` saves one: if every logger added or will add
without a check, then each of them has reset the buffer and nobody filled it
before the first add, so that one of the entries found it empty.

`LogForwardingProofs`: `ForwardingImplementsLogBuffer` shows that each step of a
frame is a step of `LogBuffer` or a stutter, so `ForwardingOvershoot` and
`ForwardingCounter` follow for nested calls without a new argument.
A stop of the profiler is the same step in both. `ForwardingTypeCorrect` adds the types of the frames and the mutex to those of the
buffer. `SendSafety` is `SendUnderMutex`, which is
inductive with the types: the mutex is owned exactly while a frame is between its
`Lock` and its `Unlock`.

`ProfilerWorkerProofs`: `WorkerTypeCorrect`, `MetricsSafety`, `BatchSafety`,
`FinalUploadSafety`, `StopSafety`, from one `IInv`: the mutex is owned by the stop
that set the flag (`MutexInv`); a start under way finds no worker once it has the
mutex (`ThreadInv`); metrics are pending only while the worker collects them
(`MetricsInv`), which is why `stop` may leave the counter alone; what a worker
still owes is ahead of it (`OwedInv`). `TimelySafety` has an invariant of its own,
`TimeInv`: the clock is at most `Slack` ahead of where the worker should have gone
on (`ClockInv`), and when the worker woke up, the timer of the metrics, which it had
looked at in its last turn, was over by one wait and two delays at most
(`TimerInv`).

`ComponentVersionProofs`: `VersionTypeCorrect`, `VersionSafety`, `ArtifactSafety`,
`SerialSafety`. `BuildInv`: the version that a build works for is at most one
above the latest, and its artifact is under its `Key` before it is registered; the
registry and the keys only grow, so this stays true while others register. Of a path
of one level, `Key` and `URI` are the same (`OneLevel`); every key has one level
(`ShortKeys`), so that a deeper URI is never among them. `SerialInv`: without an
overlap what a build has read is still the latest and what it uploaded is its own.

`GreengrassProvisioningProofs`: `ProvisioningTypeCorrect`, `DeviceComplete`,
`ThingInGroup`, `CertificatesOwned`, `NothingRepaired`. For `DeviceComplete` the
invariant says, for an undisturbed checkout, which objects and links exist when
its run has come to a given step; links are never taken away. `ThingInGroup` rests
on `GroupInv`: undisturbed, a thing outside its group is one whose run is about to
add it, and the group is there by then. The other two rest on `CertificateInv`: a
certificate's file is that of one checkout, and a run that has an ARN has the one
of its checkout. With `OwnedInv`, that one command makes both a certificate and
its file, this gives `CertificatesOwned`; and as only a run's own ARN is ever
linked to, it gives `NothingRepaired`.

Only model-checked: liveness, which is `SendReturns`, `DestructorCompletes`,
`ConnectEnds`, `RetrieveEnds`, `FullEntryAdded`, `StopReturns` and `LogReturns`
(the prover does not do fairness). The properties of the runs that expect a
violation are refuted and not proved.

## 6. Not modelled

- The bootstrap of the vehicle simulator: its state is the machine's, and its
  steps are package managers and downloads whose failures this code does not tell
  apart. The CDK stacks are declarations that CloudFormation carries out; the
  installers and image builds are I/O in a straight line; Grafana and the signal
  data are assets.
- `stop` calls `initLogStructure` without `loggingMutex` (`RemoteProfiler.cpp:198`), a
  data race with any logger. Modelled is every order of its accesses to the array
  and the counter and those of the loggers, each access whole; what a `Json::Value`
  is that two threads write at once is not a state that could be listed.
- The order in which members of the module are destroyed against callbacks of the
  SDK, and the reference a stream callback keeps to its channel, depend on the
  SDK's threads, which this repository does not show. `setTopic` takes no lock and
  is called under its documented contract.
- The values of metrics, the text of logs, payloads and recipes, and what the
  policies allow.

Worth doing next: abstract specifications of `PayloadStore` (a queue that gives
back its front) and of `ProfilerWorker`, and theorems that the modules implement
them.
