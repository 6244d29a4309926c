# Formal models of the pedestrian detection

TLA+ modules, TLC configurations and TLAPS proofs about the program in `src/`: a process on an embedded
Linux board that reads a camera, detects pedestrians with OpenCV's HOG detector and reports the direction
of the nearest one over a UART. The models are translated from the C++ code. Where this file names lines,
they are lines of `src/`.

Run from this directory: `tlc -config RingBuffer.cfg RingBuffer.tla` (and likewise for the other
configurations below), `tlapm RingBuffer_proofs.tla` (and likewise for the other `_proofs` modules).

1. [The system](#1-the-system)
2. [The modules](#2-the-modules)
3. [The runs](#3-the-runs)
4. [Fairness](#4-fairness)
5. [The proofs](#5-the-proofs)
6. [Where the code and its documentation disagree](#6-where-the-code-and-its-documentation-disagree)
7. [Observations without a run](#7-observations-without-a-run)
8. [What is not modelled](#8-what-is-not-modelled)
9. [Plan](#9-plan)

## 1. The system

`main` (main.cpp:46-74) constructs one `CApplication`, whose constructor opens and configures the UART and
the camera, and calls its `run`, which starts four threads and then sleeps for ever.

```
 camera thread            detection thread                    transmission thread
 CCameraService::run      CDetection::run                     CComTxService::run
   |                        |        |                           |        |
   | writeData              | readData                           | receive| write, delete
   v                        |        | new, send(address)        |        v
 g_framesBuffer <-----------+        +--> g_mailboxes[TX] -------+       UART
 CRingBuffer<Mat,30>                      CMailBox: a FIFO special file
   no lock, no atomics                    two CMutex
```

A fourth thread, `CComRxService`, waits on a mailbox into which nobody sends. Besides these every thread
calls the `Logger`. `ConfigurationManager`, `HOGDetectionAlgorithm`, `ObservableSubject` and `CSemaphore` are
compiled into the program but are called by nobody in it; they are modelled as components of their own.

Beside the program stands a second, header-only design in C++20, which no compiled file includes:
`ModernCpp20Application` on top of the coroutines of `AsyncDetection.h`, with the utilities of
`RangesUtilities.h` and the constants of `ModernConstants.h`.

```
 client threads                              detached threads, one for each awaitable
   | start, ++, get, ~Task, stop               | detect, then resume the coroutine
   v                                           v
 ModernCpp20Application --- stream, range --- AsyncDetectionService: Task, Generator
   m_isRunning, m_shutdownRequested             m_isRunning
   m_statistics (load, change, store)           coroutine frames
```

| Component | State it keeps | Operations | Interacts with | Hard behaviour | What makes it correct |
|---|---|---|---|---|---|
| `CRingBuffer` (Lib/inc/CRingBuffer.h) | 30 slots, read and write index | `writeData`, `readData` | written by the camera thread, read by the detection thread, no lock | every access is a data race: half-written frames, indices seen between their stores or out of order, lapping | a read returns a whole frame that was the newest at some moment of the call, never an older one than before; the last frame arrives when the camera stops |
| `CMailBox` over `CResource`, `CMutex` (OS/) | a FIFO file, a write and a read mutex, a service state | `send`, `receive` | any thread sends, one receives | blocking on a full or empty file with a mutex held; a mailbox that could not be created | a bounded FIFO channel; a failed call has no effect; a blocked sender gets out |
| `CApplication`, `main` (App/) | four threads, two devices, mailboxes | construction, `run` | everything | any of threads, devices and mailboxes may fail to come up, and the others go on without it | what is promised below holds for every combination of failures |
| `CCameraService`, `CCamera` | the capture | `run` | writes the frame buffer | captures fail, the camera may stop | a failed capture changes nothing |
| `CDetection` (App/src/CDetection.cpp), `nms.h` | index of the largest detection, filter flags, both kept from frame to frame | `run`, `filterDetections`, `nms` | reads the frame buffer, allocates the result, sends its address | state of an earlier frame, a threshold that is a fraction, floats converted to 8 bits | the largest valid detection of this frame is reported, with angles in view |
| `CComTxService`, `CSerialProtocol` | the transmit buffer | `run`, `processRecvdMsg`, `processDataForTx` | receives addresses, writes the UART, deletes the result | an object created by one thread and deleted by another | no use after delete, no double delete, no leak; seven well-formed bytes; order of frames on the wire |
| `CComRxService` | none | `run` | its mailbox, into which nobody sends | none | - |
| `CUart`, `CThread` | a descriptor and a service state; a thread handle | construction, `configure`, `write`; `create` | `CApplication` | partial failure | failure is final and refuses later calls |
| `Logger` (Common/src/Logger.cpp) | the log file, its backups, a mutex | `log`, `write`, `rotateFile` | all threads | a timestamp taken before the mutex; a rotation of several system calls that a kill may cut short, or of which one fails unnoticed | the files hold lines in order, and until a file could not be renamed the unbroken end of what was written |
| `ObservableSubject` (Common/src) | lists of weak pointers, a mutex | `addObserver`, `removeObserver`, `notifyObservers` | observers and their owners | callbacks outside the mutex that call back; observers released meanwhile; callbacks that throw | everyone registered is called once, nobody after its destruction, no deadlock |
| `ConfigurationManager` (Common/src) | values by category and key, the file, a mutex | `loadFromFile`, `saveToFile`, `setValue`, `getValue`, `removeKey`, `clear` | `HOGDetectionAlgorithm` | a save that is cut short by a kill or by a write that fails unnoticed; keys and texts written as they are; values whose type changes on the way through the file | a load finds what was saved, where the lines can be read at all |
| `HOGDetectionAlgorithm` (Detection/src) | its configuration, the initialised flag | `detect`, `detectRange`, `detectLegacy`, `configure`, `setHOGConfig` | `ConfigurationManager`, OpenCV | exceptions of OpenCV in the middle; two vectors that have to stay aligned; a span that is too small | the results are those of the frame, the most confident ones first, a failure leaves the span alone |
| `CSemaphore` (OS/src/CSemaphore.cpp) | a count, a mutex, a condition variable | `wait`, `trywait`, `timedwait`, `post` | any threads | spurious wake-ups, a time limit that passes while a permit arrives, threads that overtake the woken one | a counter of permits; no permit lies beside a sleeper |
| `AsyncDetectionService`, `Task`, `Generator` (Common/inc/AsyncDetection.h) | coroutine frames, a running flag | the four coroutines, `stop`; `get`, `~Task`, the iterator | clients on any thread, detached threads | the frame of a task is destroyed when it ends; the client and a detached thread may resume the same coroutine; the iterator asks `done()` of one that may be running; exceptions that leave `resume()` | results in order, every task ends, `stop` ends the streams, the ways into undefined behaviour are known |
| `ModernCpp20Application` (App/inc) | flags, statistics | `initialize`, `startAsync`, `stop`, `requestShutdown`, `processFramesRange`, `onNotify` | `AsyncDetectionService`, `ObservableSubject` | the statistics are loaded and stored in two steps; a shutdown in the middle of a detection; a destructor that waits for nobody | the counters lose at most one count for each overlap; a shutdown stops the ranges |
| `DetectionProcessor` (Common/inc/RangesUtilities.h), `MathUtils` (ModernConstants.h) | none | filters, ranking, statistics, windows; angles, the wire format | results of `HOGDetectionAlgorithm` | functions that rely on what their callers hand over; a calculation that exists three times | nothing lost or out of order; the same angles and bytes everywhere |

Section 8 has the components that are not modelled.

## 2. The modules

| Module | Models | Uses |
|---|---|---|
| `LatestFrame` | abstract: a register that holds the newest frame | |
| `RingBuffer` | `CRingBuffer`, one access to shared memory a step | implements `LatestFrame` |
| `RingBuffer_proofs` | theorems about `RingBuffer` | |
| `Channel` | abstract: a bounded FIFO channel | |
| `MailBox` | `CMailBox` with the `CResource` calls and mutexes, one system call a step | implements `Channel` |
| `Pipeline` | the application: threads, devices, result objects | `LatestFrame` and `Channel` |
| `Pipeline_proofs` | theorems about `Pipeline` | |
| `CountingSemaphore` | abstract: a counter of permits | |
| `Semaphore` | `CSemaphore`, the mutex and the condition variable one step at a time | implements `CountingSemaphore` |
| `OS_proofs` | theorems about `Semaphore` and `MailBox` | |
| `Geometry` | rectangles, overlap, angles | |
| `BuildConstants` | the constants of the wire format and of the platforms, and what the compiler asserts of them | |
| `ModernConstants` | the second set of constants, and the angle calculations | |
| `Suppression` | `nms` and `nms2` | `Geometry` |
| `Detection` | `CDetection::run` on one frame after the other, `filterDetections`, `processDataForTx` | `Suppression`, `BuildConstants`, `ModernConstants` |
| `Detection_proofs` | theorems about `Detection`, `Suppression` and the constants | |
| `RangesUtilities` | the functions over results of a detection | `Geometry` |
| `HOGDetection` | `HOGDetectionAlgorithm`, and what the utilities make of its results | `RangesUtilities`, `ModernConstants` |
| `HOGDetection_proofs` | theorems about `HOGDetection` and `RangesUtilities` | |
| `Logger` | `Logger::log` with a `FileLogDestination` | |
| `ObservableSubject` | `ObservableSubject` | |
| `ObservableSubject_proofs` | theorems about `ObservableSubject` | |
| `Configuration` | `ConfigurationManager` and the parameters of the algorithm in it | |
| `Common_proofs` | theorems about `Logger` and `Configuration` | |
| `AsyncDetection` | the coroutines, their awaitables and the service | |
| `ModernCpp20Application` | the alternative application | extends `AsyncDetection`, `RangesUtilities` |
| `ModernCpp20Application_proofs` | theorems about the two | |
| `MCDetection`, `MCHOGDetection`, `MCConfiguration` | values for TLC | the module in the name |

`Pipeline` does not contain a ring buffer and a mailbox at the level of memory accesses and system calls.
It takes the two abstract modules by INSTANCE and uses their actions, and `RingBuffer` and `MailBox` are
shown to implement exactly these. Each level is small enough to be explored completely.

**RingBuffer.** `slots`, `readIndex`, `writeIndex` are the fields of the class. A `writeData` is
`WriteBegin` (from here on the content of the slot is undefined, `Torn`) followed by the visibility of its
three stores, `StoreSlot`, `StoreReadIndex` and `StoreWriteIndex`, in program order or, with
`StoresInOrder = FALSE`, in any order. A `readData` is `ReadBegin`, the two loads of the comparison in
either order, then `ReadEmpty` or `CopyBegin` and `CopyEnd`; the slot that is copied is the one of the
first load or of a second one, as a compiler may choose. A slot that is written while it is copied makes
the copy `Torn`. `latest`, `floor` and `contended` are history and never guard a step.

**LatestFrame.** A read returns a frame between the newest one at its call and the newest one at its
return, and not an older one than the read before it. It may report an empty buffer only if nothing was
published, or if a publication overlapped the call: the two indices are equal between two adjacent stores
(CRingBuffer.h:123-127), also in a buffer that is not empty.

**MailBox.** `send` is `SendBegin`, the check of the service state (`SendChecked`, `SendRefused`), then
`CResource::write`: `WriteLock`, `PipeWrite`, `WriteUnlock`; `receive` likewise with the read mutex. A full
or an empty pipe disables the system call while the mutex is held. A message is an address, smaller than
`PIPE_BUF`, and is written whole. The refinement of `Channel` maps a blocked call to a call that is under
way; the put and the get are the two system calls.

**Pipeline.** `heap` has the result objects, and what an address holds is the number of the frame it is
about. `Open` and `Configure` are the constructors of the devices, `CreateThread` is
`CApplication::run`; each may fail. The detection runs `ReadFrame`, `FrameRead` or `NoFrameYet`, `Detect`
(new), `SendResult`, `PutResult`, `SendDone`; the transmission `TxReceive`, `TxGet`, `TxReceived`,
`Transmit`, `Delete`. Whether the mailbox came up is a choice of `Channel`'s `Init`.

**Semaphore.** Every operation is a `Call`, an `Acquire` of the mutex, the look at the count (`Take`,
`Refuse`, `FallAsleep`, `Increment`), and a `Release`. `FallAsleep` gives up the mutex in the same step;
`SpuriousWakeUp`, `TimeOver` and `NotifyOne` of a post wake a sleeper, who has to acquire the mutex again.
`TimeOut` is the predicate that `wait_for` evaluates once more when the time is over.

**Detection, Suppression, Geometry.** One action for each stage of the loop: `DetectMultiScale`
(external: any rectangles, also ones that leave the frame, which HOG pads), `Suppress`, `FilterLines`
(external: any number of lines) or `CropThrows`, the end of the program (CDetection.cpp:158),
`FilterDetections`, `Send`, `Display`. What survives from frame to frame in the code does here:
`nmsFiltered`, `largest`, the transmit buffer. Angles are computed exactly and truncated as the conversion
to `int8_t` does. For all 0..960 pixels single precision gives the same degree, which was compared value
by value. `nms` and `nms2` are pure functions of their arguments and share the loop, `Suppressed`.

**HOGDetection.** `Call`, `DetectMultiScale`, `ApplyNMS`, `FilterOne` for each box, `FilterEnd`,
`DetectReturns`; `Throw` at every place where OpenCV may throw. The caller keeps its span from call to
call, since `detect` does not tell how much of it was filled. The functions of `RangesUtilities` and
`ModernConstants` are pure; they are applied to what the algorithm returned, which is what they were
written for.

**AsyncDetection, ModernCpp20Application.** A coroutine is known by where it is suspended (`at`), who is
running it (`by`: a client, the detached thread of an awaitable, nobody) and whether a detached thread is
going to resume it (`thread`). `AwaitFrame` and `AwaitTimer` start such a thread, `Detect` and
`ThreadResumes` are its steps, `TaskGoesOn`, `StreamGoesOn` and `RangeGoesOn` those of the bodies.
`TaskEnds` frees the frame, as `final_suspend` returns `suspend_never`. `Get`, `Destroy` and
`ConsumerResumes` are calls of a client, at any moment; `meddled` records, as history, that a client used
a frame that was gone or belonged to somebody else, and `fault` that the behaviour is undefined from here on.
A `begin` or `++` is two steps: it resumes (`ConsumerResumes`, after which the body runs on the client's thread
up to its next suspension) and then asks `done()` (`IteratorChecks`); `iterating` says whether a detached thread
has resumed the coroutine in between, in which case the question is a data race with the body and undefined.
`Dereference` copies the value of the promise. An exception that leaves a generator's `resume()` goes to the
consumer or, on the thread of a timer, ends the program (`GeneratorThrows`); on the thread of a frame the catch
clause takes it and resumes the coroutine again, at its end (`GeneratorRethrows`, AsyncDetection.h:178-183).
`object` follows the end of the service and its owner: `DestroyApplication` and `MembersDestroyed` wait for no
coroutine, and `UseAfterEnd` is a body that goes on to a member afterwards. `stop` is three steps, `Exchange`,
`StopRequestsShutdown` and `StopStopsService`. An update of the statistics is a load and a store of the whole
structure (`Loads`, `Stores`); `handled` and `overlaps` count, as history, what happened and how many updates
began inside another one.

**Logger.** A thread takes its timestamp, locks, writes; a rotation is `RotateFile` (close), one
`RenameBackup` for each system call, `OpenNew`. Each rename of a file that exists may fail, as nobody looks
at its result (Logger.cpp:135, 140), and so may the open: what follows goes on all the same, so that the next
rename may replace a backup that was not moved and the open truncate the file that was not renamed. `failed`
records it. `Restart` is a kill, between any two of them, and a new start. A line is known by its timestamp.

**ObservableSubject.** `RequestAdd` and `RequestRemove` are calls (of a thread or from inside a callback),
which `AddObserver` and `RemoveObserver` execute once they have the mutex. A notification is
`NotifyBegin`, `NotifyLock`, `LockWeak` for each weak pointer, `CleanUp` (which unlocks), a
`CallbackReturns` or `CallbackThrows` for each observer, `NotifyReturn`. `OwnerReleases` happens at any
moment; an observer is destroyed with its last strong pointer.

**Configuration.** `LoadFromFile`, `SetValue`, `RemoveKey`, `Clear` are one step each, under the mutex.
A save is `SaveBegin` (opening truncates the file), a `SaveLine` for each line, `SaveEnd`; a kill
(`RestartProgram`) may leave a part of a line, and so may a write that fails (`SaveFails`), after which nothing
more is written and `saveToFile` reports success all the same. The file consists of raw lines. What a save writes
for a header and for a key with a text (`HeaderLine`, `EntryLines`) and what a load reads in a line (`Read`: nothing,
a header, an entry with key and text) are separate tables, given to the module as constants: nothing says that
reading undoes writing, and in the run it does not, for a key with a `=`, for a text with a blank in front and for
a text with a newline that looks like a header. The algorithm stores and fetches its three parameters with one locked
access each. A text is known by what the program can tell about it: whether it has a point, and what
`stoi` and `stof` make of it.

## 3. The runs

All runs explore their state space completely. Deadlock is checked except where the table says that the
system may stop: the camera delivered its bounded number of frames and everything is done, or the bounded
number of operations was used.

| Run | Configuration | Bounds | States | Shows |
|---|---|---|---|---|
| ring | RingBuffer.cfg | 3 slots, 7 frames, 1 write begins during a read | 10 000 | with stores in order the buffer implements `LatestFrame` (`ImplementsRegister`), no torn frame is handed out (`NoTornRead`), reads and writes end as the register's do and the last frame is delivered (`LastFrameDelivered`) |
| ring_torn | RingBuffer_torn.cfg | 3 slots, 4 frames, stores in any order | - | `NoTornRead` is violated, section 6 |
| mailbox | MailBox.cfg | 2 senders, 1 receiver, 2 messages, room for 2 | 14 000 | the mailbox implements `Channel` (`ImplementsChannel`) and serves its callers as the channel does; a sender blocked on a full pipe gets out (`CallersServed`) |
| pipeline | Pipeline.cfg | 4 addresses, room for 1, 2 frames; may stop | 118 000 | `NoDanglingResult`, `NoLostResult`, `BacklogBounded`, `WireInOrder`, `ResultsReleased`, `NewestFrameReported` |
| semaphore | Semaphore.cfg | 3 threads, up to 1 initial permit, 4 calls, 1 spurious wake-up; may stop | 186 000 | the semaphore implements `CountingSemaphore` (`ImplementsCounting`), `NoLostWakeUp`, `SleepersServed`, `TimedWaitReturns` |
| detection | Detection.cfg | 6 rectangles, up to 3 detections, 4 or 5 lines, 3 scores; stops when the program ends | 125 000 | `SuppressionCorrect`, `ScoredSuppressionCorrect`, `ReportsLargestValid`, `WellFormedFrame`, `AngleInView`, `PedestrianVisibleOnWire`, `DrawsReportedBox` |
| hog | HOGDetection.cfg | 8 boxes, 3 confidences, up to 2 detections, 6 or 7 lines, a span of 1 | 175 000 | `ResultsOfFrame`, `AnglesAgree`, `ResultsAreRanked`, `ResultsInView`, `SpanHasMostConfident`, `FailureKeepsSpan` |
| logger | Logger.cfg | 2 threads, 8 lines, files of 1 line, 2 backups, 1 kill, any rename or open may fail; may stop | 385 000 | `NoGapInLog`, `FilesBounded`, `BackupsKept`, `LinesArriveWhileOpen`, `RestartKeepsLog` |
| subject | ObservableSubject.cfg | 2 threads, 2 observers, 2 types of events, 4 calls; may stop | 73 000 | `NoDuplicateRegistration`, `ObserverAliveDuringCallback`, `EveryoneCalledOnce`, `RemovedStaySilent`, `CallsReturn` |
| modern | ModernCpp20Application.cfg | 2 coroutines, batches, streams and ranges of up to 2 frames, 4 calls of clients (of which one may end the object), 1 notifier; may stop | 566 000 | `NothingElseUndefined`, `ResultsInOrder`, `StatisticsCount`, `ShutdownStopsRanges`, `WindowsCoverHistory`, `TaskCompletes`, `StopEndsStreams` |
| configuration | Configuration.cfg | 18 texts, 2 categories, 6 keys, 5 operations, any write may fail; may stop | 572 000 | `OneConfigurationSaved`, `LoadRestoresSaved` |
| configuration_numbers | Configuration_numbers.cfg | the same | - | `AlgorithmGetsStoredNumber` is violated, section 6 |

Closely related properties are checked as one conjunction of named parts. The configurations name the
conjunction, the table above the parts:

| Module | Checked | Parts |
|---|---|---|
| Pipeline | `ResultsOwned` | `TypeOK`, `NoDanglingResult`, `NoLostResult` |
| Semaphore | `WaitsEnd` | `SleepersServed`, `TimedWaitReturns` |
| Detection | `SuppressionsCorrect` | `SuppressionCorrect`, `ScoredSuppressionCorrect` |
| | `LargestReported` | `TypeOK`, `ReportsLargestValid`, `DrawsReportedBox` |
| | `WireCarriesResult` | `WellFormedFrame`, `PedestrianVisibleOnWire` |
| HOGDetection | `ResultsComplete` | `TypeOK`, `ResultsOfFrame` |
| | `DirectionsAgree` | `AnglesAgree`, `ResultsInView` |
| | `SpanWritten` | `SpanHasMostConfident`, `FailureKeepsSpan` |
| Logger | `FilesKept` | `TypeOK`, `FilesBounded`, `BackupsKept` |
| ObservableSubject | `ListsValid` | `TypeOK`, `NoDuplicateRegistration` |
| | `RightOnesCalled` | `EveryoneCalledOnce`, `RemovedStaySilent` |
| ModernCpp20Application | `RulesKept` | `TypeOK`, `NothingElseUndefined` |
| | `HistoryInOrder` | `ResultsInOrder`, `WindowsCoverHistory` |
| | `CoroutinesEnd` | `TaskCompletes`, `StopEndsStreams` |
| Configuration | `SavesAreConsistent` | `[]ConfigurationTypeOK`, `OneConfigurationSaved` |

The other modules check their type invariant by itself (`TypeOK`, of the mailbox `MailBoxTypeOK`).
`MailBox` and `Configuration` have longer names for what every module has, such as `MailBoxInit`, because a module
of proofs extends each of them together with another one. Each property is stated in words above
its definition.

Why the bounds are enough:

- *ring*. 7 frames go round the 3 slots twice, so that a slot is overwritten while its frame is the
  second newest and the write index wraps around in every relation to the reader. `LapBound` is how many
  writes begin during one read. `NoTornRead` needs `LapBound <= SIZE - 2` and fails with one more. The
  program has 30 slots at 30 frames a second: it is exposed if a read (the copy of a `cv::Mat` header)
  takes longer than 28 frames, close to a second. The refinement is checked under the same bound. That
  3 slots stand for 30 is not left to the run: `NeverTorn` is proved for every `SIZE`.
- *mailbox*. Two senders compete for the write mutex and the last place in the pipe; with two messages
  and room for two, order, loss and duplication show. The program has one sender for each mailbox.
- *pipeline*. With room for one message the pipeline fills with three objects: one with the detection, one
  in the mailbox, one with the transmission; a fourth address shows that there are never more. Frame
  numbers are compared only with each other, and a second frame is enough to overtake or to lose one.
- *detection, hog*. The rectangles are at the two sides of each limit in the code: 13478 and 13480 square
  pixels for the threshold 13478.4 (a rectangle of 13479 would behave like the first), an overlap and none,
  a width of less than a degree, both edges of the view, boxes to either side of the centre of the view within and
  beyond ten degrees, a box outside the frame, an area below 1000; line
  counts at both sides of 4 and 6. Three detections make a chain in the suppression, in which the middle
  one decides about the third.
- *logger*. Two lines fill a file, so eight lines make four rotations and the oldest of three files is
  dropped. The kill falls between any two system calls of any of them, and any number of renames may fail.
- *subject*. Four calls let an observer be added, notified by two threads at once, and removed or added
  again from a callback.
- *semaphore*. Three threads are a sleeper, a post and one who overtakes; or two sleepers of which the wrong one
  may be woken. Four calls let a post meet two waits and a `trywait`. The theorems do without all of these bounds.
- *modern*. Two coroutines let a range and a stream, or a task and another task, run side by side; two frames are a
  first and a next one; four calls let a client start both, resume or destroy one, and stop or let the object go.
  One caller is inside `stop` at a time: its first step is an exchange, so that of two callers only one goes on.
- *configuration*. Five operations let the algorithm store its parameters, another thread edit, a save
  begin, the program be killed in it, and a restarted program load what is left. The keys and texts include one of
  each kind that the file does not preserve.

Each property, and each part of a conjunction except a type invariant, has a mutant: a variant of a definition of the model, as a plausible bug in the code would
change it (`PROJECT.json`), that violates it under the same configuration. The variants stand next to the
definitions, with a comment that begins with *Mutant*, and no action uses them.

## 4. Fairness

| Where | Assumed | Why |
|---|---|---|
| RingBuffer | WF of the writer's stores, WF of the reader's steps; none for `WriteBegin` | a `writeData` that started ends; `CDetection::run` calls `readData` in an endless loop; the camera may stop at any time |
| MailBox | WF of each thread inside a call, WF of `ReceiveBegin`; none for `SendBegin` | threads are scheduled, a service calls `receive` again (CComTxService.cpp:58-84), nobody has to send. A pthread mutex is not fair, so no thread is promised a lock under contention |
| Channel, LatestFrame | what the two above give: some waiting sender is served; a call returns | TLC checks it of the implementations, as the first conjunct of `CallersServed` and of `LastFrameDelivered`; `ImplementsChannel` and `ImplementsRegister` are the safety of the two, which is proved |
| Pipeline | WF of each device's construction and each thread's creation, of `CaptureDone`, the detection and the transmission; SF of `FrameRead`; none for `Capture` | the threads are independent and scheduled. After the first frame a `readData` fails only if its loads fall between two adjacent stores of the camera thread, which writes once in 33 ms; the detection tries again at once, and does not hit the window every time |
| ObservableSubject | WF of each thread inside a call | the number of calls is bounded, so that a thread cannot be overtaken for ever even though `std::mutex` is not fair |
| Semaphore | WF of each thread inside a call and of the time of a `timedwait`; none for calls and spurious wake-ups | threads are scheduled and clocks run; the number of calls is bounded |
| ModernCpp20Application | WF of each coroutine's own steps, the updates of the statistics in them included; none for clients and notifiers | a thread that was started runs; a client need not resume, get, stop or notify |
| others | none | safety only |

## 5. The proofs

Every theorem is about all values of the constants, under the assumptions that the modules name next to
their CONSTANTS: sizes and bounds are numbers (a capacity or a `SIZE` at least one), the owner of a free
mutex is no thread, the sets of threads of `Semaphore` and of coroutines are finite, rectangles have sizes
that are not negative, `Text` has the texts that the program itself writes, and what it is configured with are
values, keys and lines of the kinds the code knows. Three theorems have a hypothesis more, and say so. TLC checked each inductive
invariant on the small instance before it was proved.

| Module | Theorem | States |
|---|---|---|
| `RingBuffer_proofs` | `TypeCorrect` | `[]TypeOK`, for every `SIZE` and every order of the stores |
| | `NeverTorn` | `RoomToRead` implies `[]NoTornRead` |
| | `RingImplementsRegister` | `RoomToRead` implies `ImplementsRegister` |
| `Pipeline_proofs` | `WireAlwaysInOrder`, `ResultsAlwaysOwned`, `BacklogAlwaysBounded` | `WireInOrder`, `[]ResultsOwned`, `[]BacklogBounded` |
| `OS_proofs` | `TypeCorrect`, `WakeUpsAreNotLost`, `SemaphoreImplementsCounting` | of the semaphore: `[]TypeOK`, `[]NoLostWakeUp`, `ImplementsCounting` |
| | `MailBoxTypeCorrect`, `MailBoxImplementsChannel` | `[]MailBoxTypeOK`, `ImplementsChannel` |
| `Detection_proofs` | `NmsMeetsDefinition` | what `nms` returns, for any rectangles, threshold and number of neighbours |
| | `Nms2MeetsDefinition` | what `nms2` returns, for any rectangles, scores, threshold, number of neighbours and least sum |
| | `SuppressionsAlwaysCorrect` | `NmsNeighbors = 0` implies `[]SuppressionsCorrect` |
| | `LargestAlwaysReported`, `AngleAlwaysInView`, `WireAlwaysCarriesResult` | `[]LargestReported`, `[]AngleInView`, `[]WireCarriesResult` |
| | `ConstantsAgree` | the two headers say the same of the platforms, the field of view and the frame's bytes |
| `HOGDetection_proofs` | `AnglesAlwaysAgree`, `ResultsAlwaysInView`, `DirectionsAlwaysAgree` | `[]AnglesAgree`, `[]ResultsInView`, and both, `[]DirectionsAgree` |
| | `ResultsAlwaysComplete`, `SpanAlwaysWritten` | `[]ResultsComplete`, `SpanWritten` |
| | `ResultsAlwaysRanked` | `[]ResultsAreRanked` |
| `Common_proofs` | `FilesAlwaysKept`, `NeverAGapInLog`, `LinesAlwaysArrive`, `RestartAlwaysKeepsLog` | of the log: `[]FilesKept`, `[]NoGapInLog`, `[]LinesArriveWhileOpen`, `RestartKeepsLog` |
| | `SavesAlwaysConsistent`, `LoadAlwaysRestoresSaved` | of the configuration: `SavesAreConsistent`, `LoadRestoresSaved` |
| `ObservableSubject_proofs` | `ListsAlwaysValid`, `CalledObserversLive`, `RightOnesAlwaysCalled` | `[]ListsValid`, `[]ObserverAliveDuringCallback`, `[]RightOnesCalled` |
| `ModernCpp20Application_proofs` | `RulesAlwaysKept`, `HistoryAlwaysInOrder`, `ShutdownAlwaysStopsRanges`, `StatisticsAlwaysCount` | `[]RulesKept`, `[]HistoryInOrder`, `[]ShutdownStopsRanges`, `[]StatisticsCount` |

**RingBuffer.** `TypeOK` is inductive; the only arithmetic is that the remainder wraps to a slot
(`RemainderIsSucc`). `RoomToRead` says that stores are seen in order
and that `LapBound + 2 <= SIZE`: at most `SIZE - 2` writes begin during one read. Both are needed; the
first is what `ring_torn` drops, and with `LapBound = SIZE - 1` TLC finds a torn read.
`NoTornRead` is not inductive: it only speaks about the caller's frame. The invariant `IInv` adds what
keeps the writer away from the reader.

| Part of `IInv` | Says |
|---|---|
| `StoresOrdered` | what is not visible yet is the end of the three stores; `target` is where the write index points until its store |
| `TornOnlyWhenWritten` | the only torn slot is the one the writer is in |
| `NothingPublished` | before the first frame the indices are equal, so nothing is copied |
| `IndicesAdjacent` | after it the read index is the slot before the write index, or equal to it between the two stores |
| `ReaderSafe` | every slot the reader may copy is `Safe`: seen from the slot that is written next, it is further ahead than the writes that can still begin |
| `NothingTorn` | neither the copy nor the caller's frame is torn |

The distance in `Safe` is counted around the ring (`Dist`). A `WriteBegin` during the read takes one from
it and one from the writes that are left (`SafeWriteBegin`), a store takes nothing (`SafeStore`), and a
read begins with `SIZE - 1` or more (`ReadIndexSafe`). For the refinement a second invariant, `RInv`, adds
the frame that is in the slot of each index: what the reader is about to copy is at least `floor` and no
older than the frame it returned last (`RInvStep`); then every step is one of `LatestFrame` or a stutter
(`RegisterStep`).

**MailBox.** `MailBoxTypeOK`, which has the mutual exclusion of both mutexes, is not inductive by itself: the invariant
adds what a thread knows by its place in the code (`SenderKnows`, `ReceiverKnows`), that the mailbox is
ready behind the check of its state and who has the message. The put and the get of `Channel` are the two
system calls, a refusal is `SendRefused` and `ReceiveRefused`, everything else is a stutter (`ChannelStep`).

**Pipeline.** An address has one holder: the detection (`Made`), the mailbox or the transmission
(`Received`). `OneOwner` says that no address is in two of these places and that there is an object behind each,
`NothingLost` that every object has such a place, `Ordered` that the results get newer from the UART back to
the camera; `CodesOK`, `DetectionPhase` and `TxPhase` tie the places to the program counters. The steps are
sorted by what they do to the way of the objects (`CreatesWay`, `HandsOverWay`, `TakesOverWay`,
`GivesUpWay`, `ReleasesWay`, `WritesWay`, or nothing, `ElsewhereWay`). That there are at most `Capacity + 2` objects
is then a count: the mailbox, and one for each of the two threads (`ObjectsCounted`).

**Semaphore.** `TypeOK` is inductive as it stands. `NoLostWakeUp` is, given `TypeOK`: a post that adds a permit is on its
way from then on; whoever leaves the way takes a permit along, saw none, or woke another thread
(`OneJoins`, `OneLeaves`); and a thread falls asleep only beside no permit. Every step shows as a step of
`CountingSemaphore` or not at all (`CountingStep`).

**Detection.** `nms` and `nms2` are one recursion over sets of indices, which differs in the key that orders
them and in what is done with the last one. `RoundsInduction` is its induction, for any key: what holds of no
indices, and of a set if it holds of what a round leaves of it (`Later`), holds of all. For `nms` `RoundMeets`
shows that one round keeps to the definition (`Meets`) if the rounds after it do, and `NmsMeetsDefinition`
follows. `nms2` adds up the scores of those that a kept rectangle stands for, so that a round needs more: the
last one stands for those near it, and each of the others for the same as without it (`RoundKeeps`); that the
definition picks out one set (`KeptUnique`); and that the last one comes first in the order of the result
(`RankingPrepended`). The loop that looks for the largest detection is treated the same way (`LoopFinds`). The
invariant of the running detection is `Types`, `Stages` (what each stage finds done by the ones before it),
`Result` (the transmit buffer holds the packed result of this frame), `Green` (what was drawn) and
`ReportsLargestValid`. That an area above the threshold spans a degree (`LargeSpansDegree`) makes a pedestrian
distinguishable from none on the wire. `NmsNeighbors = 0` is the value the program passes; with a larger one
`nms` drops isolated rectangles on purpose, and `SuppressionCorrect`, a part of `SuppressionsCorrect`, would not
hold.

**HOGDetection.** The invariant `ResultsFromBoxes` says that each result was computed from a box of the frame,
which the guard of `FilterOne` (OpenCV's refusal to crop outside of it) brings about; the rest is arithmetic:
the bounds of a truncated quotient (`TruncateBounds`), that an 8-bit angle does not wrap (`WireAngles`), that no
angle needs clamping (`AngleUnclamped`), and that whole degrees of 62.2 and exact ones of 62.0 stay together
(`WholeDegrees`).

`ResultsComplete` and `SpanWritten` rest on the invariant `IInv`.

| Part of `IInv` | Says |
|---|---|
| `Types` | every variable in its range; there are no more lines counted than boxes kept, no more boxes kept than found |
| `KeptBySuppression` | from the suppression to the end of a call that succeeds, and whenever a box is kept: the boxes kept are ranked and above the threshold, no two overlap, and whoever is missing overlaps one at least as confident |
| `ResultsOfPassed` | the results are those of the boxes that passed the filter so far, in the order of these boxes |

`NMSBoxes` is a fold over a set of indices. `LastSelected` shows that one more index, the last by score
(`LastExists`), leaves a selection that meets its definition (`SelectedFrom`), and `NMSBoxesSelects` follows by
induction over the set. `TakingInduction` is this induction, for whatever a fold takes next, and `FoldExists`
shows that the fold is a function. That the threshold is not negative, which OpenCV asserts, is needed: it makes
the scores that are compared natural numbers. The span gets the most confident results because two results are
always in the order of their boxes (`TwoResults`).

`ResultsAreRanked` is about the functions of `RangesUtilities` on these results. The
views with a filter are `CopyIf`, a fold over the positions from the last to the first, which keeps the elements
that pass in their order (`CopyIfCopies`). Since the results are ranked, those that are confident enough come
first (`ConfidentFirst`), a filter returns a beginning (`FilterIsPrefix`), and it does not matter whether the
filter or the limit is applied first (`LimitsCommute`). The sum of the confidences lies between the count times
the least and the count times the greatest one (`SumBounds`). The box of every
result is a part of the frame and not empty, so that the filter whose region is the frame keeps all of them
(`AreaKeepsAll`).

**ObservableSubject.** First what `erase` and `remove_if` leave of a list (`KeepProperties`). The invariant then
follows a notification: while it holds the mutex, what it collected is what it found alive among the weak
pointers it looked at; after that, the strong pointers it holds keep alive whom it still has to call (`Living`),
it called a prefix of them, and whoever was removed before it began is not among them (`Silent`, `Notifies`).
Steps of other threads disturb none of this, because the lists change only under the mutex (`NotifyElsewhere`).

**Logger.** The invariant speaks about the lines of all files, from the oldest on, as one sequence (`Retained`),
and not about single files: one that is renamed only moves, so that a rotation cut short anywhere leaves that
sequence as it was (`JoinedRename`). A renaming onto a file that exists drops the lines of that file, which are at
the beginning if it is the oldest backup and anywhere if an earlier rename failed; what is left is in order
(`RenameLoses`, `JoinedCleared`). The order is kept as a map of places (`Places`): each line of the files has the
place where it was written, and the places grow.

| Part of `IInv` | Says |
|---|---|
| `TypeOK`, `FilesBounded`, `BackupsKept` | the parts of `FilesKept` |
| `KeepsOrder` | the lines in the files are some of those that were written, in their order, each once |
| `KeepsEnd` | until a file could not be renamed, they are an end of what was written |
| `RotationOrdered` | in a rotation there is nothing where the next file is going, unless it is the oldest backup or a rename failed |
| `BackupsFull` | without a kill or a failed rename every backup is full, and the files are in a row, but for the one place that a rotation under way leaves free (`Hole`) |
| `LinesArrive` | `LinesArriveWhileOpen`, also while a rotation has the file closed |

`RotationOrdered` is what makes a renaming lose nothing; `BackupsFull` is what `BackupsKept` needs
(`RowIsFull`). A restart only opens a file (`OpenKeepsFiles`).

**Configuration.** `ConfigurationTypeOK` is inductive: `loadFromFile` makes values of whatever is in the file
(`LoadedTyped`), and a kill or a write that fails leaves lines (`RestTyped`). What the file is worth is the
invariant `Recoverable`: while a save is under way, the lines in the file and those that are left to be written are
together the lines of the configuration that is saved, which nobody changes meanwhile; a save that was cut short has
left a beginning of them and the rest of one line more; one that was complete has left them all. What the lines say
is proved once, from the lines each key and text makes (`SectionWritten`): if every value is `Legible`, that is, if it
stands in one line in which its own key is read, each category is a section of one header and one entry for each key
(`SectionDescribes`), the sections are joined in their places (`FlattenPlaces`), so that a line's category is that
of its section (`InSection`, `LinesDescribe`). A beginning of them has no entry that was not saved, and the cut
line is the only one whose text may differ (`InterruptedLoads`); all of them have every entry (`CompleteLoads`).
The load takes the last line of a key and parses what it reads there (`LoadedFromFile`, `Restored`). `AllLegible` is a
condition on the configuration that was saved, and cannot be dropped: section 7 has what happens without it. That what
is left of a cut line is read with the same key or not at all is an assumption about the tables
(`ConfigurationAssumption`): the key stands in front of the first `=`.

**ModernCpp20Application.** The invariant speaks about one coroutine after the other (`Good`).

| Part | Says |
|---|---|
| `Placed` | where a coroutine may be suspended follows from what created it; only one that is suspended before its end is resumed |
| `Counted` | while a frame is awaited one result is missing, otherwise none; the awaitable has the results of the last frame, or none |
| `Handled` | unless a client interfered, a detached thread that has a handle is the only one that will resume it, or has caught the exception with which it ended; nobody iterates a frame that is gone; every coroutine has ended before the object goes |
| `Halted` | a range that yielded after the request for a shutdown does not await another frame |

`Handled` is what `NothingElseUndefined` needs, `Counted` gives the order of the results, `Halted` the
shutdown. A lemma for each action shows it for the coroutine that moves; `GoodKept` has the others.
`NothingElseUndefined` is an exhaustive list of the ways into undefined behaviour: a client or an owner at the wrong
moment, `done()` after a thread (`iterating = "races"`), and a generator that threw on the thread of a frame. For
`StatisticsCount` the invariant `Counting` is added. A copy of the counters that is under way is never ahead of what
happened; and what happened is at most what is stored plus the overlaps, with one to spare less for each of the
updates that are under way (`Pending`), since each of them but the first was counted as an overlap when it loaded and
will overwrite no more than what it did not see. How the sum over all ranges grows is a lemma about the fold that
defines it (`SumGrows`, `OneFrameMore`). The windows need what
flattening a sequence of sequences returns (`FlattenCovers`).

Folds and recursive functions occur in several of these proofs. There is no rule of induction for them here, so
each such lemma assumes that its statement fails for some size, takes a least one (`LeastElement`), and refutes
it with the statement for a smaller size; in the same way it shows that the function exists at all.

**Only model-checked:**

- Liveness, which the prover cannot do: `LastFrameDelivered`, `CallersServed`, `ResultsReleased`,
  `NewestFrameReported`, `CallsReturn`, `WaitsEnd`, `CoroutinesEnd`.
- That the code breaks `AlgorithmGetsStoredNumber`, and `NoTornRead` where stores are seen out of order: a run
  shows a behaviour.
- What depends on the values in an MC module: that the conversions of texts, the lines that are written and what is read in them are
  those of the tables in `MCConfiguration`. The theorems about the configuration hold for any tables.

Every other property that a run checks is a theorem.

## 6. Where the code and its documentation disagree

Each is shown by a run that finds the documented statement violated.

- *ring_torn*. CRingBuffer.h:66 calls `writeData` a "basic atomic write operation". It stores a slot and two
  plain integers without ordering (CRingBuffer.h:121-127). Where stores are seen out of order, as on the
  boards the program is built for (Raspberry Pi and Jetson Nano, Makefile:139-140), the read index is seen before the frame and the reader copies a
  frame that is being written.
- *configuration_numbers*. HOGDetectionAlgorithm.cpp:48 loads the configuration "if available". A number
  without a point in the file becomes an INTEGER (ConfigurationManager.cpp:69-86), of which
  HOGDetectionAlgorithm.cpp:53 takes the float, which is 0. `saveToFile` itself writes 2.0 as `2`.

## 7. Observations without a run

- `readData` may report an empty buffer although it holds frames, between the two stores of
  CRingBuffer.h:123-127. The detection tries again at once, so `LatestFrame` allows it.
- CRingBuffer.h:66-68 promises an error when the buffer is full. `writeData` overwrites the oldest frame and returns
  success always; a register of the newest frame is never full.
- If `send` fails the result object is leaked: CDetection.cpp:185 logs, and the pointer is gone. This happens
  only with a mailbox that could not be created, for which `NoLostResult` and `BacklogBounded` say nothing.
- With such a mailbox `receive` fails at once, and CComTxService.cpp:70 runs a busy loop.
- A failed `configure` of the UART or the camera leaves the device open but unusable; nobody tries again.
- `CResource::close` closes the same descriptor twice (CResource.cpp:123-124). The running program never
  gets there.
- README.md:107 says that the detection "runs continuously (non-stop)". CApplication.cpp:57 only logs that a
  thread could not be created. Without the transmission thread the mailbox fills up, `send` blocks, and the
  detection never reads a frame again.
- README.md:129 and `MAX_STRAIGHT_LINES` (BuildConstants.h:96) say that a detection with 6 straight lines is
  discarded. CDetection.cpp:165 discards from 5 on, HOGDetectionAlgorithm.cpp:30 from 7 on.
- After a rotation whose reopen failed, every line is dropped until the program is restarted, and `write`
  reports success for the first of them (Logger.cpp:102). `LinesArriveWhileOpen` excepts exactly these.
- A rename that fails, in a directory that cannot be written for instance, loses lines: if the current file stays
  where it is Logger.cpp:143 truncates it, if a backup does the next one replaces it (Logger.cpp:135). `NoGapInLog`
  and `BackupsKept` promise no more than the order from then on. A line whose write fails, on a full disk, is lost too, and
  `write` reports success (Logger.cpp:105-116); this is left out of the model.
- `saveToFile` writes keys and texts as they are (ConfigurationManager.cpp:110-127), and `loadFromFile` trims a line,
  skips comments, takes brackets for a header and splits at the first `=` (ConfigurationManager.cpp:37-67). What
  contains any of these comes back as something else: `a=b` as the key `a`, a text without its blanks at the ends, a
  text with a newline as two lines, of which the second may be a header and move all that follow to another category.
  `LoadRestoresSaved` excepts a configuration with a value whose line is not read with its key (`AllLegible`), and speaks of
  the text that is read, not of the one that was saved.
- A write that fails during a save is not noticed (ConfigurationManager.cpp:132-133): the file is what a kill at that
  moment would have left, and the caller is told that it was saved.
- `std::localtime` is called without the mutex (Logger.cpp:229), so that two threads may mix their timestamps.
- An observer can be called after `removeObserver` returned, by a notification that took its snapshot before,
  but by no later one (`RemovedStaySilent`).
- `detect` returns no count, so that entries of the span may be those of an earlier frame; `detectRange`
  drops the return code and hands out what was evaluated before a failure.
- The timestamp of an event is read before it was written (ObservableSubject.cpp:82, EventData.h:37).

Of the C++20 design, seen while `modern` was written; its header does not compile as it stands
(`shared_from_this` without its base, a `Task<void>` without `return_void`, `DetectionConfig::isValid`):

- A task's result dies with its frame, which ends itself (AsyncDetection.h:43): `get` reads a default before the
  end and freed memory after it, so `initializeAsync().get()` is always undefined, and `~Task` after the end
  destroys the frame a second time.
- A `range-for` over `processFrameStream` (Examples/Cpp20Usage.md:44-46) resumes the stream where a detached
  thread is going to resume it too. Already its `begin` asks `done()` of a coroutine that was suspended in an awaitable
  and that the detached thread may be running (AsyncDetection.h:139, 153), and `*it` copies the value of the last
  yield, or a default before the first.
- The copy of the results into `yield_value` (AsyncDetection.h:99, 251) may throw on the thread of a frame.
  `unhandled_exception` lets the exception out of `resume()` (AsyncDetection.h:104) and AsyncDetection.h:181-182 catches
  it and resumes the coroutine at its final suspension point, which is undefined.
- `~ModernCpp20Application` waits for no detached thread: a coroutine that has not ended uses the members afterwards.
  These three are consequences of the code that no comment or test denies; `NothingElseUndefined` lists them.
- `startAsync` after `stop` revives the old stream, and `m_shutdownRequested` is never reset. A `stop` between
  `startAsync`'s exchange of the flag and the first step of the stream is lost.
- A limit on the detections also limits the frames of `processFramesRange`.
- The application registers itself for detection results only, so that an error never reaches `onNotify` by way
  of its own subject.
- The comment "Update statistics atomically" (ModernCpp20Application.h:365) is true of the load and of the store,
  and not of both together: of two updates that overlap one is lost. `StatisticsCount` bounds the loss.
- `groupByAngle` returns a view of a map that is destroyed when it returns (RangesUtilities.h:118): using its result, as
  Examples/Cpp20Usage.md:72 does, is undefined, so that there is no value to state a property about. `slidingWindow` of size 0
  returns empty windows, one more than there are frames.
- The valid thresholds are 0 to 1 in `ModernConstants.h` and 0 to 100 in `BuildConstants.h`.

## 8. What is not modelled

| Part | Why |
|---|---|
| `ModernApplication`, `CommandQueue` and its commands, `ErrorHandler` | declared, no file implements them |
| `ServiceFactoryManager` | an interface and one empty function |
| `CSystemResource`, `CSerialProtocol::readRequest` | excluded by `#if 0` |
| `CMutex::trylock`, `CThread::join` and `detach`, `CResource::close` | compiled, but never reached |
| console output of the logger, log levels, layout of log lines, terminal settings of the UART, drawing | no property is about them |
| HOG, Hough transform, `cv::dnn::NMSBoxes`, GStreamer, the file system | external: any result of the right kind, or its documented definition |
| a signal that interrupts a system call, a descriptor closed by somebody else | no handler is installed and nobody closes one |
| concepts, the constants nobody reads, utilities that only apply a function of their caller, `hasKey` and `getKeys` | nothing to say about them |
| `groupByAngle` | its result is undefined, section 7 |
| a callback that throws something else than a `std::exception` | it would leave `notifyObservers` (ObservableSubject.cpp:115 catches only these) and leave out the observers after it |
| a write to the log that fails | the stream is not asked; the line would be lost, as after a failed reopen |
| the coroutine `startAsync` itself, the placeholder camera of `ModernCpp20Application`, the other counters | only the calls they make matter to the rest |

Assumed of OpenCV: in `Pipeline`, that it does not end the process. `Detection` shows where it may
(`CropThrows`): a crop that leaves the frame throws in the detection thread, and nobody catches it.

## 9. Plan

Written first, because the rest stands on them: `LatestFrame` and `RingBuffer`, `Channel` and `MailBox`,
`Pipeline`. Then the computation (`Geometry`, `Suppression`, `Detection`, `HOGDetection`), then the services
(`Logger`, `ObservableSubject`, `Configuration`), then what nobody calls yet: `Semaphore`, and the C++20 design
(`AsyncDetection`, `ModernCpp20Application`, `RangesUtilities`, `ModernConstants`). Abstract specifications are worth stating where another
module uses the component, the frame buffer and the mailbox, and where everybody knows it, the semaphore. The other components are checked
against definitions of what they compute.

To model next:

1. The lifecycle of `CResource` (open, close, destructor, the service states) and of `CThread`, beyond what the
   running application reaches.
2. An observer that notifies from inside its callback; log levels and several destinations.

To prove next: nothing is left of the safety properties. The liveness properties need a rule for fairness that the
prover does not have; a first step are the facts they rest on that are safety, such as that a thread inside a call of
the mailbox is blocked only by the pipe or by the holder of a mutex.
