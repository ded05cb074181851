# TLA+ models of RtspServerInCpp

RtspServerInCpp streams VR content: a client speaks RTSP over one TCP
connection, and the server sends RTP packets of two streams (video, cut from a
front and a rear file, and audio) over the same connection. The modules here
model the parts of the server in which threads, delayed executions and requests
meet, and the parts whose arithmetic decides what is read and sent. Paths
below are relative to the repository (`src/` is its root, so the C++ sources are under
`src/src/`, `src/include/` and `src/constants/`).

## 1. Inventory

### Who runs

| Thread or executor | Runs |
|---|---|
| main thread | loads the contents, then `Server::start`: accept loop, one `Session` per connection; joins and destroys everything at the end |
| main `io_context` (one thread per core) | delayed `onPlayStart`, delayed end of camera switching, the server's clearing task, the signal handler |
| worker `io_context` pool (3 threads each) | the strand of each session: RTSP receive handler, bitrate, video and audio reading tasks |
| RTP thread, one per session, detached | `while (!isToreDown) transmitRtp()` with a raw `this` |
| teardown threads, detached, any number per session | sleep 5 s, then `onTeardown` with a raw `this` |
| SNTP thread | a poll of the time server every 3 s |

### Components

| Component | State | Operations | Interacts with | What makes it correct |
|---|---|---|---|---|
| RTP path (`Session`, `RtpHandler`) | `rtpMemoryQueue`, `rtpQueuePtr`, `Sample::refCount`, `allocatedBytesForSample`, `isPaused`, `isToreDown` | read a video or audio sample, enqueue, transmit, reclaim, pause, tear down | strand, RTP thread and teardown thread, no lock | packets leave in order, none is freed while queued, memory is bounded and given back |
| Periodic task (`PeriodicTask`) | flag, steady timer | start, stop, handler | any thread calls stop; handlers share the strand | a running task keeps firing, a stopped one stops |
| Reading tasks of a session (`Session::onPlayStart`, `onCameraChange`) | two vectors of tasks | play, seek, switch, pause, tear down | RTSP handler on the strand, delayed play on the main `io_context` | one reader per stream; nothing read after teardown |
| Session lifecycle (`Session::start`, `onTeardown`, `Server`) | receive loop, bitrate task, `sessions`, `shutdownSessions` | receive, detect a lost client, tear down, clear, destroy | shared pointers, raw pointers in threads and timers | nobody uses a destroyed session; every torn down session is destroyed |
| Read position (`StreamHandler`, `ReadInfo`) | current and last sample number by stream | PLAY, seek, resume, switch, read | reading tasks, requests | positions stay in the list; the end is noticed |
| RTSP dialogue (`RtspHandler`) | CSeq, content, title, open files, cached lists, camera flag | every RTSP method | prepares what reading uses | nothing is used before it is prepared |
| Content meta data (`ContentsStorage`, `ContentFileMeta`, accesses) | maps filled at start | load camera directories, `.acc` and images; open by a session; shut down | main thread at start, read-only afterwards | every packet is found where the file has it; key frames are where sessions look for them |
| SNTP time provider (`SntpRefTimeProvider`) | pair of a UTC time and a reading of the steady clock, `running` | start, poll, filter, store, read, stop | a mutex between its thread and the sessions' bitrate tasks | the pair is read whole, and stays near UTC |
| Process (`main`, `Server`) | what is started, the `io_context`s, the promise of the signal handler | load, listen, accept, wait, join, destroy in reverse order | signals, the clock's thread, handlers and detached threads that outlive the server | the process ends, and no bitrate record is lost |
| Helpers (`Logger`, `Buffer`, `RtpInfo`, `HybridSampleMeta`, `Util`, `C`) | | | | |

### What is hard here

The full list, each entry at its line and with the properties that cover it, is
`hazards` in `PROJECT.json`. In short: three threads share queues and counters
without a lock; `PeriodicTask::stop` races with its handler; `onPlayStart` is
delayed on another executor while requests go on; `onTeardown` runs on threads
that own nothing, several at a time; positions are rounded at the ends of the
sample list; a request that fails half way leaves its first effects behind; sizes of
16 bits are read as signed numbers; the clock discards what it takes for a spike;
the process is taken down while handlers and detached threads still hold sessions.

## 2. Modules

| Module | Models | Builds on |
|---|---|---|
| `RtpChannel` | abstract: what the RTP path promises to client and requests | |
| `RtpTx` | RTP path: strand, RTP thread, teardown thread | refines `RtpChannel` |
| `PeriodicTask` | flag, timer and handler of tasks that share a strand | |
| `MediaTasks` | what starts, stops and repositions reading tasks | `INSTANCE PeriodicTask` |
| `SessionLifecycle` | one session from start to destruction, with the server's maps | `INSTANCE PeriodicTask` |
| `StreamCursor`, `MCStreamCursor` | sample numbers of both streams; a small content | |
| `RtspStages` | abstract: the stages a content goes through before it is read | |
| `RtspDialogue` | requests of one session and what they prepare | refines `RtspStages` |
| `SntpClock`, `MCSntpClock` | the polling thread, its arithmetic and its readers | |
| `ContentMeta`, `MCContentMeta` | loading of a content and the tables of its files; small contents | |
| `ServerProcess` | the process from start to stop, over several sessions | |
| `<module>_proofs` | theorems about `RtpTx`, `MediaTasks`, `SessionLifecycle`, `StreamCursor`, `RtspDialogue`, `SntpClock`, `ContentMeta`, `ServerProcess` | the module |

Each variable's comment names the member it stands for; `map` in `PROJECT.json`
gives the lines of every definition. Definitions marked "Faulty variant" are
not part of any specification: they are plausible bugs, one for each property,
listed under `mutants`; putting one in the place of the definition it varies
must break the property.

### RtpTx

A packet is the number of its creation and a sample the number of its first
packet. The strand's program counter is `strandPc`: a reading task sets the
sample's reference count, then for every packet owns it
(`enqueueRtpForMemoryMgmt`) and publishes its raw pointer (`enqueueRtpInfo`);
the audio task ends with `deleteDanglingRtps`, one packet per step. The RTP
thread's is `txPc`: test of `isToreDown`, test of queue and `isPaused`, pop,
write, decrement, `fetch_sub`, statistic, a step each. `onTeardown` has four
steps (counter, flag, queue, socket). Reading the length of a packet that is
not owned any more yields a member of `StaleLengths`, that is anything. The
lock-free queue's operations are atomic, and so is `clearRtpQueue`: the
destruction of the old queue while the RTP thread is inside it is not modelled.

`audioTask` tells whether an audio task sweeps at all: `onPlayStart` starts one
(`StartAudio`), a seek, a camera switch that names an audio sample and the
teardown stop it (`AudioStops`), and a handler that was queued then still fires.

### MediaTasks and PeriodicTask

A handler is "due" once its timer expired and gets the strand later; its body,
its test of the flag and the re-arming are separate steps, so `stop()`, called
from a request or from the teardown thread, may fall between any two. A play
is created by a request and started by `onPlayStart` in four steps on another
thread. No request looks at what came before it, so PAUSE, a seek and a camera
switch may precede the initial PLAY, and a switch may then start a video task
that the PLAY does not know of. A switch to a sample that is not in the list
ends in an exception when the tasks are stopped already (`SwitchThrows`).
`late` and `lateReads` are histories of what happened after a stop and
after a teardown; `overlapped` tells whether a PLAY was repeated or came behind
a switch, or tasks were stopped while a play had yet to start.

### SessionLifecycle

The session is destroyed by `Destroy` when no shared pointer is left: not in a
map, not in a read or posted handler, not in a delayed play, not in the local
variable of a thread in `afterTerminatingSession`. `dangling` notes who uses
it afterwards. Before the first OPTIONS the age of the latest one is "stale":
`latestOptionsReqTimeMillis` is -1.

### StreamCursor

Times are whole microseconds; `getSampleNumber` rounds half up like
`std::round` on times that are not negative. The model starts after SETUP, and
takes requests in any order with any sample numbers, as the code does:

* a PLAY sets both positions and asks for `onPlayStart`, which starts the reading
  tasks later, whatever was asked for meanwhile (`starting`); a seek stops them
* PLAY after PAUSE puts a stream behind any number the client says it has received
* a camera switch moves both streams, reads up to `Fast` video samples at once and
  starts video again, but not an audio task that it stopped; only an upper bound is
  asked of camera and sample numbers (`camListed` tells whether the camera has a list)

Indexing outside the list throws: inside a request the rest of the request does not
happen (`PlayThrows`, and in `Switch` a video that stays stopped), in a reading task
the process ends (`crashed`). So it does where a switch before the initial PLAY
follows a pointer that only that PLAY sets (`cached`). All cameras of a content have
lists of one length. TEARDOWN and requests that are refused without a change are left
out.

### RtspDialogue

One action per method (and per variant of SETUP, PLAY and SET_PARAMETER), each
the whole handler with its answer. An exception leaves what was done before it
and sends back the buffer ("echo"). What text can make a request fail is a
choice; one known content is modelled, and `OneSample` says whether
`respondPlay` refuses it.

`RtspStages` says the same without requests: a content is unknown, listed,
described, named and open, in this order. The mapping reads the stage off the
last member that is filled in (the cached lists, the title, the urls, the
streams); a handler that fails half way must not have skipped one. A delayed `onPlayStart` that has yet to run is a start that
is due.

### SntpClock

What counts is how far the clock is from UTC, so the variables hold errors: of
the answer that is being worked on (`origin`), of the stored pair (`err`). An
answer's error follows from the transit times and the rounding of the code's
integer division (`Measured`); the skew of the local clock that stamps the
request is in two terms and cancels. `onReadSntpTime` reads the clock after the
answer came, compares (`Accepted`), averages with the cast's rounding
(`Filtered`), takes the mutex and stores the two halves of the pair in two
steps; `getRefTime` loads them in two steps under the mutex, and `ntp` and
`elapsed` are version bits that show a torn pair. A period lets the steady clock
drift by a millisecond at most. `slack` counts the polls that failed, halved by
every answer taken; `stale` says that it was once too much.

### ContentMeta

A content directory is chosen by `Init`. Its cameras are loaded in the order of
their names, each with its config, audio and videos, then `.acc` and images: one
action per part, whose guard is the code's check. What fails a check makes `init`
false ("invalid", and the content is listed nevertheless), an exception ends the
process ("terminated"). `getSizes`, `audioSamples` and `videoSamples` compute
what `ParsableByteArray` and the accesses compute, with the sign of a 16-bit
number and the width of the offsets, over bytes with `ByteBase` values. The
properties compare that with an independent reading of the table (`Size`, `Place`).

### ServerProcess

`main` is the program counter of the main thread: load, listen, accept and insert,
wait for the signal handler, join, and the destructors in their order. The
`io_context`s are "running", "stopping" (a handler may still end) and, once their
threads were joined, "stopped". A session is only where it is owned (`place`,
`pending`), whether it lives, its record and its `onTeardown` thread: the details
are those of `SessionLifecycle`, and the clock's thread that of `SntpClock`.
`touched` notes a session that asks the destroyed server for something, `raced`
that `sessions` was changed while `shutdownServer` went through it. `late` notes a
session whose first value a running bitrate tick entered when `onTeardown`, which does
not wait for it, had looked at the empty record already. A handler may be in a
synchronous write to a client that does not read, or in the loop around `push` while
the RTP queue is full (`blocked`): then its strand does nothing else, and its thread
cannot be joined.

## 3. What is checked

Each run is a `.cfg` beside the modules.

| Run | Configuration | Shows |
|---|---|---|
| `rtp_path` | `RtpTx.cfg` | no dangling pointer in queue or hand, exact reference counts, exact accounting and its bound while undisturbed, refinement of `RtpChannel`, the queue drains, transmitted samples are reclaimed, also while paused, as long as an audio task runs |
| `media_tasks` | `MediaTasks.cfg` | running tasks are scheduled, a stopped one fires at most once more, at most one read after teardown, one reader per stream unless a PLAY is repeated or comes behind a switch, or requests overlap |
| `media_rest` | `MediaTasksRest.cfg` | a stopped task comes to rest |
| `session_life` | `SessionLifecycle.cfg` | owned until closed, destroyed after teardown, lost clients torn down |
| `stream_cursor` | `StreamCursor.cfg` | start at the next key frame, the list is left only past an end rounded up or with a negative cursor, the end is noticed |
| `rtsp_dialogue` | `RtspDialogue.cfg` | nothing used unprepared, title after SETUP, camera flag ends, refinement of `RtspStages` |
| `sntp_clock` | `SntpClock.cfg` | the pair is read whole, the clock stays near UTC while polls do not fail too often, no answer moves it by more than half the limit and the lag, and a clock that is too far off is never corrected again |
| `content_meta` | `ContentMeta.cfg` | packets are found exactly while they are shorter than 2^15 bytes, audio also only before 2^31; key frames are where sessions look; what opens has its reference camera |
| `server_process` | `ServerProcess.cfg` | records that were begun in time are saved before or by `~Server`, sessions that outlive the server do not need it for one, the process ends after a signal that the main thread noticed unless something blocks it |

Three more runs check something that a comment or `CppTips.md` says of the
program and that the code does not do; TLC's counterexample is the evidence.

| Run | Claim | What the code does |
|---|---|---|
| `rtp_reclaim` | a sample is not reclaimed before its transmission is completed (`CppTips.md:1682`) | `transmitRtp` gives the reference back and then reads the packet (`Session.cpp:643-655`) |
| `session_lost` | "shutdown session when client connection was lost" (`Session.cpp:95`) | returns early once both streams were read to their end |
| `session_delete` | wait for asynchronous tasks, then delete (`CppTips.md:1231`) | `onTeardown` threads are awaited by nobody |

Several properties state a limit of the code rather than a promise, and the
exception in them is the point:

* `SoleReaders` excepts a repeated PLAY, an initial PLAY behind a camera switch, and
  a seek or switch before the last play started: all of them add readers
* `RunsOffOnlyPastEnd` excepts an end in the last half unit of a stream, which is
  rounded behind the list, and a negative cursor: a client may name one, and a play
  whose start was delayed reads from wherever a switch has left the cursor. It says
  nothing of a session that reads before its initial PLAY, or of one whose camera has
  no list
* `TransmittedReclaimed` excepts a session whose audio task was stopped. A camera
  switch that names an audio sample stops audio and restarts only video (`StopAudio`
  in `RtpTx`, `Switch` in `StreamCursor`, `SwitchEnds` in `MediaTasks`), and from
  then on nothing is reclaimed until a seek or a PLAY
* `RecordsSaved` and `ServerOutlivesRecords` except a map changed under its loop and
  a first value that comes behind `onTeardown`'s look at the record
* `SignalEndsProcess` excepts a signal that does not interrupt `accept()`, after which
  the server accepts on and serves nobody, a handler that blocks for ever, and an
  answer of the time server that never comes
* `LostForGood` says what becomes of a clock that was without answers for too long

### Bounds

* `RtpTx`: 4 packets, video of one packet (front) and none or two (rear),
  audio of one, limit 2 with lengths of 2. Two samples coexist, a sample is
  split over queue, hand and memory, the limit is met and passed, and there is
  room for a sample behind a partly transmitted one. The proofs of section 4 hold
  for all values; the liveness is checked for these. With one length,
  `AccountingExact` tells packets apart by number only.
* `MediaTasks`: two plays and one switch. Every pair of overlapping requests
  occurs: repeated PLAY, seek during a delayed play, switch before a play and
  during its delay, teardown during each. The fast start of a switch reads one sample
  instead of `FAST_TX_FACTOR_FOR_CAM_SWITCHING`; each iteration is the same
  guard and read. Liveness is checked with one play and one switch.
* `SessionLifecycle`: two onTeardown threads at most. Two are enough for every race on the
  maps; a third meets what the second one met.
* `StreamCursor`: four video samples of unit 2 in groups of three, so that the last
  one is a key frame and what is rounded up behind it leaves the list, and one audio
  sample of unit 3; times on, between and half way between samples, before, at and
  behind the ends (-1, 0, 1, 7); sample numbers of the client below the lists, in that
  of video and behind both (-3, 1, 8). Two reads at once in a switch and two delayed
  starts: one that is overtaken by a request, and one that this request asks for.
* `RtspDialogue`: seven accepted requests (`MaxCSeq`), enough to prepare, play,
  switch, describe again and seek; refused ones are not limited. `OneSample` is
  FALSE: a content of one sample is one whose PLAY is refused and started.
* `SntpClock`: the code's limit of 35 ms, transit times up to 4 ms, so that the
  noise of an answer is 3; 24 polls may fail in a row (`Survivable`) before the clock is
  stale, and errors up to 40 are told apart, beyond what an answer can still
  correct (39). The local clock is right, or 7 ms fast or slow, more than any
  transit time. One reader: readers exclude each other by the mutex.
* `ContentMeta`: bytes of two bits and tables of up to five sizes: negative sizes,
  the marker, several samples, packets without bytes, odd tables, and offsets
  that leave an int (`OffsetLimit` 8) all occur. Three camera directories, two of
  them reference cameras, over a few files each; config groups of 0, 2 and 3.
* `ServerProcess`: two connections, so that one session is torn down, moved or
  recorded while another is entered or destroyed, and one signal, which interrupts
  `accept()`, the clock's receive or neither.

`CHECK_DEADLOCK FALSE` in all configurations: a session may end, a client may
send nothing more, and bounded counters run out.

### Fairness

* `RtpTx`: weak fairness of the RTP thread (an operating system thread in a
  loop), of a task that has the strand, of an audio task while it runs, since its timer
  re-arms, and of a teardown once it began. Requests, plays and the start of teardown
  are not fair: nothing brings an audio task back that was stopped. A write to the
  socket returns: a client that stays connected and never reads again would hold up
  the RTP thread or the strand for ever. That is supposed in `MediaTasks` and
  `SessionLifecycle` too; what it does to the end of the process is in `ServerProcess`.
* `MediaTasks`, `SessionLifecycle`: timers expire and threads run (weak
  fairness); a queued handler competes for the strand with other handlers, and
  an Asio strand runs handlers in the order they were queued, hence strong
  fairness of each handler. A read on a closed socket completes, the clearing
  task comes round every 30 s. Clients are not fair: they need not send, nor
  fall silent.
* `StreamCursor`: reading tasks that run and are not paused read. `EndIsNoticed`
  supposes that the client asks for nothing more.
* `ServerProcess`: the main thread goes on where nothing blocks it, a queued
  signal handler is run, the clock's thread wakes up after its period, and an
  unowned session is destroyed. Nothing makes a client connect or read, a signal come,
  a blocked handler go on or the time server answer: neither the write nor
  `receive_from` has a timeout, and `SignalEndsProcess` excepts both.

## 4. What is proved

`RtpTx_proofs` proves, for every number of packets, every way samples are cut,
every set of lengths and every limit (assumption `RtpTxAssumption`):

* `Invariance`: `Spec => []IInv`
* `TypeCorrect`: `Spec => []TypeOK`; no reference count becomes negative
* `MemorySafe`: `Spec => []NoDanglingPacket`
* `RefCounts`: `Spec => []RefCountCovers`
* `ChannelRefined`: `Spec => ImplementsChannel`, the refinement of `RtpChannel`
* `BufferBounded`: `Spec => []ClientBufferBound`
* `BytesAccounted`: `Spec => []AccountingExact`

`NoDanglingPacket` and `RefCountCovers` are not inductive. `IInv` adds what the
code relies on without saying it: because packets are numbered as they are
created, `rtpQueue` is the interval of the last pushed ones (`QueueShape`),
`memoryQueue` that of the last created ones (`MemoryShape`), the popped packet
precedes both its queue and whatever comes later (`HeldShape`), samples are
disjoint intervals (`SampleShape`), a reading task stands where its sample says
(`TaskShape`), a packet points to the sample it lies in (`InfoShape`), and the
socket is at most one packet behind the queue (`SentShape`, with
`TeardownShape` for what a teardown has discarded). Reclaiming is then safe
because a packet that is queued or in hand is waiting, its sample's reference
count covers it, and `deleteDanglingRtps` takes only packets of a sample whose
count is zero. There is one lemma per action (`...IInv`), `BeginSample` and
`PushKeeps` for the parts that several share, and, for the refinement, one lemma
per kind of step (`AcceptStep`, `WriteStep`, `PauseStep`, `CloseStep`,
`TxThreadStep`, `QuietStep`).

The bytes need two invariants of their own. `AccountShape`: until a teardown the
counter is the sum of the lengths of the packets that wait, the one the strand is
about to push and the one the RTP thread has written and not yet taken off included
(`Charged`); each step changes that set by one packet or by none, and the counter by
its length. `RoomShape`: while a task reads, the counter leaves room for what that
task has still to charge (`ToCharge`), since it was below the limit when the task
asked. They rest on lemmas about minima, maxima and sums over finite sets, of which
the community modules have none: a sum over a finite set is the one chosen recursive
function (`TotalStep`, `TotalSame`), and `RtpTxAssumption` says that a sample has
finitely many cuts and lengths.

`RtspDialogue_proofs` proves the properties of the run `rtsp_dialogue` for any
number of requests and both values of `OneSample`:

* `DialogueTyped`: `TypeOK`, from three parts that are inductive by themselves or
  together (`CountType`, `AnswerType`, `FlagType`)
* `PreparedBeforeUse`: `PreparedInOrder`, strengthened by `Prepared` (the cached
  lists come with open files and a title, a title with the streams)
* `SetUpNames`: `SetUpNamesContent`, strengthened by: after DESCRIBE the urls stay
  until SETUP unless OPTIONS is answered
* `SwitchingFlag`: `SwitchingEnds`, inductive given `CountType`
* `StagesRefined`: `Spec => ImplementsStages`, the refinement of `RtspStages`. Each
  action is one step of `RtspStages` or none; that it is this step follows from the
  inductive invariants of `PreparedInOrder`, which hold before it, and from a lemma for
  each way an action may end (`RequestMade`, `OtherRequest`, `Started`, `ProcessEnds`)
* `StagesAreSafe`: what `RtspStages` promises, for whatever implements it: a client
  who leaves out no stage has only open content read and never ends the process

`MediaTasks_proofs` proves all invariants of `media_tasks` for any number of
plays, camera switches and fast reads:

* `TasksTyped`, `NeverAsleep`, `OneLateFiring`, `OneLateRead`, `OneReader`:
  `TypeOK`, `RunningIsScheduled`, `LateAtMostOnce`, `LateReadAtMostOne`, `SoleReaders`

* `RestForGood`: `Spec => RestIsFinal`, an action property: a task that was started,
  stopped and has come to rest (`AtRest`) is never run or scheduled again; that it
  comes to rest is `StoppedTasksRest`, which is liveness

`IInv` has five parts. `Shape`: who holds the strand is at a step of its own.
`PlayOrder`: plays are used in order, so that a new one is unused. `Chains`: a task
that was never started (`Fresh`), or whose timer `start()` is about to arm, has no
handler, and from then on it has one, which alone re-arms the timer after a look
at the flag; this is what makes `stop()` without the strand harmless. `LateReads`:
who reads late had the strand before the flag was set. `Readers`: nothing reads
before the first play or switch, and without overlapping requests at most one play is
about to start, and what it replaces was stopped before.

`SessionLifecycle_proofs` proves, for any number of `onTeardown` threads:

* `SessionTyped`: `TypeOK`
* `OwnedTillClosed`: `OwnedUntilClosed`, strengthened by `Progress`: while the
  session lives, how far its `onTeardown` threads have come tells whether it is torn
  down, its timer and socket are stopped, and `sessions` still has it
* `ClientWatched`: `ClientIsWatched`: the bitrate task is scheduled until a teardown
  begins. `LostClientTornDown` needs it: a task off its timer would notice nothing
* `SessionsLeft`: `SessionsAreLeft`: when an `onTeardown` thread is through and none
  has still to erase, `sessions` is empty. `TornDownIsDestroyed` needs it: an entry
  that stayed would own the session for good. Inductive is `Erasing`: the session does
  not come back, and while there is a null entry the thread that made it has still to
  erase

`StreamCursor_proofs` proves, for every content, and all times and sample numbers
that a client may name:

* `PlayStartsAtKey`: the action property `StartsAtNextKey`
* `OffTheListOnlyPastEnd`: `RunsOffOnlyPastEnd`, with `Cursors` (cursors are integers).
  The exception of a read is raised where the cursor is not in the list and not behind
  the end: below the list, or behind it with an end that is behind it too
* `CursorTyped`: `TypeOK` with its bounds, assuming `PlayTimeAgrees`: the play time
  of the description is at most that of the samples in the files, which no code
  checks. A cursor is less than a group behind its list or one behind it, and not
  before all numbers named by the client, or it is where such a number has put it

They rest on lemmas about the integer division of `getSampleNumber` and `NextKey`
(`Quotient`, `Remainder`, `NextKeyIsNext`, `SampleNumberBound`).

`SntpClock_proofs` proves all properties of `sntp_clock` for any limit, delays and
skews that satisfy `ClockAssumption`:

* `ClockTyped`, `PairReadWhole`: `TypeOK`, `ReadsWholePair`; the mutex ties the
  versions of the two halves together
* `StaysSynced`: `Synced`. The answer that is being worked on is within the noise
  before the filter and within half the clock's bounds behind it, so that a clock
  inside its bounds never takes an answer for a spike (`NotDiscarded`) and what an
  answer leaves of the error is halved (`HalvedBounds`)
* `SmallSteps`, `NeverCorrected`: the action properties `StepsAreSmall`, `LostForGood`

`ServerProcess_proofs` proves, for any number of sessions and signals:

* `ProcessTyped`: `TypeOK`, strengthened by what main has waited for (`Stages`)
* `AllRecordsSaved`, `ServerOutlives`: `RecordsSaved`, `ServerOutlivesRecords`, from
  `Traced`: where a session is in the maps tells how far its record is settled,
  because `onTeardown` records before it moves a session, what a tick enters behind
  that is `late`, and nothing is entered once the `io_context`s have ended

`ContentMeta_proofs` proves all invariants of `content_meta`, for any width of a byte
and of an int, any directory on disk and tables of any length:

* `OpenComplete`: `OpenHasReference`
* `KeysFound`: `KeysWhereSessionsLook`
* `VideoPacketsFound`: `PacketsFound`
* `AudioSamplesFound`: `AudioFound`

They follow from `IInv` (`Invariance`): each loaded camera is well formed, and its
video files are `videoSamples` of tables that loaded with the group of pictures
`rtpInfo` has now (`Loaded`), which no later config changes; while just one reference camera has loaded, the audio file is that of
its table (`AudioShape`); and where there is a group of pictures there is audio. The
four properties are not inductive, because what they say of files depends on how
these were read, which only `Loaded` and `AudioShape` remember. What the loops over a table compute is proved
prefix by prefix: `FoldLeft` is unfolded to the recursive function it chooses
(`IsFold`), which exists (`FoldExists`) and takes the sizes in their order
(`FoldPrefix`); then `VideoDone` says what the samples look like after `k` sizes,
`VideoStarts` and `VideoGoesOn` that it holds for each `k`. `SignedFacts` ties it to
what is in the file: a size read as signed is the size exactly below half its range,
and the marker is the one that becomes -1; the offsets then agree with those of the
file because equal sizes add up equally (`SameSums`). `ContentAssumption` says what a
content is: camera directories with names of a finite order, files that are sequences
of bytes, finitely many of them.

The prover has no induction for a property that is a parameter. Where a proof needs
one, over the length of a table or the size of a set, it takes the least
counterexample of the property at hand, which exists because `<` on the naturals is
well-founded (`LeastNumber`), and refutes it.

Only model-checked: the liveness properties (`QueueDrains`, `TransmittedReclaimed`,
`StoppedTasksRest`, `TornDownIsDestroyed`, `LostClientTornDown`, `EndIsNoticed`,
`SignalEndsProcess`), since liveness under fairness and `ENABLED` are out of the
prover's reach; `RestForGood`, `ClientWatched` and `SessionsLeft` are safety halves of
three of them. Every invariant and every action property of the passing runs is a
theorem.

## 5. What is not modelled

* The hybrid sample list (formatting), logging, buffers and string helpers, and the
  numbers and the text of the bitrate record (`components` in `PROJECT.json` gives
  the reasons).
* Data races on `std::vector`, `std::map` and `std::unique_ptr` as memory
  errors: operations on them are steps. The interleavings of these steps are
  modelled. In particular `clearRtpQueue` is one step.
* Partial writes to the socket, and answers and packets interleaving inside one.
* A second content in the same session; more than one video of a content, and cameras
  with lists of different lengths, in `StreamCursor`.
* The teardown of a client that is there: how long a new client may take before its
  first OPTIONS is in `SessionLifecycle` only in that the first tick finds it stale.
* A write that never returns, but for the end of the process (`ServerProcess`).
* The choice of a worker `io_context` for a session, and the copies of images and
  `.acc` bytes that sessions send.

## 6. How the project grew, and what is left

`RtpChannel` and `RtpTx` came first, with their proofs; then `PeriodicTask` and
`MediaTasks`, `SessionLifecycle`, `StreamCursor`, `RtspDialogue` with proofs; then
`SntpClock`, `ContentMeta`, `ServerProcess` and the proofs about them; last the sums
of `RtpTx`, the tables of `ContentMeta`, the stages of `RtspStages`
and what liveness rests on in `MediaTasks` and `SessionLifecycle`. Left:

1. `clearRtpQueue` in two steps with the old queue's destruction; a counter for
   `sentBitsSize`, which is read and reset by the bitrate task.
2. An abstract specification of a session (open, closing, gone) that both
   `SessionLifecycle` and `ServerProcess` implement.
3. A second content title in `RtspDialogue`; the members of a content in
   `StreamCursor`.
