-------------------------------- MODULE RtpTx --------------------------------
(***************************************************************************)
(* The RTP path of one session (service/Session.cpp, service/RtpHandler.   *)
(* cpp).  Three threads meet in it without a lock:                         *)
(*   - the session's strand runs the video and audio reading tasks, which  *)
(*     build packets, give them to rtpMemoryQueue (the owner) and to       *)
(*     rtpQueuePtr (raw pointers), and reclaims what was transmitted;      *)
(*   - the detached RTP thread of Session::start pops and writes them;     *)
(*   - the detached thread of a delayed onTeardown discards the queue.     *)
(* A packet is the number of its creation, a sample the number of its      *)
(* first packet.  sentBitsSize, which is only a statistic, is left out.    *)
(***************************************************************************)
EXTENDS Integers, Sequences, FiniteSets, FiniteSetsExt

CONSTANTS
  MaxPackets,       \* bound: packets read in one behaviour
  FrontCounts,      \* how many RTPs a front video sample is cut into
  RearCounts,       \* how many a rear video sample is, 0 if it is skipped
  Lengths,          \* byte lengths of a packet
  StaleLengths,     \* what reading the length of a freed packet can yield
  MaxClientBuffer   \* C::MAX_CLIENT_BUFFER_SIZE

ASSUME RtpTxAssumption ==
  /\ MaxPackets \in Nat
  /\ FrontCounts \subseteq Nat \ {0}
  /\ RearCounts \subseteq Nat
  /\ Lengths \subseteq Nat \ {0}
  /\ StaleLengths \subseteq Int
  /\ MaxClientBuffer \in Nat
  /\ IsFiniteSet(FrontCounts) /\ IsFiniteSet(RearCounts)
  /\ IsFiniteSet(Lengths) /\ Lengths # {}

Packets == 1 .. MaxPackets
NoPacket == 0

VARIABLES
  \* shared between the threads
  rtpQueue,     \* rtpQueuePtr: packets waiting to be transmitted
  refCount,     \* Sample::refCount, by sample
  allocated,    \* allocatedBytesForSample
  isPaused,
  isToreDown,
  socketOpen,
  \* owned by the strand
  memoryQueue,  \* rtpMemoryQueue: every packet not reclaimed yet
  size,         \* number of packets of a sample, 0 where no sample starts
  info,         \* RtpPacketInfo: sample and length of each packet not freed
  created,      \* packets created so far
  strandPc,     \* "idle", "own", "queue" (inside a reading task) or "sweep"
  cur,          \* sample being enqueued
  left,         \* its packets not yet enqueued
  rear,         \* packets of the rear sample the video task reads next, or 0
  sweepAfter,   \* TRUE while the audio task runs: it ends with the sweep
  \* the RTP thread and the teardown thread
  txPc,         \* "loop", "ready", "pop", "write", "deref", "account",
                \* "count" or "done"
  held,         \* the packet the RTP thread popped
  lastSent,     \* history: last packet written to the open socket
  audioTask,    \* audio tasks: "running", "none", or "due" (stopped, with handlers
                \* that are queued)
  tdPc,         \* "none", "zeroed", "flagged", "cleared", "closed"
  staleRead     \* history: the RTP thread has read a reclaimed packet

sharedVars == <<rtpQueue, refCount, allocated, isPaused, isToreDown, socketOpen>>
strandVars == <<memoryQueue, size, info, created, strandPc, cur, left, rear, sweepAfter>>
txVars == <<txPc, held, lastSent, staleRead>>
vars == <<sharedVars, strandVars, txVars, tdPc, audioTask>>

NoInfo == [sample |-> NoPacket, len |-> 0]

Init ==
  /\ rtpQueue = <<>>
  /\ memoryQueue = <<>>
  /\ refCount = [s \in Packets |-> 0]
  /\ size = [s \in Packets |-> 0]
  /\ info = [p \in Packets |-> NoInfo]
  /\ created = 0
  /\ allocated = 0
  /\ isPaused = FALSE
  /\ isToreDown = FALSE
  /\ socketOpen = TRUE
  /\ strandPc = "idle"
  /\ cur = NoPacket
  /\ left = 0
  /\ rear = 0
  /\ sweepAfter = FALSE
  /\ txPc = "loop"
  /\ held = NoPacket
  /\ lastSent = NoPacket
  /\ audioTask = "none"
  /\ tdPc = "none"
  /\ staleRead = FALSE

-----------------------------------------------------------------------------
(* The strand: reading tasks *)

\* Faulty variant: no limit on what may wait for a slow client.
isNewSampleAllocatableNoLimit == TRUE

isNewSampleAllocatable == allocated < MaxClientBuffer

MayRead == ~isPaused /\ ~isToreDown /\ isNewSampleAllocatable

\* Faulty variant: one reference for the sample instead of one per packet.
StartSampleOneRef(s, n) ==
  /\ cur' = s
  /\ left' = n
  /\ size' = [size EXCEPT ![s] = n]
  /\ refCount' = [refCount EXCEPT ![s] = 1]
  /\ strandPc' = "own"

\* A sample of n packets is read: its reference count is set to the number of
\* its packets before the first of them is enqueued.
StartSample(s, n) ==
  /\ cur' = s
  /\ left' = n
  /\ size' = [size EXCEPT ![s] = n]
  /\ refCount' = [refCount EXCEPT ![s] = n]
  /\ strandPc' = "own"

\* One firing of a video reading task: the front sample, then the rear sample
\* unless the rear sample is skipped (rearCount = 0).
VideoTask(frontCount, rearCount) ==
  /\ strandPc = "idle"
  /\ MayRead
  /\ created + frontCount + rearCount <= MaxPackets
  /\ StartSample(created + 1, frontCount)
  /\ rear' = rearCount
  /\ sweepAfter' = FALSE
  /\ UNCHANGED <<rtpQueue, allocated, isPaused, isToreDown, socketOpen,
                 memoryQueue, info, created, txVars, tdPc, audioTask>>

\* A handler that was queued when its task was stopped fires, but only once; a
\* repeated PLAY has made several tasks, and then several handlers may be queued.
AudioFires ==
  \/ audioTask = "running" /\ UNCHANGED audioTask
  \/ audioTask = "due" /\ audioTask' \in {"due", "none"}

\* One firing of an audio reading task that finds a sample to read.
AudioTask ==
  /\ strandPc = "idle"
  /\ AudioFires
  /\ MayRead
  /\ created < MaxPackets
  /\ StartSample(created + 1, 1)
  /\ rear' = 0
  /\ sweepAfter' = TRUE
  /\ UNCHANGED <<rtpQueue, allocated, isPaused, isToreDown, socketOpen,
                 memoryQueue, info, created, txVars, tdPc>>

\* Faulty variant: the sweep sits inside the audio task's guard.
AudioTaskSweepOnlyIfReading ==
  /\ strandPc = "idle"
  /\ AudioFires
  /\ MayRead
  /\ strandPc' = "sweep"
  /\ UNCHANGED <<sharedVars, memoryQueue, size, info, created, cur, left, rear,
                 sweepAfter, txVars, tdPc>>

\* One firing that reads nothing, because the guard fails or the audio is
\* done: deleteDanglingRtps runs all the same.
AudioTaskSweepOnly ==
  /\ strandPc = "idle"
  /\ AudioFires
  /\ strandPc' = "sweep"
  /\ UNCHANGED <<sharedVars, memoryQueue, size, info, created, cur, left, rear,
                 sweepAfter, txVars, tdPc>>

\* Faulty variant: the new length replaces what was charged before.
ChargeOverwrites(l) == allocated' = l

Charge(l) == allocated' = allocated + l

enqueueRtpForMemoryMgmt ==
  /\ strandPc = "own"
  /\ created' = created + 1
  /\ \E l \in Lengths :
       /\ info' = [info EXCEPT ![created + 1] = [sample |-> cur, len |-> l]]
       /\ Charge(l)
  /\ memoryQueue' = Append(memoryQueue, created + 1)
  /\ strandPc' = "queue"
  /\ UNCHANGED <<rtpQueue, refCount, isPaused, isToreDown, socketOpen, size,
                 cur, left, rear, sweepAfter, txVars, tdPc, audioTask>>

\* The raw pointer is pushed; then the next packet, the rear sample, the sweep
\* of the audio task, or the end of the task.
enqueueRtpInfo ==
  /\ strandPc = "queue"
  /\ rtpQueue' = Append(rtpQueue, created)
  /\ \/ /\ left > 1
        /\ left' = left - 1
        /\ strandPc' = "own"
        /\ UNCHANGED <<cur, size, refCount, rear, sweepAfter>>
     \/ /\ left = 1 /\ rear > 0
        /\ StartSample(created + 1, rear)
        /\ rear' = 0
        /\ UNCHANGED sweepAfter
     \/ /\ left = 1 /\ rear = 0
        /\ left' = 0
        /\ cur' = NoPacket
        /\ sweepAfter' = FALSE
        /\ strandPc' = IF sweepAfter THEN "sweep" ELSE "idle"
        /\ UNCHANGED <<size, refCount, rear>>
  /\ UNCHANGED <<allocated, isPaused, isToreDown, socketOpen, memoryQueue, info,
                 created, txVars, tdPc, audioTask>>

-----------------------------------------------------------------------------
(* The strand: deleteDanglingRtps and the RTSP handlers *)

\* Faulty variant: the last packet of a sample may still be waiting.
ReclaimableEarly(p) == refCount[info[p].sample] <= 1

Reclaimable(p) == refCount[info[p].sample] = 0

FrontReclaimable == memoryQueue # <<>> /\ Reclaimable(Head(memoryQueue))

\* deleteDanglingRtps, one round of its loop: the front packet is freed once no
\* packet of its sample is waiting for transmission.
deleteDanglingRtps ==
  /\ strandPc = "sweep"
  /\ FrontReclaimable
  /\ memoryQueue' = Tail(memoryQueue)
  /\ info' = [info EXCEPT ![Head(memoryQueue)] = NoInfo]
  /\ UNCHANGED <<sharedVars, size, created, strandPc, cur, left, rear,
                 sweepAfter, txVars, tdPc, audioTask>>

SweepEnds ==
  /\ strandPc = "sweep"
  /\ ~FrontReclaimable
  /\ strandPc' = "idle"
  /\ UNCHANGED <<sharedVars, memoryQueue, size, info, created, cur, left, rear,
                 sweepAfter, txVars, tdPc, audioTask>>

\* PAUSE, and PLAY that resumes: RTSP requests are handled on the strand.
updateIsPaused ==
  /\ strandPc = "idle"
  /\ isPaused' = ~isPaused
  /\ UNCHANGED <<rtpQueue, refCount, allocated, isToreDown, socketOpen,
                 strandVars, txVars, tdPc, audioTask>>

-----------------------------------------------------------------------------
(* The audio tasks come and go *)

\* PeriodicTask::stop: a handler that is queued already is not recalled.
AudioStops ==
  audioTask' \in (IF audioTask = "running" THEN {"none", "due"} ELSE {audioTask})

\* onPlayStart, on the main io_context.
StartAudio ==
  /\ audioTask' = "running"
  /\ UNCHANGED <<sharedVars, strandVars, txVars, tdPc>>

\* A seek, or a camera switch that names an audio sample (taIdx): only the
\* onPlayStart of a seek starts an audio task again.
StopAudio ==
  /\ strandPc = "idle"
  /\ AudioStops
  /\ UNCHANGED <<sharedVars, strandVars, txVars, tdPc>>

-----------------------------------------------------------------------------
(* The RTP thread of Session::start, and transmitRtp *)

TxGoto(pc) == txPc' = pc

\* Faulty variant: the thread does not look at isToreDown.
TxLoopIgnoresTeardown ==
  /\ txPc = "loop"
  /\ TxGoto("ready")
  /\ UNCHANGED <<sharedVars, strandVars, held, lastSent, staleRead, tdPc, audioTask>>

TxLoop ==
  /\ txPc = "loop"
  /\ TxGoto(IF isToreDown THEN "done" ELSE "ready")
  /\ UNCHANGED <<sharedVars, strandVars, held, lastSent, staleRead, tdPc, audioTask>>

\* Faulty variant: an empty queue ends the thread.
TxReadyBreaks ==
  /\ txPc = "ready"
  /\ TxGoto(IF rtpQueue = <<>> THEN "done" ELSE IF isPaused THEN "loop" ELSE "pop")
  /\ UNCHANGED <<sharedVars, strandVars, held, lastSent, staleRead, tdPc, audioTask>>

\* An empty queue puts the thread to sleep, a paused session makes it spin:
\* either way it starts the loop again.
TxReady ==
  /\ txPc = "ready"
  /\ TxGoto(IF rtpQueue # <<>> /\ ~isPaused THEN "pop" ELSE "loop")
  /\ UNCHANGED <<sharedVars, strandVars, held, lastSent, staleRead, tdPc, audioTask>>

TxPop ==
  /\ txPc = "pop"
  /\ IF rtpQueue = <<>>
       THEN TxGoto("loop") /\ UNCHANGED <<rtpQueue, held>>
       ELSE /\ held' = Head(rtpQueue)
            /\ rtpQueue' = Tail(rtpQueue)
            /\ TxGoto("write")
  /\ UNCHANGED <<refCount, allocated, isPaused, isToreDown, socketOpen,
                 strandVars, lastSent, staleRead, tdPc, audioTask>>

\* A write to a closed socket fails and its error is ignored.
TxWrite ==
  /\ txPc = "write"
  /\ TxGoto("deref")
  /\ lastSent' = IF socketOpen THEN held ELSE lastSent
  /\ UNCHANGED <<sharedVars, strandVars, held, staleRead, tdPc, audioTask>>

\* Faulty variant: a packet written while the session got paused keeps its
\* reference.
TxDerefUnlessPaused ==
  /\ txPc = "deref"
  /\ TxGoto("account")
  /\ refCount' = [refCount EXCEPT ![info[held].sample] = IF isPaused THEN @ ELSE @ - 1]
  /\ UNCHANGED <<rtpQueue, allocated, isPaused, isToreDown, socketOpen,
                 strandVars, held, lastSent, staleRead, tdPc, audioTask>>

TxDeref ==
  /\ txPc = "deref"
  /\ TxGoto("account")
  /\ refCount' = [refCount EXCEPT ![info[held].sample] = @ - 1]
  /\ UNCHANGED <<rtpQueue, allocated, isPaused, isToreDown, socketOpen,
                 strandVars, held, lastSent, staleRead, tdPc, audioTask>>

Owned(p) == \E i \in DOMAIN memoryQueue : memoryQueue[i] = p

\* allocatedBytesForSample.fetch_sub(length): the length is read from the
\* packet after its reference was given back.
TxAccount ==
  /\ txPc = "account"
  /\ TxGoto("count")
  /\ \E l \in IF Owned(held) THEN {info[held].len} ELSE StaleLengths :
       allocated' = allocated - l
  /\ staleRead' = (staleRead \/ ~Owned(held))
  /\ UNCHANGED <<rtpQueue, refCount, isPaused, isToreDown, socketOpen,
                 strandVars, held, lastSent, tdPc, audioTask>>

\* sentBitsSize += length * 8 reads the packet once more.
TxCount ==
  /\ txPc = "count"
  /\ TxGoto("loop")
  /\ held' = NoPacket
  /\ staleRead' = (staleRead \/ ~Owned(held))
  /\ UNCHANGED <<sharedVars, strandVars, lastSent, tdPc, audioTask>>

TxThread ==
  TxLoop \/ TxReady \/ TxPop \/ TxWrite \/ TxDeref \/ TxAccount \/ TxCount

-----------------------------------------------------------------------------
(* onTeardown, on the detached thread of a delayed execution *)

TdZero ==
  /\ tdPc = "none"
  /\ tdPc' = "zeroed"
  /\ allocated' = 0
  /\ UNCHANGED <<rtpQueue, refCount, isPaused, isToreDown, socketOpen,
                 strandVars, txVars, audioTask>>

TdFlag ==
  /\ tdPc = "zeroed"
  /\ tdPc' = "flagged"
  /\ isToreDown' = TRUE
  /\ UNCHANGED <<rtpQueue, refCount, allocated, isPaused, socketOpen,
                 strandVars, txVars, audioTask>>

\* stopAllPeriodicTasks: the tasks first, the queue next.
clearRtpQueue ==
  /\ tdPc = "flagged"
  /\ tdPc' = "cleared"
  /\ AudioStops
  /\ rtpQueue' = <<>>
  /\ UNCHANGED <<refCount, allocated, isPaused, isToreDown, socketOpen,
                 strandVars, txVars>>

closeSocket ==
  /\ tdPc = "cleared"
  /\ tdPc' = "closed"
  /\ socketOpen' = FALSE
  /\ UNCHANGED <<rtpQueue, refCount, allocated, isPaused, isToreDown,
                 strandVars, txVars, audioTask>>

Teardown == TdZero \/ TdFlag \/ clearRtpQueue \/ closeSocket

-----------------------------------------------------------------------------
ReadingTask == enqueueRtpForMemoryMgmt \/ enqueueRtpInfo

Sweep == deleteDanglingRtps \/ SweepEnds

Next ==
  \/ \E f \in FrontCounts, r \in RearCounts : VideoTask(f, r)
  \/ AudioTask
  \/ AudioTaskSweepOnly
  \/ ReadingTask
  \/ Sweep
  \/ updateIsPaused
  \/ StartAudio
  \/ StopAudio
  \/ TxThread
  \/ Teardown

\* The RTP thread and the strand are threads of the operating system; a running
\* audio task's timer re-arms itself.  Requests and teardowns need not come, nor
\* a PLAY that starts another audio task, but a teardown that started goes on.
Fairness ==
  /\ WF_vars(TxThread)
  /\ WF_vars(ReadingTask)
  /\ WF_vars(Sweep)
  /\ WF_vars(AudioTaskSweepOnly)
  /\ WF_vars(TdFlag \/ clearRtpQueue \/ closeSocket)

Spec == Init /\ [][Next]_vars

FairSpec == Spec /\ Fairness

-----------------------------------------------------------------------------
(* Properties *)

\* Every variable has its type; in particular no reference count ever becomes
\* negative, whatever the order of the three threads.
TypeOK ==
  /\ rtpQueue \in Seq(Packets)
  /\ refCount \in [Packets -> Nat]
  /\ allocated \in Int
  /\ isPaused \in BOOLEAN
  /\ isToreDown \in BOOLEAN
  /\ socketOpen \in BOOLEAN
  /\ memoryQueue \in Seq(Packets)
  /\ size \in [Packets -> Nat]
  /\ info \in [Packets -> [sample : Packets \cup {NoPacket}, len : Lengths \cup {0}]]
  /\ created \in 0 .. MaxPackets
  /\ strandPc \in {"idle", "own", "queue", "sweep"}
  /\ cur \in Packets \cup {NoPacket}
  /\ left \in Nat
  /\ rear \in Nat
  /\ sweepAfter \in BOOLEAN
  /\ txPc \in {"loop", "ready", "pop", "write", "deref", "account", "count", "done"}
  /\ held \in Packets \cup {NoPacket}
  /\ lastSent \in Packets \cup {NoPacket}
  /\ tdPc \in {"none", "zeroed", "flagged", "cleared", "closed"}
  /\ audioTask \in {"none", "running", "due"}
  /\ staleRead \in BOOLEAN

Queued == {rtpQueue[i] : i \in DOMAIN rtpQueue}

\* Popped, and its reference not given back yet.
InHand == IF txPc \in {"write", "deref"} THEN {held} ELSE {}

\* The packets pushed to rtpQueuePtr so far are 1 .. Pushed.
Pushed == IF strandPc = "queue" THEN created - 1 ELSE created

PacketsOf(s) == s .. (s + size[s] - 1)

\* Packets that will still be transmitted if nothing is discarded.
Outstanding == Queued \cup InHand \cup ((Pushed + 1) .. MaxPackets)

Discarded == tdPc \in {"cleared", "closed"}

\* The RTP thread never finds a reclaimed packet in the queue, and never
\* writes from one: the raw pointers of rtpQueuePtr stay owned by
\* rtpMemoryQueue although the strand reclaims without asking the thread
\* (Session::deleteDanglingRtps against Session::transmitRtp).
NoDanglingPacket == \A p \in Queued \cup InHand : Owned(p)

\* The packets of sample s among them.
Waiting(s) == PacketsOf(s) \cap Outstanding

\* A sample's reference count is the number of its packets still to be
\* transmitted, and covers at least those once a teardown dropped the queue:
\* this is what makes "refCount == 0" a sound test in deleteDanglingRtps.
RefCountCovers ==
  \A s \in Packets :
    /\ refCount[s] >= Cardinality(Waiting(s))
    /\ ~Discarded => refCount[s] = Cardinality(Waiting(s))

\* Packets whose length is in allocatedBytesForSample.
Charged ==
  Queued \cup (IF strandPc = "queue" THEN {created} ELSE {})
         \cup (IF txPc \in {"write", "deref", "account"} THEN {held} ELSE {})

\* No teardown has begun, and no packet was freed before its length was read.
Undisturbed == tdPc = "none" /\ ~staleRead /\ (txPc = "account" => Owned(held))

\* Undisturbed, allocatedBytesForSample is exactly the bytes not
\* transmitted yet, although the strand adds and the RTP thread subtracts without a lock.
AccountingExact ==
  Undisturbed => allocated = MapThenSumSet(LAMBDA p : info[p].len, Charged)

\* Undisturbed, the bytes waiting for a slow client exceed
\* MAX_CLIENT_BUFFER_SIZE by less than what one reading task can add: the
\* limit is checked once per task, before a front and a rear sample.
ClientBufferBound ==
  Undisturbed =>
    allocated < MaxClientBuffer
                  + Max(FrontCounts \cup {1}) * Max(Lengths)
                  + Max(RearCounts \cup {0}) * Max(Lengths)

\* The path implements the ordered channel of RtpChannel: no packet is
\* skipped, repeated or reordered, and after PAUSE or teardown at most the
\* packet the RTP thread is committed to still goes out.
Committed == IF isToreDown THEN {"ready", "pop", "write"} ELSE {"pop", "write"}

Chan == INSTANCE RtpChannel WITH
  accepted <- Pushed,
  last <- lastSent,
  gate <- IF isToreDown THEN "closed" ELSE IF isPaused THEN "held" ELSE "open",
  late <- (isToreDown \/ isPaused) /\ txPc \in Committed

ImplementsChannel == Chan!ChanSpec

\* A queued packet leaves the queue unless the session is paused or torn
\* down: the RTP thread never sleeps on a non-empty queue for ever.
QueueDrains ==
  \A p \in Packets : p \in Queued ~> (p \notin Queued \/ isPaused \/ isToreDown)

\* A transmitted sample is reclaimed, also in a paused session, because the
\* audio task sweeps whether or not it reads.  Two things may leave it to the
\* destruction of the session: a teardown, and a stop of the audio task, which
\* a camera switch with taIdx does not start again (Session::onCameraChange).
TransmittedReclaimed ==
  \A p \in Packets :
    Owned(p) /\ Reclaimable(p) ~> ~Owned(p) \/ isToreDown \/ audioTask # "running"

\* What CppTips.md asks for: a sample is not taken back before its
\* transmission is completed, so transmitRtp never touches a freed packet.
NoReadAfterReclaim == ~staleRead
=============================================================================
