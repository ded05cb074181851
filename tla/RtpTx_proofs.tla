---------------------------- MODULE RtpTx_proofs ----------------------------
(***************************************************************************)
(* Proofs about RtpTx, for every number of packets, every sample size,     *)
(* every set of lengths and every limit.                                   *)
(***************************************************************************)
EXTENDS RtpTx, FiniteSetTheorems, TLAPS

(* The inductive invariant.  Packets are numbered in the order of their      *)
(* creation, so each queue holds an interval of numbers.                     *)

\* rtpQueue is the last Len(rtpQueue) pushed packets, in order.
QueueShape ==
  /\ Len(rtpQueue) <= Pushed
  /\ \A i \in 1 .. Len(rtpQueue) : rtpQueue[i] = Pushed - Len(rtpQueue) + i

\* memoryQueue is the last Len(memoryQueue) created packets, in order.
MemoryShape ==
  /\ Len(memoryQueue) <= created
  /\ \A i \in 1 .. Len(memoryQueue) : memoryQueue[i] = created - Len(memoryQueue) + i
  /\ strandPc = "queue" => Len(memoryQueue) > 0

\* The popped packet precedes everything in the queue.
HeldShape ==
  txPc \in {"write", "deref", "account", "count"} =>
    held \in Packets /\ held <= Pushed - Len(rtpQueue)

Reading == strandPc \in {"own", "queue"}

\* The last packet of the samples begun so far.
LastBegun == IF Reading THEN cur + size[cur] - 1 ELSE created

\* Where the reading task stands in the sample it enqueues.
TaskShape ==
  Reading =>
    /\ cur \in Packets
    /\ left \in 1 .. size[cur]
    /\ Pushed + 1 = cur + size[cur] - left
    /\ cur + size[cur] - 1 + rear <= MaxPackets

\* Samples are disjoint intervals of packets that have been begun.
SampleShape ==
  /\ \A s \in Packets : size[s] > 0 => s + size[s] - 1 <= LastBegun
  /\ \A s, t \in Packets : size[s] > 0 /\ size[t] > 0 /\ s < t => s + size[s] <= t

\* A packet that is not freed belongs to the sample it points to.
InfoShape ==
  \A p \in Packets : Owned(p) =>
    info[p].sample \in Packets /\ p \in PacketsOf(info[p].sample)

\* What the teardown has done so far.
TeardownShape ==
  /\ isToreDown <=> tdPc \in {"flagged", "cleared", "closed"}
  /\ socketOpen <=> tdPc # "closed"

\* How far the socket is behind the queue.
SentShape ==
  /\ lastSent <= Pushed - Len(rtpQueue)
  /\ txPc = "write" => lastSent < held
  /\ ~Discarded /\ txPc = "write" =>
       lastSent = held - 1 /\ held = Pushed - Len(rtpQueue)
  /\ ~Discarded /\ txPc # "write" => lastSent = Pushed - Len(rtpQueue)

IInv ==
  /\ TypeOK
  /\ QueueShape
  /\ MemoryShape
  /\ HeldShape
  /\ TaskShape
  /\ SampleShape
  /\ InfoShape
  /\ TeardownShape
  /\ SentShape
  /\ NoDanglingPacket
  /\ RefCountCovers

-----------------------------------------------------------------------------
(* Sequences and counting *)

\* Append keeps the elements and puts the new one last (Queue push).
LEMMA AppendAt ==
  ASSUME NEW q \in Seq(Packets), NEW e \in Packets
  PROVE  /\ Append(q, e) \in Seq(Packets)
         /\ Len(Append(q, e)) = Len(q) + 1
         /\ \A i \in 1 .. Len(q) : Append(q, e)[i] = q[i]
         /\ Append(q, e)[Len(q) + 1] = e
OBVIOUS

\* Tail drops the first element (Queue pop).
LEMMA TailAt ==
  ASSUME NEW q \in Seq(Packets), q # <<>>
  PROVE  /\ Len(q) > 0
         /\ Head(q) = q[1]
         /\ Head(q) \in Packets
         /\ Tail(q) \in Seq(Packets)
         /\ Len(Tail(q)) = Len(q) - 1
         /\ \A i \in 1 .. (Len(q) - 1) : Tail(q)[i] = q[i + 1]
OBVIOUS

\* The waiting packets of a sample are finitely many: they can be counted.
LEMMA WaitingFinite ==
  ASSUME TypeOK, NEW s \in Packets
  PROVE  IsFiniteSet(Waiting(s)) /\ Cardinality(Waiting(s)) \in Nat
<1>1. IsFiniteSet(PacketsOf(s))
  <2>1. s \in Int /\ s + size[s] - 1 \in Int
    BY DEF TypeOK, Packets
  <2> QED BY <2>1, FS_Interval DEF PacketsOf
<1>2. Waiting(s) \subseteq PacketsOf(s)
  BY DEF Waiting
<1>3. IsFiniteSet(Waiting(s))
  BY <1>1, <1>2, FS_Subset
<1> QED BY <1>3, FS_CardinalityType

-----------------------------------------------------------------------------
(* The initial state *)

LEMMA InitIInv == Init => IInv
<1> SUFFICES ASSUME Init PROVE IInv
  OBVIOUS
<1> USE DEF Init
<1>1. TypeOK
  <2>1. info \in [Packets -> [sample : Packets \cup {NoPacket}, len : Lengths \cup {0}]]
    BY DEF NoInfo
  <2>2. 0 \in 0 .. MaxPackets
    BY RtpTxAssumption
  <2>3. rtpQueue \in Seq(Packets) /\ memoryQueue \in Seq(Packets)
    OBVIOUS
  <2>4. refCount \in [Packets -> Nat] /\ size \in [Packets -> Nat]
    OBVIOUS
  <2>5. isPaused \in BOOLEAN /\ isToreDown \in BOOLEAN /\ socketOpen \in BOOLEAN
        /\ sweepAfter \in BOOLEAN /\ staleRead \in BOOLEAN
    OBVIOUS
  <2>6. allocated \in Int /\ left \in Nat /\ rear \in Nat /\ created \in 0 .. MaxPackets
    BY <2>2
  <2>7. cur \in Packets \cup {NoPacket} /\ held \in Packets \cup {NoPacket}
        /\ lastSent \in Packets \cup {NoPacket}
    OBVIOUS
  <2> QED BY <2>1, <2>3, <2>4, <2>5, <2>6, <2>7 DEF TypeOK
<1>2. QueueShape /\ MemoryShape /\ HeldShape /\ TaskShape
  BY DEF QueueShape, MemoryShape, HeldShape, TaskShape, Pushed, Reading
<1>3. SampleShape
  BY DEF SampleShape
<1>4. InfoShape
  BY DEF InfoShape, Owned
<1>5. TeardownShape
  BY DEF TeardownShape
<1>6. SentShape
  <2>1. Pushed = 0 /\ Len(rtpQueue) = 0 /\ lastSent = 0
    BY DEF Pushed, NoPacket
  <2>2. txPc # "write"
    OBVIOUS
  <2>3. lastSent <= Pushed - Len(rtpQueue)
    <3> HIDE DEF Init
    <3> QED BY <2>1
  <2>4. lastSent = Pushed - Len(rtpQueue)
    <3> HIDE DEF Init
    <3> QED BY <2>1
  <2> QED BY <2>2, <2>3, <2>4 DEF SentShape
<1>7. NoDanglingPacket
  BY DEF NoDanglingPacket, Queued, InHand
<1>8. RefCountCovers
  <2> SUFFICES ASSUME NEW s \in Packets PROVE Cardinality(Waiting(s)) = 0
    BY DEF RefCountCovers
  <2>1. PacketsOf(s) = {}
    BY DEF PacketsOf, Packets
  <2> QED BY <2>1, FS_EmptySet DEF Waiting
<1> QED BY <1>1, <1>2, <1>3, <1>4, <1>5, <1>6, <1>7, <1>8 DEF IInv

-----------------------------------------------------------------------------
(* Steps that touch neither queue nor any sample *)

LEMMA FrameIInv ==
  ASSUME IInv, TypeOK', HeldShape', TeardownShape', SentShape',
         UNCHANGED <<rtpQueue, refCount, memoryQueue, size, info, created, cur, left, rear>>,
         \/ strandPc' = strandPc
         \/ strandPc \in {"idle", "sweep"} /\ strandPc' \in {"idle", "sweep"},
         InHand' = InHand,
         Discarded' = Discarded
  PROVE  IInv'
<1>1. Pushed' = Pushed /\ Reading' = Reading /\ LastBegun' = LastBegun
  BY DEF Pushed, Reading, LastBegun
<1>2. Queued' = Queued /\ \A p \in Packets : Owned(p)' = Owned(p)
  BY DEF Queued, Owned
<1>3. QueueShape' /\ MemoryShape'
  BY <1>1 DEF IInv, QueueShape, MemoryShape
<1>4. TaskShape' /\ SampleShape'
  BY <1>1 DEF IInv, TaskShape, SampleShape
<1>5. InfoShape'
  BY <1>2 DEF IInv, InfoShape, PacketsOf
<1>6. NoDanglingPacket'
  BY <1>2 DEF IInv, NoDanglingPacket, InHand, Owned, Queued
<1>7. RefCountCovers'
  <2>1. \A s \in Packets : Waiting(s)' = Waiting(s)
    BY <1>1, <1>2 DEF Waiting, PacketsOf, Outstanding
  <2> QED BY <2>1 DEF IInv, RefCountCovers
<1> QED BY <1>3, <1>4, <1>5, <1>6, <1>7 DEF IInv

LEMMA TxLoopIInv == IInv /\ TxLoop => IInv'
<1> SUFFICES ASSUME IInv, TxLoop PROVE IInv'
  OBVIOUS
<1> USE DEF TxLoop, TxGoto, sharedVars, strandVars
<1>1. TypeOK'
  BY DEF IInv, TypeOK
<1>2. HeldShape' /\ TeardownShape' /\ SentShape'
  BY DEF IInv, HeldShape, TeardownShape, SentShape, Pushed, Discarded
<1>3. InHand' = InHand /\ Discarded' = Discarded
  BY DEF InHand, Discarded
<1> QED BY <1>1, <1>2, <1>3, FrameIInv

LEMMA TxReadyIInv == IInv /\ TxReady => IInv'
<1> SUFFICES ASSUME IInv, TxReady PROVE IInv'
  OBVIOUS
<1> USE DEF TxReady, TxGoto, sharedVars, strandVars
<1>1. TypeOK'
  BY DEF IInv, TypeOK
<1>2. HeldShape'
  BY DEF IInv, HeldShape, Pushed
<1>3. TeardownShape'
  BY DEF IInv, TeardownShape
<1>4. SentShape'
  BY DEF IInv, SentShape, Pushed, Discarded
<1>5. InHand' = InHand /\ Discarded' = Discarded
  BY DEF InHand, Discarded
<1> QED BY <1>1, <1>2, <1>3, <1>4, <1>5, FrameIInv

LEMMA TxAccountIInv == IInv /\ TxAccount => IInv'
<1> SUFFICES ASSUME IInv, TxAccount PROVE IInv'
  OBVIOUS
<1> USE DEF TxAccount, TxGoto, sharedVars, strandVars
<1>1. TypeOK'
  BY RtpTxAssumption DEF IInv, TypeOK
<1>2. HeldShape'
  BY DEF IInv, HeldShape, Pushed
<1>3. TeardownShape'
  BY DEF IInv, TeardownShape
<1>4. SentShape'
  BY DEF IInv, SentShape, Pushed, Discarded
<1>5. InHand' = InHand /\ Discarded' = Discarded
  BY DEF InHand, Discarded
<1> QED BY <1>1, <1>2, <1>3, <1>4, <1>5, FrameIInv

LEMMA TxCountIInv == IInv /\ TxCount => IInv'
<1> SUFFICES ASSUME IInv, TxCount PROVE IInv'
  OBVIOUS
<1> USE DEF TxCount, TxGoto, sharedVars, strandVars
<1>1. TypeOK'
  BY DEF IInv, TypeOK
<1>2. HeldShape'
  BY DEF IInv, HeldShape, Pushed
<1>3. TeardownShape'
  BY DEF IInv, TeardownShape
<1>4. SentShape'
  BY DEF IInv, SentShape, Pushed, Discarded
<1>5. InHand' = InHand /\ Discarded' = Discarded
  BY DEF InHand, Discarded
<1> QED BY <1>1, <1>2, <1>3, <1>4, <1>5, FrameIInv

LEMMA UpdateIsPausedIInv == IInv /\ updateIsPaused => IInv'
<1> SUFFICES ASSUME IInv, updateIsPaused PROVE IInv'
  OBVIOUS
<1> USE DEF updateIsPaused, strandVars, txVars
<1>1. TypeOK'
  BY DEF IInv, TypeOK
<1>2. HeldShape'
  BY DEF IInv, HeldShape, Pushed
<1>3. TeardownShape'
  BY DEF IInv, TeardownShape
<1>4. SentShape'
  BY DEF IInv, SentShape, Pushed, Discarded
<1>5. InHand' = InHand /\ Discarded' = Discarded
  BY DEF InHand, Discarded
<1> QED BY <1>1, <1>2, <1>3, <1>4, <1>5, FrameIInv

LEMMA SweepOnlyIInv == IInv /\ AudioTaskSweepOnly => IInv'
<1> SUFFICES ASSUME IInv, AudioTaskSweepOnly PROVE IInv'
  OBVIOUS
<1> USE DEF AudioTaskSweepOnly, AudioFires, sharedVars, txVars
<1>1. TypeOK'
  BY DEF IInv, TypeOK
<1>2. HeldShape'
  BY DEF IInv, HeldShape, Pushed
<1>3. TeardownShape'
  BY DEF IInv, TeardownShape
<1>4. SentShape'
  BY DEF IInv, SentShape, Pushed, Discarded
<1>5. InHand' = InHand /\ Discarded' = Discarded
  BY DEF InHand, Discarded
<1> QED BY <1>1, <1>2, <1>3, <1>4, <1>5, FrameIInv

\* No invariant but the types looks at audioTask.
LEMMA AudioComesIInv == IInv /\ (StartAudio \/ StopAudio) => IInv'
<1> SUFFICES ASSUME IInv, StartAudio \/ StopAudio PROVE IInv'
  OBVIOUS
<1>0. /\ UNCHANGED <<sharedVars, strandVars, txVars, tdPc>>
      /\ audioTask' \in {"none", "running", "due"}
  BY DEF StartAudio, StopAudio, AudioStops, IInv, TypeOK
<1> USE <1>0 DEF sharedVars, strandVars, txVars
<1>1. TypeOK'
  BY DEF IInv, TypeOK
<1>2. HeldShape' /\ SentShape' /\ TeardownShape'
  BY DEF IInv, HeldShape, SentShape, TeardownShape, Pushed, Discarded
<1>3. InHand' = InHand /\ Discarded' = Discarded
  BY DEF InHand, Discarded
<1> QED BY <1>1, <1>2, <1>3, FrameIInv

LEMMA SweepEndsIInv == IInv /\ SweepEnds => IInv'
<1> SUFFICES ASSUME IInv, SweepEnds PROVE IInv'
  OBVIOUS
<1> USE DEF SweepEnds, sharedVars, txVars
<1>1. TypeOK'
  BY DEF IInv, TypeOK
<1>2. HeldShape'
  BY DEF IInv, HeldShape, Pushed
<1>3. TeardownShape'
  BY DEF IInv, TeardownShape
<1>4. SentShape'
  BY DEF IInv, SentShape, Pushed, Discarded
<1>5. InHand' = InHand /\ Discarded' = Discarded
  BY DEF InHand, Discarded
<1> QED BY <1>1, <1>2, <1>3, <1>4, <1>5, FrameIInv

LEMMA TdZeroIInv == IInv /\ TdZero => IInv'
<1> SUFFICES ASSUME IInv, TdZero PROVE IInv'
  OBVIOUS
<1> USE DEF TdZero, strandVars, txVars
<1>1. TypeOK'
  BY DEF IInv, TypeOK
<1>2. HeldShape'
  BY DEF IInv, HeldShape, Pushed
<1>3. TeardownShape'
  BY DEF IInv, TeardownShape
<1>4. SentShape'
  BY DEF IInv, SentShape, Pushed, Discarded
<1>5. InHand' = InHand /\ Discarded' = Discarded
  BY DEF InHand, Discarded
<1> QED BY <1>1, <1>2, <1>3, <1>4, <1>5, FrameIInv

LEMMA TdFlagIInv == IInv /\ TdFlag => IInv'
<1> SUFFICES ASSUME IInv, TdFlag PROVE IInv'
  OBVIOUS
<1> USE DEF TdFlag, strandVars, txVars
<1>1. TypeOK'
  BY DEF IInv, TypeOK
<1>2. HeldShape'
  BY DEF IInv, HeldShape, Pushed
<1>3. TeardownShape'
  BY DEF IInv, TeardownShape
<1>4. SentShape'
  BY DEF IInv, SentShape, Pushed, Discarded
<1>5. InHand' = InHand /\ Discarded' = Discarded
  BY DEF InHand, Discarded
<1> QED BY <1>1, <1>2, <1>3, <1>4, <1>5, FrameIInv

LEMMA CloseSocketIInv == IInv /\ closeSocket => IInv'
<1> SUFFICES ASSUME IInv, closeSocket PROVE IInv'
  OBVIOUS
<1> USE DEF closeSocket, strandVars, txVars
<1>1. TypeOK'
  <2>1. socketOpen' \in BOOLEAN /\ tdPc' \in {"none", "zeroed", "flagged", "cleared", "closed"}
    OBVIOUS
  <2>2. UNCHANGED <<rtpQueue, refCount, allocated, isPaused, isToreDown, strandVars, txVars, audioTask>>
    OBVIOUS
  <2> HIDE DEF closeSocket
  <2> QED BY <2>1, <2>2 DEF IInv, TypeOK
<1>2. HeldShape'
  BY DEF IInv, HeldShape, Pushed
<1>3. TeardownShape'
  BY DEF IInv, TeardownShape
<1>4. SentShape'
  BY DEF IInv, SentShape, Pushed, Discarded
<1>5. InHand' = InHand /\ Discarded' = Discarded
  BY DEF InHand, Discarded
<1> QED BY <1>1, <1>2, <1>3, <1>4, <1>5, FrameIInv

\* The written packet was the next one unless the queue had been discarded.
LEMMA TxWriteIInv == IInv /\ TxWrite => IInv'
<1> SUFFICES ASSUME IInv, TxWrite PROVE IInv'
  OBVIOUS
<1>0. /\ txPc = "write" /\ txPc' = "deref"
      /\ lastSent' = IF socketOpen THEN held ELSE lastSent
      /\ UNCHANGED <<sharedVars, strandVars, held, staleRead, tdPc, audioTask>>
  BY DEF TxWrite, TxGoto
<1> USE DEF sharedVars, strandVars
<1>1. held \in Packets /\ held <= Pushed - Len(rtpQueue)
  BY <1>0 DEF IInv, HeldShape
<1>2. TypeOK'
  BY <1>0, <1>1 DEF IInv, TypeOK
<1>3. HeldShape'
  BY <1>0, <1>1 DEF HeldShape, Pushed
<1>4. TeardownShape'
  BY <1>0 DEF IInv, TeardownShape
<1>5. SentShape'
  <2>1. Pushed' = Pushed /\ Len(rtpQueue') = Len(rtpQueue) /\ Discarded' = Discarded
    BY <1>0 DEF Pushed, Discarded
  <2>2. lastSent' \in {held, lastSent}
    BY <1>0
  <2>3. ~Discarded => lastSent' = held
    BY <1>0 DEF IInv, TeardownShape, Discarded
  <2>4. lastSent <= Pushed - Len(rtpQueue)
    BY DEF IInv, SentShape
  <2>5. ~Discarded => held = Pushed - Len(rtpQueue)
    BY <1>0 DEF IInv, SentShape
  <2> QED BY <1>0, <1>1, <2>1, <2>2, <2>3, <2>4, <2>5 DEF SentShape
<1>6. InHand' = InHand /\ Discarded' = Discarded
  BY <1>0 DEF InHand, Discarded
<1> QED BY <1>0, <1>2, <1>3, <1>4, <1>5, <1>6, FrameIInv

-----------------------------------------------------------------------------
(* The RTP thread takes a packet and gives its reference back *)

\* The popped packet moves from the queue to the thread's hand: what is
\* outstanding stays the same.
LEMMA TxPopIInv == IInv /\ TxPop => IInv'
<1> SUFFICES ASSUME IInv, TxPop PROVE IInv'
  OBVIOUS
<1>0. /\ txPc = "pop"
      /\ UNCHANGED <<refCount, allocated, isPaused, isToreDown, socketOpen,
                     strandVars, lastSent, staleRead, tdPc, audioTask>>
  BY DEF TxPop
<1>1. CASE rtpQueue = <<>>
  <2>1. txPc' = "loop" /\ UNCHANGED <<rtpQueue, held>>
    BY <1>1 DEF TxPop, TxGoto
  <2> USE <1>0, <2>1 DEF strandVars
  <2>2. TypeOK'
    BY DEF IInv, TypeOK
  <2>3. HeldShape'
    BY DEF HeldShape
  <2>4. TeardownShape'
    BY DEF IInv, TeardownShape
  <2>5. SentShape'
    BY DEF IInv, SentShape, Pushed, Discarded
  <2>6. InHand' = InHand /\ Discarded' = Discarded
    BY DEF InHand, Discarded
  <2> QED BY <2>2, <2>3, <2>4, <2>5, <2>6, FrameIInv
<1>2. CASE rtpQueue # <<>>
  <2>1. held' = Head(rtpQueue) /\ rtpQueue' = Tail(rtpQueue) /\ txPc' = "write"
    BY <1>2 DEF TxPop, TxGoto
  <2> USE DEF strandVars
  <2>2. rtpQueue \in Seq(Packets) /\ Len(rtpQueue) <= Pushed /\ Pushed \in Int
    BY DEF IInv, TypeOK, QueueShape, Pushed
  <2>3. /\ Len(rtpQueue) > 0 /\ Len(rtpQueue') = Len(rtpQueue) - 1
        /\ held' = rtpQueue[1] /\ held' \in Packets /\ rtpQueue' \in Seq(Packets)
        /\ \A i \in 1 .. (Len(rtpQueue) - 1) : rtpQueue'[i] = rtpQueue[i + 1]
    BY <1>2, <2>1, <2>2, TailAt
  <2>4. /\ Pushed' = Pushed /\ Reading' = Reading /\ LastBegun' = LastBegun
        /\ Discarded' = Discarded
    BY <1>0 DEF Pushed, Reading, LastBegun, Discarded
  <2>5. held' = Pushed - Len(rtpQueue) + 1
    BY <2>3, <2>2 DEF IInv, QueueShape
  <2>6. TypeOK'
    BY <1>0, <2>1, <2>3 DEF IInv, TypeOK
  <2>7. QueueShape'
    <3>1. \A i \in 1 .. Len(rtpQueue) : rtpQueue[i] = Pushed - Len(rtpQueue) + i
      BY DEF IInv, QueueShape
    <3> QED BY <2>2, <2>3, <2>4, <3>1 DEF QueueShape
  <2>8. MemoryShape' /\ HeldShape'
    BY <1>0, <2>2, <2>3, <2>4, <2>5 DEF IInv, MemoryShape, HeldShape
  <2>9. TaskShape' /\ SampleShape'
    BY <1>0, <2>4 DEF IInv, TaskShape, SampleShape
  <2>10. InfoShape' /\ TeardownShape'
    BY <1>0 DEF IInv, InfoShape, TeardownShape, PacketsOf, Owned
  <2>11. SentShape'
    <3>1. lastSent <= Pushed - Len(rtpQueue)
          /\ (~Discarded => lastSent = Pushed - Len(rtpQueue))
      BY <1>0 DEF IInv, SentShape
    <3>2. lastSent \in Int /\ lastSent' = lastSent
      BY <1>0 DEF IInv, TypeOK, Packets, NoPacket
    <3> QED BY <2>1, <2>2, <2>3, <2>4, <2>5, <3>1, <3>2 DEF SentShape
  <2>12. Queued' \cup InHand' = Queued \cup InHand
    <3>1. InHand = {} /\ InHand' = {rtpQueue[1]}
      BY <1>0, <2>1, <2>3 DEF InHand
    <3>2. Queued' = {rtpQueue[i + 1] : i \in 1 .. (Len(rtpQueue) - 1)}
      BY <2>2, <2>3 DEF Queued
    <3>3. Queued = {rtpQueue[i] : i \in 1 .. Len(rtpQueue)}
      BY <2>2 DEF Queued
    <3>4. {rtpQueue[i + 1] : i \in 1 .. (Len(rtpQueue) - 1)} \cup {rtpQueue[1]}
            = {rtpQueue[i] : i \in 1 .. Len(rtpQueue)}
      <4>1. \A i \in 1 .. Len(rtpQueue) :
              i = 1 \/ (i - 1 \in 1 .. (Len(rtpQueue) - 1) /\ i = (i - 1) + 1)
        BY <2>3, <2>2
      <4>2. \A i \in 1 .. (Len(rtpQueue) - 1) : i + 1 \in 1 .. Len(rtpQueue)
        BY <2>3, <2>2
      <4>3. 1 \in 1 .. Len(rtpQueue)
        BY <2>3, <2>2
      <4> QED BY <4>1, <4>2, <4>3
    <3> QED BY <3>1, <3>2, <3>3, <3>4
  <2>13. NoDanglingPacket'
    <3>1. \A p \in Queued' \cup InHand' : Owned(p)
      BY <2>12 DEF IInv, NoDanglingPacket
    <3> QED BY <3>1, <1>0 DEF NoDanglingPacket, Owned
  <2>14. RefCountCovers'
    <3>1. Outstanding' = Outstanding
      BY <2>12, <2>4 DEF Outstanding
    <3>2. \A s \in Packets : Waiting(s)' = Waiting(s)
      BY <3>1, <1>0 DEF Waiting, PacketsOf
    <3> QED BY <3>2, <1>0, <2>4 DEF IInv, RefCountCovers
  <2> QED BY <2>6, <2>7, <2>8, <2>9, <2>10, <2>11, <2>13, <2>14 DEF IInv
<1> QED BY <1>1, <1>2

\* Giving a reference back takes exactly the transmitted packet out of the
\* waiting packets of its sample, and of no other sample.
LEMMA TxDerefIInv == IInv /\ TxDeref => IInv'
<1> SUFFICES ASSUME IInv, TxDeref PROVE IInv'
  OBVIOUS
<1> DEFINE s0 == info[held].sample
<1>0. /\ txPc = "deref" /\ txPc' = "account"
      /\ refCount' = [refCount EXCEPT ![s0] = @ - 1]
      /\ UNCHANGED <<rtpQueue, allocated, isPaused, isToreDown, socketOpen,
                     strandVars, held, lastSent, staleRead, tdPc, audioTask>>
  BY DEF TxDeref, TxGoto
<1> USE DEF strandVars
<1>1. held \in Packets /\ held <= Pushed - Len(rtpQueue) /\ InHand = {held} /\ Owned(held)
  BY <1>0 DEF IInv, HeldShape, InHand, NoDanglingPacket
<1>2. s0 \in Packets /\ held \in PacketsOf(s0)
  BY <1>1 DEF IInv, InfoShape
<1>3. /\ Pushed' = Pushed /\ Reading' = Reading /\ LastBegun' = LastBegun
      /\ Discarded' = Discarded /\ Queued' = Queued /\ InHand' = {}
  BY <1>0 DEF Pushed, Reading, LastBegun, Discarded, Queued, InHand
<1>4. held \notin Queued /\ held \notin (Pushed + 1) .. MaxPackets
  <2>1. rtpQueue \in Seq(Packets) /\ Pushed \in Int /\ Len(rtpQueue) \in Nat /\ held \in Int
    BY <1>1 DEF IInv, TypeOK, Pushed, Packets
  <2>2. \A i \in 1 .. Len(rtpQueue) : rtpQueue[i] = Pushed - Len(rtpQueue) + i
    BY DEF IInv, QueueShape
  <2>3. \A i \in DOMAIN rtpQueue : rtpQueue[i] # held
    BY <1>1, <2>1, <2>2
  <2>4. held \notin Queued
    BY <2>3 DEF Queued
  <2>5. held \notin (Pushed + 1) .. MaxPackets
    BY <1>1, <2>1
  <2> QED BY <2>4, <2>5
<1>5. Outstanding' = Outstanding \ {held}
  <2>1. Outstanding = Queued \cup {held} \cup ((Pushed + 1) .. MaxPackets)
    BY <1>1 DEF Outstanding
  <2>2. Outstanding' = Queued \cup {} \cup ((Pushed + 1) .. MaxPackets)
    BY <1>3 DEF Outstanding
  <2> QED BY <1>4, <2>1, <2>2
<1>6. Waiting(s0)' = Waiting(s0) \ {held} /\ held \in Waiting(s0)
  BY <1>0, <1>1, <1>2, <1>5 DEF Waiting, PacketsOf, Outstanding
<1>7. Cardinality(Waiting(s0)') = Cardinality(Waiting(s0)) - 1
      /\ Cardinality(Waiting(s0)) \in Nat /\ Cardinality(Waiting(s0)') \in Nat
  <2>1. IsFiniteSet(Waiting(s0)) /\ Cardinality(Waiting(s0)) \in Nat
    BY <1>2, WaitingFinite DEF IInv
  <2>2. IsFiniteSet(Waiting(s0)') /\ Cardinality(Waiting(s0)') \in Nat
    BY <1>6, <2>1, FS_Subset, FS_CardinalityType
  <2> QED BY <1>6, <2>1, <2>2, FS_RemoveElement
<1>8. \A s \in Packets : s # s0 => Waiting(s)' = Waiting(s)
  <2> SUFFICES ASSUME NEW s \in Packets, s # s0 PROVE held \notin PacketsOf(s)
    BY <1>0, <1>5 DEF Waiting, PacketsOf
  <2>1. size[s] \in Nat /\ size[s0] \in Nat /\ s \in Int /\ s0 \in Int /\ held \in Int
    BY <1>1, <1>2 DEF IInv, TypeOK, Packets
  <2>2. size[s] > 0 /\ size[s0] > 0 /\ s < s0 => s + size[s] <= s0
    BY <1>2 DEF IInv, SampleShape
  <2>3. size[s] > 0 /\ size[s0] > 0 /\ s0 < s => s0 + size[s0] <= s
    BY <1>2 DEF IInv, SampleShape
  <2> QED BY <1>2, <2>1, <2>2, <2>3 DEF PacketsOf
<1>9. RefCountCovers' /\ refCount' \in [Packets -> Nat]
  <2>1. refCount[s0] >= Cardinality(Waiting(s0))
        /\ (~Discarded => refCount[s0] = Cardinality(Waiting(s0)))
        /\ refCount \in [Packets -> Nat]
    BY <1>2 DEF IInv, RefCountCovers, TypeOK
  <2>2. refCount[s0] - 1 \in Nat
    BY <1>2, <1>7, <2>1
  <2>3. refCount'[s0] = refCount[s0] - 1
        /\ \A s \in Packets : s # s0 => refCount'[s] = refCount[s]
    BY <1>0, <1>2, <2>1
  <2>4. refCount' \in [Packets -> Nat]
    BY <1>0, <2>1, <2>2
  <2>5. ASSUME NEW s \in Packets
        PROVE  /\ refCount'[s] >= Cardinality(Waiting(s)')
               /\ ~Discarded => refCount'[s] = Cardinality(Waiting(s)')
    <3>1. CASE s = s0
      <4>1. Waiting(s)' = Waiting(s0)' /\ refCount'[s] = refCount[s0] - 1
        BY <1>0, <2>3, <3>1
      <4>2. refCount[s0] \in Nat
        BY <1>2, <2>1
      <4> QED BY <1>7, <2>1, <4>1, <4>2
    <3>2. CASE s # s0
      BY <1>8, <2>3, <3>2 DEF IInv, RefCountCovers
    <3> QED BY <3>1, <3>2
  <2>6. RefCountCovers'
    BY <2>5, <1>3 DEF RefCountCovers
  <2> QED BY <2>4, <2>6
<1>10. TypeOK'
  BY <1>0, <1>9 DEF IInv, TypeOK
<1>11. QueueShape' /\ MemoryShape' /\ HeldShape'
  BY <1>0, <1>1, <1>3 DEF IInv, QueueShape, MemoryShape, HeldShape
<1>12. TaskShape' /\ SampleShape'
  BY <1>0, <1>3 DEF IInv, TaskShape, SampleShape
<1>13. InfoShape' /\ TeardownShape'
  BY <1>0 DEF IInv, InfoShape, TeardownShape, PacketsOf, Owned
<1>14. SentShape'
  BY <1>0, <1>3 DEF IInv, SentShape
<1>15. NoDanglingPacket'
  BY <1>0, <1>3 DEF IInv, NoDanglingPacket, Owned
<1> QED BY <1>9, <1>10, <1>11, <1>12, <1>13, <1>14, <1>15 DEF IInv

-----------------------------------------------------------------------------
(* The strand reclaims, the teardown discards *)

\* A packet is freed only when nothing of its sample is outstanding.
LEMMA DeleteDanglingIInv == IInv /\ deleteDanglingRtps => IInv'
<1> SUFFICES ASSUME IInv, deleteDanglingRtps PROVE IInv'
  OBVIOUS
<1> DEFINE p0 == Head(memoryQueue)
<1> DEFINE s0 == info[p0].sample
<1>0. /\ strandPc = "sweep" /\ memoryQueue # <<>> /\ refCount[s0] = 0
      /\ memoryQueue' = Tail(memoryQueue)
      /\ info' = [info EXCEPT ![p0] = NoInfo]
      /\ UNCHANGED <<sharedVars, size, created, strandPc, cur, left, rear,
                     sweepAfter, txVars, tdPc, audioTask>>
  BY DEF deleteDanglingRtps, FrontReclaimable, Reclaimable
<1> USE DEF sharedVars, txVars
<1>1. /\ memoryQueue \in Seq(Packets) /\ created \in Nat
      /\ Len(memoryQueue) > 0 /\ Len(memoryQueue') = Len(memoryQueue) - 1
      /\ p0 = memoryQueue[1] /\ p0 \in Packets /\ memoryQueue' \in Seq(Packets)
      /\ \A i \in 1 .. (Len(memoryQueue) - 1) : memoryQueue'[i] = memoryQueue[i + 1]
  BY <1>0, TailAt DEF IInv, TypeOK
<1>2. Owned(p0) /\ s0 \in Packets /\ p0 \in PacketsOf(s0)
  <2>1. 1 \in DOMAIN memoryQueue
    BY <1>1
  <2>2. Owned(p0)
    BY <1>1, <2>1 DEF Owned
  <2> QED BY <1>1, <2>2 DEF IInv, InfoShape
<1>3. p0 \notin Outstanding
  <2>1. IsFiniteSet(Waiting(s0)) /\ Cardinality(Waiting(s0)) \in Nat
    BY <1>2, WaitingFinite DEF IInv
  <2>2. Cardinality(Waiting(s0)) <= 0
    BY <1>0, <1>2 DEF IInv, RefCountCovers
  <2>3. Waiting(s0) = {}
    BY <2>1, <2>2, FS_EmptySet
  <2> QED BY <1>2, <2>3 DEF Waiting
<1>4. /\ Pushed' = Pushed /\ Reading' = Reading /\ LastBegun' = LastBegun
      /\ Discarded' = Discarded /\ Queued' = Queued /\ InHand' = InHand
  BY <1>0 DEF Pushed, Reading, LastBegun, Discarded, Queued, InHand
<1>5. Outstanding' = Outstanding
  BY <1>4 DEF Outstanding
<1>6. \A p : Owned(p) /\ p # p0 => Owned(p)'
  <2> SUFFICES ASSUME NEW p, Owned(p), p # p0 PROVE Owned(p)'
    OBVIOUS
  <2>1. PICK i \in 1 .. Len(memoryQueue) : memoryQueue[i] = p
    BY <1>1 DEF Owned
  <2>2. i - 1 \in 1 .. (Len(memoryQueue) - 1)
    BY <1>1, <2>1
  <2>3. memoryQueue'[i - 1] = p
    BY <1>1, <2>1, <2>2
  <2> QED BY <1>1, <2>2, <2>3 DEF Owned
<1>7. \A p : Owned(p)' => Owned(p) /\ p # p0
  <2> SUFFICES ASSUME NEW p, Owned(p)' PROVE Owned(p) /\ p # p0
    OBVIOUS
  <2>1. PICK i \in 1 .. (Len(memoryQueue) - 1) : memoryQueue'[i] = p
    BY <1>1 DEF Owned
  <2>2. memoryQueue[i + 1] = p /\ i + 1 \in 1 .. Len(memoryQueue)
    BY <1>1, <2>1
  <2>3. \A j \in 1 .. Len(memoryQueue) : memoryQueue[j] = created - Len(memoryQueue) + j
    BY DEF IInv, MemoryShape
  <2>4. p # p0
    BY <1>1, <2>1, <2>2, <2>3
  <2> QED BY <1>1, <2>2, <2>4 DEF Owned
<1>8. NoDanglingPacket'
  <2>1. \A p \in Queued \cup InHand : Owned(p) /\ p # p0
    BY <1>3 DEF IInv, NoDanglingPacket, Outstanding
  <2> QED BY <1>4, <1>6, <2>1 DEF NoDanglingPacket
<1>9. RefCountCovers'
  <2>1. \A s \in Packets : Waiting(s)' = Waiting(s)
    BY <1>0, <1>5 DEF Waiting, PacketsOf
  <2> QED BY <1>0, <1>4, <2>1 DEF IInv, RefCountCovers
<1>10. TypeOK'
  <2>1. NoInfo \in [sample : Packets \cup {NoPacket}, len : Lengths \cup {0}]
    BY DEF NoInfo
  <2>2. info' \in [Packets -> [sample : Packets \cup {NoPacket}, len : Lengths \cup {0}]]
    BY <1>0, <2>1 DEF IInv, TypeOK
  <2> QED BY <1>0, <1>1, <2>2 DEF IInv, TypeOK
<1>11. MemoryShape'
  <2>1. \A j \in 1 .. Len(memoryQueue) : memoryQueue[j] = created - Len(memoryQueue) + j
        /\ Len(memoryQueue) <= created
    BY DEF IInv, MemoryShape
  <2> QED BY <1>0, <1>1, <2>1 DEF MemoryShape
<1>12. QueueShape' /\ HeldShape' /\ SentShape' /\ TeardownShape'
  BY <1>0, <1>4 DEF IInv, QueueShape, HeldShape, SentShape, TeardownShape
<1>13. TaskShape' /\ SampleShape'
  BY <1>0, <1>4 DEF IInv, TaskShape, SampleShape
<1>14. InfoShape'
  <2>1. \A p \in Packets : p # p0 => info'[p] = info[p]
    BY <1>0 DEF IInv, TypeOK
  <2> QED BY <1>0, <1>7, <2>1 DEF IInv, InfoShape, PacketsOf
<1> QED BY <1>8, <1>9, <1>10, <1>11, <1>12, <1>13, <1>14 DEF IInv

\* Discarding the queue only makes samples wait for less than they count.
LEMMA ClearRtpQueueIInv == IInv /\ clearRtpQueue => IInv'
<1> SUFFICES ASSUME IInv, clearRtpQueue PROVE IInv'
  OBVIOUS
<1>0. /\ tdPc = "flagged" /\ tdPc' = "cleared" /\ rtpQueue' = <<>>
      /\ UNCHANGED <<refCount, allocated, isPaused, isToreDown, socketOpen,
                     strandVars, txVars>>
      /\ audioTask' \in {audioTask, "none", "due"}
  BY DEF clearRtpQueue, AudioStops
<1> USE DEF strandVars, txVars
<1>1. /\ Pushed' = Pushed /\ Reading' = Reading /\ LastBegun' = LastBegun
      /\ InHand' = InHand /\ Discarded' /\ Queued' = {} /\ Len(rtpQueue') = 0
  BY <1>0 DEF Pushed, Reading, LastBegun, InHand, Discarded, Queued
<1>2. Len(rtpQueue) \in Nat /\ Pushed \in Int /\ created \in Nat /\ Len(rtpQueue) <= Pushed
  BY DEF IInv, TypeOK, Pushed, QueueShape
<1>3. TypeOK'
  BY <1>0 DEF IInv, TypeOK
<1>4. QueueShape' /\ MemoryShape'
  BY <1>0, <1>1, <1>2 DEF IInv, QueueShape, MemoryShape
<1>5. HeldShape'
  <2>1. \A h \in Packets : h <= Pushed - Len(rtpQueue) => h <= Pushed
    BY <1>2 DEF Packets
  <2> QED BY <1>0, <1>1, <1>2, <2>1 DEF IInv, HeldShape
<1>6. SentShape'
  <2>1. lastSent \in Int /\ lastSent <= Pushed - Len(rtpQueue)
    BY DEF IInv, SentShape, TypeOK, Packets, NoPacket
  <2>2. lastSent <= Pushed - 0
    BY <1>2, <2>1
  <2>3. txPc = "write" => lastSent < held
    BY DEF IInv, SentShape
  <2> QED BY <1>0, <1>1, <2>2, <2>3 DEF SentShape
<1>7. TaskShape' /\ SampleShape'
  BY <1>0, <1>1 DEF IInv, TaskShape, SampleShape
<1>8. InfoShape'
  BY <1>0 DEF IInv, InfoShape, PacketsOf, Owned
<1>9. TeardownShape'
  BY <1>0 DEF IInv, TeardownShape
<1>10. NoDanglingPacket'
  BY <1>0, <1>1 DEF IInv, NoDanglingPacket, Owned
<1>11. RefCountCovers'
  <2> SUFFICES ASSUME NEW s \in Packets PROVE refCount[s] >= Cardinality(Waiting(s)')
    BY <1>0, <1>1 DEF RefCountCovers
  <2>1. IsFiniteSet(Waiting(s)) /\ Cardinality(Waiting(s)) \in Nat
    BY WaitingFinite DEF IInv
  <2>2. Waiting(s)' \subseteq Waiting(s)
    BY <1>0, <1>1 DEF Waiting, PacketsOf, Outstanding
  <2>3. Cardinality(Waiting(s)') <= Cardinality(Waiting(s)) /\ Cardinality(Waiting(s)') \in Nat
    BY <2>1, <2>2, FS_Subset, FS_CardinalityType
  <2>4. refCount[s] >= Cardinality(Waiting(s)) /\ refCount[s] \in Nat
    BY DEF IInv, RefCountCovers, TypeOK
  <2> QED BY <2>1, <2>3, <2>4
<1> QED BY <1>3, <1>4, <1>5, <1>6, <1>7, <1>8, <1>9, <1>10, <1>11 DEF IInv

-----------------------------------------------------------------------------
(* The strand reads and enqueues *)

\* A sample that begins behind all others is disjoint from them, and all its
\* packets are outstanding: its reference count is exact from the start.
LEMMA BeginSample ==
  ASSUME IInv, NEW n \in Nat, n > 0, NEW r \in Nat, rear' = r,
         created + n + r <= MaxPackets,
         LastBegun = created,
         StartSample(created + 1, n),
         Outstanding' = Outstanding, Pushed \in {created - 1, created},
         Discarded' = Discarded,
         UNCHANGED <<memoryQueue, info, created>>
  PROVE  /\ refCount' \in [Packets -> Nat] /\ size' \in [Packets -> Nat]
         /\ cur' \in Packets /\ left' \in Nat
         /\ TaskShape' /\ SampleShape' /\ InfoShape' /\ RefCountCovers'
<1> DEFINE b == created + 1
<1>0. /\ cur' = b /\ left' = n /\ strandPc' = "own"
      /\ size' = [size EXCEPT ![b] = n]
      /\ refCount' = [refCount EXCEPT ![b] = n]
  BY DEF StartSample
<1>1. created \in Nat /\ b \in Packets /\ MaxPackets \in Nat /\ b \in Nat
      /\ created + n <= MaxPackets
  <2>1. created \in Nat /\ MaxPackets \in Nat
    BY RtpTxAssumption DEF IInv, TypeOK
  <2>2. \A c \in Nat, m \in Nat : c + n + r <= m => c + n <= m
    OBVIOUS
  <2>3. created + n <= MaxPackets
    BY <2>1, <2>2
  <2> QED BY <2>1, <2>3 DEF Packets
<1>2. size \in [Packets -> Nat] /\ refCount \in [Packets -> Nat]
  BY DEF IInv, TypeOK
<1>3. /\ size' \in [Packets -> Nat] /\ refCount' \in [Packets -> Nat]
      /\ size'[b] = n /\ refCount'[b] = n
      /\ \A s \in Packets : s # b => size'[s] = size[s] /\ refCount'[s] = refCount[s]
  BY <1>0, <1>1, <1>2
<1>4. \A s \in Packets : size[s] > 0 => s + size[s] <= b
  <2>1. \A s \in Packets : size[s] > 0 => s + size[s] - 1 <= created
    BY DEF IInv, SampleShape
  <2> QED BY <1>1, <1>2, <2>1 DEF Packets
<1>5. size[b] = 0
  BY <1>1, <1>2, <1>4
<1>6. Reading' /\ Pushed' = created /\ LastBegun' = b + n - 1
  BY <1>0, <1>3 DEF Reading, Pushed, LastBegun
<1>7. TaskShape'
  <2>1. left' \in 1 .. size'[cur']
    BY <1>0, <1>3
  <2>2. Pushed' + 1 = cur' + size'[cur'] - left'
    BY <1>0, <1>1, <1>3, <1>6
  <2>3. cur' + size'[cur'] - 1 + rear' <= MaxPackets
    <3>1. cur' + size'[cur'] - 1 = created + n
      BY <1>0, <1>1, <1>3
    <3> QED BY <3>1
  <2> QED BY <1>0, <1>1, <2>1, <2>2, <2>3 DEF TaskShape
<1>8. SampleShape'
  <2>1. ASSUME NEW s \in Packets, size'[s] > 0 PROVE s + size'[s] - 1 <= b + n - 1
    <3>1. CASE s = b
      BY <1>1, <1>3, <3>1
    <3>2. CASE s # b
      <4>1. size'[s] = size[s] /\ size[s] \in Nat /\ s \in Nat
        BY <1>2, <1>3, <3>2 DEF Packets
      <4>2. s + size[s] <= b
        BY <1>4, <2>1, <4>1
      <4> QED BY <1>1, <4>1, <4>2
    <3> QED BY <3>1, <3>2
  <2>2. ASSUME NEW s \in Packets, NEW t \in Packets, size'[s] > 0, size'[t] > 0, s < t
        PROVE  s + size'[s] <= t
    <3>1. s # b
      <4>1. s = b => t # b /\ size[t] > 0
        BY <1>3, <2>2
      <4>2. t \in Nat /\ size[t] \in Nat
        BY <1>2 DEF Packets
      <4>3. s = b => t + size[t] <= b
        BY <1>4, <4>1
      <4> QED BY <1>1, <2>2, <4>1, <4>2, <4>3
    <3>2. size'[s] = size[s] /\ size[s] > 0
      BY <1>3, <2>2, <3>1
    <3>3. CASE t = b
      BY <1>4, <3>2, <3>3
    <3>4. CASE t # b
      BY <1>3, <2>2, <3>2, <3>4 DEF IInv, SampleShape
    <3> QED BY <3>3, <3>4
  <2> QED BY <1>6, <2>1, <2>2 DEF SampleShape
<1>9. InfoShape'
  <2> SUFFICES ASSUME NEW p \in Packets, Owned(p)'
               PROVE  info'[p].sample \in Packets /\ p \in PacketsOf(info[p].sample)'
    BY DEF InfoShape
  <2>1. Owned(p) /\ info' = info
    BY DEF Owned
  <2>2. info[p].sample \in Packets /\ p \in PacketsOf(info[p].sample)
    BY <2>1 DEF IInv, InfoShape
  <2>3. PacketsOf(b) = {}
    BY <1>1, <1>5 DEF PacketsOf
  <2>4. info[p].sample # b
    BY <2>2, <2>3
  <2>5. size'[info[p].sample] = size[info[p].sample]
    BY <1>3, <2>2, <2>4
  <2> QED BY <2>1, <2>2, <2>5 DEF PacketsOf
<1>10. RefCountCovers'
  <2>1. ASSUME NEW s \in Packets
        PROVE  /\ refCount'[s] >= Cardinality(Waiting(s)')
               /\ ~Discarded => refCount'[s] = Cardinality(Waiting(s)')
    <3>1. CASE s = b
      <4>1. Waiting(s)' = b .. (b + n - 1) \cap Outstanding
        BY <1>3, <3>1 DEF Waiting, PacketsOf
      <4>2. b .. (b + n - 1) \subseteq (Pushed + 1) .. MaxPackets
        <5>1. Pushed + 1 <= b /\ Pushed \in Int /\ b + n - 1 <= MaxPackets
          BY <1>1
        <5> QED BY <1>1, <5>1
      <4>3. Waiting(s)' = b .. (b + n - 1)
        BY <4>1, <4>2 DEF Outstanding
      <4>4. Cardinality(b .. (b + n - 1)) = n
        <5>1. b \in Int /\ b + n - 1 \in Int /\ b + n - 1 >= b /\ (b + n - 1) - b + 1 = n
          BY <1>1
        <5> QED BY <5>1, FS_Interval
      <4> QED BY <1>3, <3>1, <4>3, <4>4
    <3>2. CASE s # b
      <4>1. Waiting(s)' = Waiting(s)
        BY <1>3, <3>2 DEF Waiting, PacketsOf
      <4> QED BY <1>3, <3>2, <4>1 DEF IInv, RefCountCovers
    <3> QED BY <3>1, <3>2
  <2> QED BY <2>1 DEF RefCountCovers
<1> QED BY <1>0, <1>1, <1>3, <1>7, <1>8, <1>9, <1>10

\* The owner's queue gets the packet before the transmission queue does.
LEMMA EnqueueMemoryIInv == IInv /\ enqueueRtpForMemoryMgmt => IInv'
<1> SUFFICES ASSUME IInv, enqueueRtpForMemoryMgmt PROVE IInv'
  OBVIOUS
<1> DEFINE e == created + 1
<1>0. /\ strandPc = "own" /\ strandPc' = "queue" /\ created' = e
      /\ memoryQueue' = Append(memoryQueue, e)
      /\ UNCHANGED <<rtpQueue, refCount, isPaused, isToreDown, socketOpen, size,
                     cur, left, rear, sweepAfter, txVars, tdPc, audioTask>>
  BY DEF enqueueRtpForMemoryMgmt
<1>1. PICK l \in Lengths :
        /\ info' = [info EXCEPT ![e] = [sample |-> cur, len |-> l]]
        /\ allocated' = allocated + l
  BY DEF enqueueRtpForMemoryMgmt, Charge
<1> USE DEF txVars
<1>2. /\ created \in Nat /\ MaxPackets \in Nat /\ cur \in Packets /\ cur \in Nat
      /\ left \in Nat /\ left > 0 /\ left <= size[cur] /\ size[cur] \in Nat /\ rear \in Nat
      /\ Pushed = created /\ e = cur + size[cur] - left
      /\ cur + size[cur] - 1 + rear <= MaxPackets
  <2>1. created \in Nat /\ MaxPackets \in Nat /\ rear \in Nat /\ size \in [Packets -> Nat]
        /\ left \in Nat
    BY RtpTxAssumption DEF IInv, TypeOK
  <2>2. Reading /\ Pushed = created
    BY <1>0 DEF Reading, Pushed
  <2>3. /\ cur \in Packets /\ left \in 1 .. size[cur] /\ e = cur + size[cur] - left
        /\ cur + size[cur] - 1 + rear <= MaxPackets
    BY <2>2 DEF IInv, TaskShape
  <2> QED BY <2>1, <2>2, <2>3 DEF Packets
<1>3. e \in Packets /\ e \in Nat /\ e \in PacketsOf(cur)
  <2>1. e <= MaxPackets
    <3>1. e <= cur + size[cur] - 1
      BY <1>2
    <3>2. \A c \in Nat, n \in Nat, m \in Nat, r \in Nat :
            c + n - 1 + r <= m => c + n - 1 <= m
      OBVIOUS
    <3>3. cur + size[cur] - 1 <= MaxPackets
      BY <1>2, <3>2
    <3> QED BY <1>2, <3>1, <3>3
  <2>2. cur <= e /\ e <= cur + size[cur] - 1
    BY <1>2
  <2> QED BY <1>2, <2>1, <2>2 DEF Packets, PacketsOf
<1>4. /\ memoryQueue \in Seq(Packets) /\ Len(memoryQueue) \in Nat
      /\ memoryQueue' \in Seq(Packets)
      /\ Len(memoryQueue') = Len(memoryQueue) + 1
      /\ \A i \in 1 .. Len(memoryQueue) : memoryQueue'[i] = memoryQueue[i]
      /\ memoryQueue'[Len(memoryQueue) + 1] = e
  BY <1>0, <1>3, AppendAt DEF IInv, TypeOK
<1>5. /\ Pushed' = Pushed /\ Reading /\ Reading' /\ LastBegun' = LastBegun
      /\ Discarded' = Discarded /\ Queued' = Queued /\ InHand' = InHand
  <2>1. Pushed' = e - 1
    BY <1>0 DEF Pushed
  <2> QED BY <1>0, <1>2, <2>1 DEF Reading, LastBegun, Discarded, Queued, InHand
<1>6. Outstanding' = Outstanding
  BY <1>5 DEF Outstanding
<1>7. \A p : Owned(p) => Owned(p)'
  BY <1>4 DEF Owned
<1>8. \A p : Owned(p)' => Owned(p) \/ p = e
  <2> SUFFICES ASSUME NEW p, Owned(p)' PROVE Owned(p) \/ p = e
    OBVIOUS
  <2>1. PICK i \in 1 .. (Len(memoryQueue) + 1) : memoryQueue'[i] = p
    BY <1>4 DEF Owned
  <2>2. CASE i = Len(memoryQueue) + 1
    BY <1>4, <2>1, <2>2
  <2>3. CASE i \in 1 .. Len(memoryQueue)
    BY <1>4, <2>1, <2>3 DEF Owned
  <2> QED BY <1>4, <2>1, <2>2, <2>3
<1>9. ~Owned(e)
  <2>1. \A i \in 1 .. Len(memoryQueue) : memoryQueue[i] = created - Len(memoryQueue) + i
    BY DEF IInv, MemoryShape
  <2>2. \A i \in 1 .. Len(memoryQueue) : memoryQueue[i] # e
    BY <1>2, <1>4, <2>1
  <2> QED BY <1>4, <2>2 DEF Owned
<1>10. /\ info' \in [Packets -> [sample : Packets \cup {NoPacket}, len : Lengths \cup {0}]]
       /\ info'[e].sample = cur
       /\ \A p \in Packets : p # e => info'[p] = info[p]
  <2>1. info \in [Packets -> [sample : Packets \cup {NoPacket}, len : Lengths \cup {0}]]
    BY DEF IInv, TypeOK
  <2>2. [sample |-> cur, len |-> l] \in [sample : Packets \cup {NoPacket}, len : Lengths \cup {0}]
    BY <1>2
  <2> QED BY <1>1, <1>3, <2>1, <2>2
<1>11. TypeOK'
  <2>1. allocated' \in Int
    BY <1>1, RtpTxAssumption DEF IInv, TypeOK
  <2>2. created' \in 0 .. MaxPackets
    BY <1>0, <1>3 DEF Packets
  <2> QED BY <1>0, <1>4, <1>10, <2>1, <2>2 DEF IInv, TypeOK
<1>12. MemoryShape'
  <2>1. \A j \in 1 .. Len(memoryQueue) : memoryQueue[j] = created - Len(memoryQueue) + j
        /\ Len(memoryQueue) <= created
    BY DEF IInv, MemoryShape
  <2>2. ASSUME NEW i \in 1 .. (Len(memoryQueue) + 1)
        PROVE  memoryQueue'[i] = e - (Len(memoryQueue) + 1) + i
    <3>1. CASE i = Len(memoryQueue) + 1
      <4>1. memoryQueue'[i] = e
        BY <1>4, <3>1
      <4>2. e - (Len(memoryQueue) + 1) + i = e
        BY <1>2, <1>4, <3>1
      <4> QED BY <4>1, <4>2
    <3>2. CASE i \in 1 .. Len(memoryQueue)
      <4>1. memoryQueue'[i] = created - Len(memoryQueue) + i
        BY <1>4, <2>1, <3>2
      <4>2. e - (Len(memoryQueue) + 1) + i = created - Len(memoryQueue) + i
        BY <1>2, <1>4, <3>2
      <4> QED BY <4>1, <4>2
    <3> QED BY <1>4, <3>1, <3>2
  <2>3. Len(memoryQueue) <= created
    BY DEF IInv, MemoryShape
  <2> QED BY <1>0, <1>2, <1>4, <2>2, <2>3 DEF MemoryShape
<1>13. QueueShape' /\ HeldShape' /\ SentShape' /\ TeardownShape'
  BY <1>0, <1>5 DEF IInv, QueueShape, HeldShape, SentShape, TeardownShape
<1>14. TaskShape' /\ SampleShape'
  BY <1>0, <1>5 DEF IInv, TaskShape, SampleShape
<1>15. InfoShape'
  <2> SUFFICES ASSUME NEW p \in Packets, Owned(p)'
               PROVE  info'[p].sample \in Packets /\ p \in PacketsOf(info[p].sample)'
    BY DEF InfoShape
  <2>1. CASE p = e
    BY <1>0, <1>2, <1>3, <1>10, <2>1 DEF PacketsOf
  <2>2. CASE p # e
    <3>1. Owned(p) /\ info'[p] = info[p]
      BY <1>8, <1>10, <2>2
    <3>2. info[p].sample \in Packets /\ p \in PacketsOf(info[p].sample)
      BY <3>1 DEF IInv, InfoShape
    <3> QED BY <1>0, <3>1, <3>2 DEF PacketsOf
  <2> QED BY <2>1, <2>2
<1>16. NoDanglingPacket'
  BY <1>5, <1>7 DEF IInv, NoDanglingPacket
<1>17. RefCountCovers'
  <2>1. \A s \in Packets : Waiting(s)' = Waiting(s)
    BY <1>0, <1>6 DEF Waiting, PacketsOf
  <2> QED BY <1>0, <1>5, <2>1 DEF IInv, RefCountCovers
<1> QED BY <1>11, <1>12, <1>13, <1>14, <1>15, <1>16, <1>17 DEF IInv

\* Pushing the raw pointer: the packet stays outstanding, and the owner's queue
\* already holds it.  Whatever the reading task does next, these parts hold.
LEMMA PushKeeps ==
  ASSUME IInv, strandPc = "queue", strandPc' # "queue",
         rtpQueue' = Append(rtpQueue, created),
         UNCHANGED <<isToreDown, socketOpen, memoryQueue, created, txVars, tdPc>>
  PROVE  /\ Pushed = created - 1 /\ Pushed' = created
         /\ rtpQueue' \in Seq(Packets)
         /\ Discarded' = Discarded /\ Outstanding' = Outstanding
         /\ \A p : Owned(p)' <=> Owned(p)
         /\ QueueShape' /\ MemoryShape' /\ HeldShape' /\ SentShape'
         /\ TeardownShape' /\ NoDanglingPacket'
<1> USE DEF txVars
<1>1. created \in Nat /\ MaxPackets \in Nat /\ created <= MaxPackets /\ memoryQueue \in Seq(Packets)
  BY RtpTxAssumption DEF IInv, TypeOK
<1>2. /\ Len(memoryQueue) > 0 /\ Len(memoryQueue) <= created
      /\ memoryQueue[Len(memoryQueue)] = created
  <2>1. Len(memoryQueue) > 0 /\ Len(memoryQueue) <= created
    BY DEF IInv, MemoryShape
  <2>2. Len(memoryQueue) \in 1 .. Len(memoryQueue)
    BY <1>1, <2>1
  <2>3. memoryQueue[Len(memoryQueue)] = created - Len(memoryQueue) + Len(memoryQueue)
    BY <2>2 DEF IInv, MemoryShape
  <2> QED BY <1>1, <2>1, <2>3
<1>3. created \in Packets /\ Owned(created)
  <2>1. created \in Packets
    BY <1>1, <1>2 DEF Packets
  <2>2. Len(memoryQueue) \in DOMAIN memoryQueue
    BY <1>1, <1>2
  <2> QED BY <1>2, <2>1, <2>2 DEF Owned
<1>4. Pushed = created - 1 /\ Pushed' = created
  BY DEF Pushed
<1>5. /\ rtpQueue \in Seq(Packets) /\ Len(rtpQueue) \in Nat
      /\ Len(rtpQueue) <= created - 1
      /\ \A i \in 1 .. Len(rtpQueue) : rtpQueue[i] = created - 1 - Len(rtpQueue) + i
  BY <1>4 DEF IInv, TypeOK, QueueShape
<1>6. /\ rtpQueue' \in Seq(Packets) /\ Len(rtpQueue') = Len(rtpQueue) + 1
      /\ \A i \in 1 .. Len(rtpQueue) : rtpQueue'[i] = rtpQueue[i]
      /\ rtpQueue'[Len(rtpQueue) + 1] = created
  BY <1>3, <1>5, AppendAt
<1>7. Discarded' = Discarded /\ InHand' = InHand /\ \A p : Owned(p)' <=> Owned(p)
  BY DEF Discarded, InHand, Owned
<1>8. Queued' = Queued \cup {created}
  <2>1. Queued' = {rtpQueue'[i] : i \in 1 .. (Len(rtpQueue) + 1)}
    BY <1>6 DEF Queued
  <2>2. 1 .. (Len(rtpQueue) + 1) = 1 .. Len(rtpQueue) \cup {Len(rtpQueue) + 1}
    BY <1>5
  <2>3. Queued = {rtpQueue[i] : i \in 1 .. Len(rtpQueue)}
    BY <1>5 DEF Queued
  <2> QED BY <1>6, <2>1, <2>2, <2>3
<1>9. Outstanding' = Outstanding
  <2>1. Pushed + 1 = created /\ Pushed' + 1 = created + 1
    BY <1>1, <1>4
  <2>2. created .. MaxPackets = {created} \cup ((created + 1) .. MaxPackets)
    BY <1>1
  <2>3. Outstanding = Queued \cup InHand \cup (created .. MaxPackets)
    BY <2>1 DEF Outstanding
  <2>4. Outstanding' = Queued' \cup InHand' \cup ((created + 1) .. MaxPackets)
    BY <2>1 DEF Outstanding
  <2> QED BY <1>7, <1>8, <2>2, <2>3, <2>4
<1>10. Pushed' - Len(rtpQueue') = Pushed - Len(rtpQueue)
  BY <1>1, <1>4, <1>5, <1>6
<1>11. QueueShape'
  <2>1. ASSUME NEW i \in 1 .. (Len(rtpQueue) + 1)
        PROVE  rtpQueue'[i] = created - (Len(rtpQueue) + 1) + i
    <3>1. CASE i = Len(rtpQueue) + 1
      <4>1. rtpQueue'[i] = created
        BY <1>6, <3>1
      <4>2. created - (Len(rtpQueue) + 1) + i = created
        BY <1>1, <1>5, <3>1
      <4> QED BY <4>1, <4>2
    <3>2. CASE i \in 1 .. Len(rtpQueue)
      <4>1. rtpQueue'[i] = created - 1 - Len(rtpQueue) + i
        BY <1>5, <1>6, <3>2
      <4>2. created - (Len(rtpQueue) + 1) + i = created - 1 - Len(rtpQueue) + i
        BY <1>1, <1>5, <3>2
      <4> QED BY <4>1, <4>2
    <3> QED BY <1>5, <3>1, <3>2
  <2>2. Len(rtpQueue') <= Pushed'
    BY <1>1, <1>4, <1>5, <1>6
  <2> QED BY <1>4, <1>6, <2>1, <2>2 DEF QueueShape
<1>12. MemoryShape'
  BY DEF IInv, MemoryShape
<1>13. HeldShape' /\ SentShape'
  BY <1>7, <1>10 DEF IInv, HeldShape, SentShape
<1>14. TeardownShape'
  BY DEF IInv, TeardownShape
<1>15. NoDanglingPacket'
  BY <1>3, <1>7, <1>8 DEF IInv, NoDanglingPacket
<1> QED BY <1>4, <1>6, <1>7, <1>9, <1>11, <1>12, <1>13, <1>14, <1>15

\* The part of the type invariant that a reading task leaves to be shown.
LEMMA TaskType ==
  ASSUME TypeOK,
         rtpQueue' \in Seq(Packets), refCount' \in [Packets -> Nat],
         size' \in [Packets -> Nat], strandPc' \in {"idle", "own", "queue", "sweep"},
         cur' \in Packets \cup {NoPacket}, left' \in Nat, rear' \in Nat,
         sweepAfter' \in BOOLEAN, audioTask' \in {audioTask, "none"},
         UNCHANGED <<allocated, isPaused, isToreDown, socketOpen, memoryQueue, info,
                     created, txPc, held, lastSent, staleRead, tdPc>>
  PROVE  TypeOK'
<1>1. /\ allocated' \in Int /\ memoryQueue' \in Seq(Packets)
      /\ info' \in [Packets -> [sample : Packets \cup {NoPacket}, len : Lengths \cup {0}]]
      /\ created' \in 0 .. MaxPackets
  BY DEF TypeOK
<1>2. isPaused' \in BOOLEAN /\ isToreDown' \in BOOLEAN /\ socketOpen' \in BOOLEAN
      /\ staleRead' \in BOOLEAN
  BY DEF TypeOK
<1>3. /\ txPc' \in {"loop", "ready", "pop", "write", "deref", "account", "count", "done"}
      /\ held' \in Packets \cup {NoPacket} /\ lastSent' \in Packets \cup {NoPacket}
      /\ tdPc' \in {"none", "zeroed", "flagged", "cleared", "closed"}
      /\ audioTask' \in {"none", "running", "due"}
  BY DEF TypeOK
<1> QED BY <1>1, <1>2, <1>3 DEF TypeOK

LEMMA EnqueueInfoIInv == IInv /\ enqueueRtpInfo => IInv'
<1> SUFFICES ASSUME IInv, enqueueRtpInfo PROVE IInv'
  OBVIOUS
<1>0. /\ strandPc = "queue" /\ strandPc' \in {"own", "sweep", "idle"}
      /\ rtpQueue' = Append(rtpQueue, created)
      /\ UNCHANGED <<allocated, isPaused, isToreDown, socketOpen, memoryQueue, info,
                     created, txVars, tdPc, audioTask>>
  BY DEF enqueueRtpInfo, StartSample
<1>1. /\ Pushed = created - 1 /\ Pushed' = created
      /\ rtpQueue' \in Seq(Packets)
      /\ Discarded' = Discarded /\ Outstanding' = Outstanding
      /\ \A p : Owned(p)' <=> Owned(p)
      /\ QueueShape' /\ MemoryShape' /\ HeldShape' /\ SentShape'
      /\ TeardownShape' /\ NoDanglingPacket'
  BY <1>0, PushKeeps
<1>2. /\ Reading /\ cur \in Packets /\ cur \in Nat /\ size[cur] \in Nat /\ left \in Nat
      /\ left >= 1 /\ left <= size[cur] /\ created \in Nat /\ rear \in Nat
      /\ created = cur + size[cur] - left
      /\ cur + size[cur] - 1 + rear <= MaxPackets
      /\ LastBegun = cur + size[cur] - 1
  <2>1. created \in Nat /\ rear \in Nat /\ size \in [Packets -> Nat] /\ left \in Nat
    BY DEF IInv, TypeOK
  <2>2. Reading /\ LastBegun = cur + size[cur] - 1
    BY <1>0 DEF Reading, LastBegun
  <2>3. /\ cur \in Packets /\ left \in 1 .. size[cur] /\ Pushed + 1 = cur + size[cur] - left
        /\ cur + size[cur] - 1 + rear <= MaxPackets
    BY <2>2 DEF IInv, TaskShape
  <2> QED BY <1>1, <2>1, <2>2, <2>3 DEF Packets
<1>3. ASSUME UNCHANGED <<size, refCount>>
      PROVE  InfoShape' /\ RefCountCovers'
  <2>1. InfoShape'
    BY <1>0, <1>1, <1>3 DEF IInv, InfoShape, PacketsOf
  <2>2. \A s \in Packets : Waiting(s)' = Waiting(s)
    BY <1>1, <1>3 DEF Waiting, PacketsOf
  <2> QED BY <1>1, <1>3, <2>1, <2>2 DEF IInv, RefCountCovers
<1>4. CASE /\ left > 1 /\ left' = left - 1 /\ strandPc' = "own"
           /\ UNCHANGED <<cur, size, refCount, rear, sweepAfter>>
  <2>1. TypeOK'
    <3>1. left' \in Nat
      BY <1>2, <1>4
    <3> QED BY <1>0, <1>1, <1>4, <3>1 DEF IInv, TypeOK, txVars
  <2>2. Reading' /\ LastBegun' = LastBegun
    BY <1>2, <1>4 DEF Reading, LastBegun
  <2>3. TaskShape'
    <3>1. left' \in 1 .. size'[cur']
      BY <1>2, <1>4
    <3>2. Pushed' + 1 = cur' + size'[cur'] - left'
      <4>1. cur' + size'[cur'] - left' = cur + size[cur] - (left - 1)
        BY <1>4
      <4>2. created + 1 = cur + size[cur] - (left - 1)
        BY <1>2
      <4> QED BY <1>1, <4>1, <4>2
    <3> QED BY <1>2, <1>4, <3>1, <3>2 DEF TaskShape
  <2>4. SampleShape'
    BY <1>4, <2>2 DEF IInv, SampleShape
  <2> QED BY <1>1, <1>3, <1>4, <2>1, <2>3, <2>4 DEF IInv
<1>5. CASE /\ left = 1 /\ rear > 0 /\ StartSample(created + 1, rear) /\ rear' = 0
           /\ UNCHANGED sweepAfter
  <2>1. LastBegun = created
    BY <1>2, <1>5
  <2>2. created + rear + 0 <= MaxPackets
    BY <1>2, <1>5
  <2>3. /\ refCount' \in [Packets -> Nat] /\ size' \in [Packets -> Nat]
        /\ cur' \in Packets /\ left' \in Nat
        /\ TaskShape' /\ SampleShape' /\ InfoShape' /\ RefCountCovers'
    BY <1>0, <1>1, <1>2, <1>5, <2>1, <2>2, BeginSample
  <2>4. TypeOK'
    <3>1. strandPc' = "own" /\ rear' \in Nat /\ sweepAfter' \in BOOLEAN
      BY <1>5 DEF StartSample, IInv, TypeOK
    <3> QED BY <1>0, <1>1, <2>3, <3>1, TaskType DEF IInv, txVars
  <2> QED BY <1>1, <2>3, <2>4 DEF IInv
<1>6. CASE /\ left = 1 /\ left' = 0 /\ cur' = NoPacket /\ sweepAfter' = FALSE
           /\ strandPc' = (IF sweepAfter THEN "sweep" ELSE "idle")
           /\ UNCHANGED <<size, refCount, rear>>
  <2>1. TypeOK'
    <3>1. refCount' \in [Packets -> Nat] /\ size' \in [Packets -> Nat] /\ rear' \in Nat
      BY <1>6 DEF IInv, TypeOK
    <3>2. cur' \in Packets \cup {NoPacket} /\ left' \in Nat /\ sweepAfter' \in BOOLEAN
      BY <1>6
    <3> QED BY <1>0, <1>1, <3>1, <3>2, TaskType DEF IInv, txVars
  <2>2. ~Reading' /\ LastBegun' = created
    BY <1>0, <1>6 DEF Reading, LastBegun
  <2>3. LastBegun' = LastBegun
    BY <1>2, <1>6, <2>2
  <2>4. TaskShape'
    BY <2>2 DEF TaskShape
  <2>5. SampleShape'
    BY <1>6, <2>3 DEF IInv, SampleShape
  <2> QED BY <1>1, <1>3, <1>6, <2>1, <2>4, <2>5 DEF IInv
<1> QED BY <1>4, <1>5, <1>6 DEF enqueueRtpInfo

\* What both kinds of reading task do when they begin their first sample.
LEMMA BeginTask ==
  ASSUME IInv, strandPc = "idle", NEW n \in Nat, n > 0, NEW r \in Nat, rear' = r,
         created + n + r <= MaxPackets,
         StartSample(created + 1, n), sweepAfter' \in BOOLEAN,
         audioTask' \in {audioTask, "none"},
         UNCHANGED <<rtpQueue, allocated, isPaused, isToreDown, socketOpen,
                     memoryQueue, info, created, txVars, tdPc>>
  PROVE  IInv'
<1> USE DEF txVars
<1>1. strandPc' = "own"
  BY DEF StartSample
<1>2. /\ Pushed = created /\ Pushed' = Pushed /\ LastBegun = created
      /\ Discarded' = Discarded /\ Queued' = Queued /\ InHand' = InHand
  BY <1>1 DEF Pushed, LastBegun, Reading, Discarded, Queued, InHand
<1>3. Outstanding' = Outstanding
  BY <1>2 DEF Outstanding
<1>4. /\ refCount' \in [Packets -> Nat] /\ size' \in [Packets -> Nat]
      /\ cur' \in Packets /\ left' \in Nat
      /\ TaskShape' /\ SampleShape' /\ InfoShape' /\ RefCountCovers'
  BY <1>2, <1>3, BeginSample
<1>5. TypeOK'
  <2>1. rtpQueue' \in Seq(Packets)
    BY DEF IInv, TypeOK
  <2> QED BY <1>1, <1>4, <2>1, TaskType DEF IInv
<1>6. QueueShape' /\ MemoryShape' /\ HeldShape' /\ SentShape' /\ TeardownShape'
  BY <1>1, <1>2 DEF IInv, QueueShape, MemoryShape, HeldShape, SentShape, TeardownShape
<1>7. NoDanglingPacket'
  BY <1>2 DEF IInv, NoDanglingPacket, Owned
<1> QED BY <1>4, <1>5, <1>6, <1>7 DEF IInv

LEMMA VideoTaskIInv ==
  ASSUME IInv, NEW f \in FrontCounts, NEW r \in RearCounts, VideoTask(f, r)
  PROVE  IInv'
<1>1. f \in Nat /\ f > 0 /\ r \in Nat
  BY RtpTxAssumption
<1>2. /\ strandPc = "idle" /\ created + f + r <= MaxPackets
      /\ StartSample(created + 1, f) /\ rear' = r /\ sweepAfter' = FALSE
      /\ UNCHANGED <<rtpQueue, allocated, isPaused, isToreDown, socketOpen,
                     memoryQueue, info, created, txVars, tdPc, audioTask>>
  BY DEF VideoTask
<1> QED BY <1>1, <1>2, BeginTask

LEMMA AudioTaskIInv == IInv /\ AudioTask => IInv'
<1> SUFFICES ASSUME IInv, AudioTask PROVE IInv'
  OBVIOUS
<1>1. /\ strandPc = "idle" /\ created < MaxPackets
      /\ StartSample(created + 1, 1) /\ rear' = 0 /\ sweepAfter' = TRUE
      /\ UNCHANGED <<rtpQueue, allocated, isPaused, isToreDown, socketOpen,
                     memoryQueue, info, created, txVars, tdPc>>
      /\ audioTask' \in {audioTask, "none"}
  BY DEF AudioTask, AudioFires
<1>2. created + 1 + 0 <= MaxPackets
  BY <1>1, RtpTxAssumption DEF IInv, TypeOK
<1> QED BY <1>1, <1>2, BeginTask

-----------------------------------------------------------------------------
(* Invariance *)

LEMMA StepIInv == IInv /\ [Next]_vars => IInv'
<1> SUFFICES ASSUME IInv, [Next]_vars PROVE IInv'
  OBVIOUS
<1>1. CASE \E f \in FrontCounts, r \in RearCounts : VideoTask(f, r)
  BY <1>1, VideoTaskIInv
<1>2. CASE AudioTask \/ AudioTaskSweepOnly
  BY <1>2, AudioTaskIInv, SweepOnlyIInv
<1>3. CASE ReadingTask
  BY <1>3, EnqueueMemoryIInv, EnqueueInfoIInv DEF ReadingTask
<1>4. CASE Sweep
  BY <1>4, DeleteDanglingIInv, SweepEndsIInv DEF Sweep
<1>5. CASE updateIsPaused
  BY <1>5, UpdateIsPausedIInv
<1>6. CASE TxThread
  BY <1>6, TxLoopIInv, TxReadyIInv, TxPopIInv, TxWriteIInv, TxDerefIInv,
     TxAccountIInv, TxCountIInv DEF TxThread
<1>7. CASE Teardown
  BY <1>7, TdZeroIInv, TdFlagIInv, ClearRtpQueueIInv, CloseSocketIInv DEF Teardown
<1>9. CASE StartAudio \/ StopAudio
  BY <1>9, AudioComesIInv
<1>8. CASE UNCHANGED vars
  <2>1. TypeOK'
    BY <1>8 DEF vars, sharedVars, strandVars, txVars, IInv, TypeOK
  <2>2. HeldShape' /\ SentShape'
    BY <1>8 DEF vars, sharedVars, strandVars, txVars, IInv, HeldShape, SentShape,
       Pushed, Discarded
  <2>3. TeardownShape'
    BY <1>8 DEF vars, sharedVars, strandVars, txVars, IInv, TeardownShape
  <2>4. InHand' = InHand /\ Discarded' = Discarded
    BY <1>8 DEF vars, txVars, InHand, Discarded
  <2> QED BY <1>8, <2>1, <2>2, <2>3, <2>4, FrameIInv
          DEF vars, sharedVars, strandVars, txVars
<1> QED BY <1>1, <1>2, <1>3, <1>4, <1>5, <1>6, <1>7, <1>8, <1>9 DEF Next

\* The strengthened invariant holds in every reachable state.
THEOREM Invariance == Spec => []IInv
BY InitIInv, StepIInv, PTL DEF Spec

\* Types are respected for every size of the system; a reference count never
\* becomes negative, whatever the interleaving of the three threads.
THEOREM TypeCorrect == Spec => []TypeOK
<1>1. IInv => TypeOK
  BY DEF IInv
<1> QED BY <1>1, Invariance, PTL

\* Every packet that waits in rtpQueuePtr or is being written is still owned
\* by rtpMemoryQueue: deleteDanglingRtps never frees under transmitRtp's write.
THEOREM MemorySafe == Spec => []NoDanglingPacket
<1>1. IInv => NoDanglingPacket
  BY DEF IInv
<1> QED BY <1>1, Invariance, PTL

\* A sample's reference count is exactly the number of its packets still to be
\* transmitted until a teardown discards the queue, and at least that after it.
THEOREM RefCounts == Spec => []RefCountCovers
<1>1. IInv => RefCountCovers
  BY DEF IInv
<1> QED BY <1>1, Invariance, PTL


-----------------------------------------------------------------------------
(* Minima, maxima and sums over finite sets, by first-order induction: a
   smallest counterexample exists and is contradicted *)

\* Every non-empty set of naturals has a least element.
LEMMA LeastNumber ==
  ASSUME NEW T, T \subseteq Nat, T # {}
  PROVE  \E m \in T : \A k \in T : m <= k
<1>1. PICK m \in T : \A k \in T : <<k, m>> \notin OpToRel(<, Nat)
  BY WFMin, NatLessThanWellFounded, Zenon
<1>2. \A k \in T : ~(k < m)
  BY <1>1 DEF OpToRel
<1> QED BY <1>2

\* Among the sets of a family of subsets there is one with no other inside it.
LEMMA SmallestSet ==
  ASSUME NEW S, IsFiniteSet(S), NEW B, B \subseteq SUBSET S, B # {}
  PROVE  \E T \in B : \A U \in SUBSET T : U # T => U \notin B
<1>1. IsWellFoundedOn(StrictSubsetOrdering(S), SUBSET S)
  BY FS_StrictSubsetOrderingWellFounded, FS_FiniteSubsetsOfFinite, Zenon
<1>2. PICK T \in B : \A U \in B : <<U, T>> \notin StrictSubsetOrdering(S)
  BY <1>1, WFMin, Zenon
<1>3. \A U \in B : ~(U \subseteq T /\ U # T)
  BY <1>2 DEF StrictSubsetOrdering
<1> QED BY <1>3

\* Max is a maximum: every non-empty finite set of integers has one.
LEMMA MaxExists ==
  ASSUME NEW S, S \subseteq Int, IsFiniteSet(S), S # {}
  PROVE  Max(S) \in S /\ \A x \in S : x <= Max(S)
<1>. DEFINE HasMax(T) == \E x \in T : \A y \in T : x >= y
            Bad == {T \in SUBSET S : T # {} /\ ~HasMax(T)}
<1>1. Bad = {}
  <2> SUFFICES ASSUME Bad # {} PROVE FALSE
    OBVIOUS
  <2>1. PICK T \in Bad : \A U \in SUBSET T : U # T => U \notin Bad
    <3>1. Bad \subseteq SUBSET S
      OBVIOUS
    <3> HIDE DEF Bad
    <3> QED BY <3>1, SmallestSet
  <2>2. PICK z \in T : TRUE
    BY <2>1
  <2>3. T \ {z} # {}
    BY <2>1, <2>2
  <2>4. PICK x \in T \ {z} : \A y \in T \ {z} : x >= y
    BY <2>1, <2>2, <2>3
  <2>5. z \in Int /\ x \in Int /\ T \subseteq Int
    BY <2>1, <2>2, <2>4
  <2>6. CASE x >= z
    BY <2>1, <2>4, <2>6
  <2>7. CASE z >= x
    <3>1. \A y \in T : z >= y
      BY <2>4, <2>5, <2>7
    <3> QED BY <2>1, <2>2, <3>1
  <2> QED BY <2>5, <2>6, <2>7
<1> QED BY <1>1 DEF Max

\* The bytes of the packets of S, as AccountingExact adds them up; the fold of
\* MapThenSumSet is a recursive function on the subsets of S, here IsSum.
Total(f, S) == MapThenSumSet(LAMBDA p : f[p].len, S)

Pick(s) == CHOOSE x \in s : TRUE

IsSum(f, S, g) ==
  g = [s \in SUBSET S |-> IF s = {} THEN 0 ELSE f[Pick(s)].len + g[s \ {Pick(s)}]]

\* The recursive function of the sum exists: on the sets with at most n elements
\* for every n, for a least n without one would be one more than an n with one.
LEMMA SumExists ==
  ASSUME NEW f, NEW S, IsFiniteSet(S)
  PROVE  \E g : IsSum(f, S, g)
<1>. DEFINE Small(n) == {s \in SUBSET S : Cardinality(s) <= n}
            Upto(n, g) == g = [s \in Small(n) |->
                                IF s = {} THEN 0 ELSE f[Pick(s)].len + g[s \ {Pick(s)}]]
            Bad == {n \in Nat : ~ \E g : Upto(n, g)}
<1>0. \A s \in SUBSET S : IsFiniteSet(s) /\ Cardinality(s) \in Nat /\ Cardinality(s) <= Cardinality(S)
  BY FS_Subset, FS_CardinalityType
<1>1. Bad = {}
  <2> SUFFICES ASSUME Bad # {} PROVE FALSE
    OBVIOUS
  <2>1. PICK n \in Bad : \A k \in Bad : n <= k
    BY LeastNumber
  <2>2. CASE n = 0
    <3>1. \A s \in Small(0) : s = {}
      BY <1>0, FS_EmptySet
    <3>. DEFINE z == [s \in Small(0) |-> 0]
    <3>2. z = [s \in Small(0) |-> IF s = {} THEN 0 ELSE f[Pick(s)].len + z[s \ {Pick(s)}]]
      BY <3>1
    <3> QED BY <2>1, <2>2, <3>2
  <2>3. CASE n # 0
    <3>1. n - 1 \in Nat /\ (n - 1) \notin Bad
      <4> HIDE DEF Upto
      <4> QED BY <2>1, <2>3
    <3>2. PICK g : Upto(n - 1, g)
      BY <3>1
    <3>. DEFINE h == [s \in Small(n) |-> IF s = {} THEN 0 ELSE f[Pick(s)].len + g[s \ {Pick(s)}]]
    <3>3. ASSUME NEW s \in Small(n), s # {}
          PROVE  /\ s \ {Pick(s)} \in Small(n) /\ s \ {Pick(s)} \in Small(n - 1)
                 /\ g[s \ {Pick(s)}] = h[s \ {Pick(s)}]
      <4>1. Pick(s) \in s
        BY <3>3 DEF Pick
      <4>2. Cardinality(s \ {Pick(s)}) = Cardinality(s) - 1
        BY <4>1, <1>0, FS_RemoveElement
      <4>3. s \ {Pick(s)} \in Small(n) /\ s \ {Pick(s)} \in Small(n - 1)
        BY <1>0, <4>2, <2>1
      <4>. DEFINE t == s \ {Pick(s)}
      <4>4. g[t] = IF t = {} THEN 0 ELSE f[Pick(t)].len + g[t \ {Pick(t)}]
        <5>1. t \in Small(n-1)
          BY <4>3
        <5> HIDE DEF t, Small
        <5> QED BY <5>1, <3>2
      <4>5. h[t] = IF t = {} THEN 0 ELSE f[Pick(t)].len + g[t \ {Pick(t)}]
        <5>1. t \in Small(n)
          BY <4>3
        <5> HIDE DEF t, Small
        <5> QED BY <5>1
      <4> QED BY <4>3, <4>4, <4>5
    <3>4. h = [s \in Small(n) |-> IF s = {} THEN 0 ELSE f[Pick(s)].len + h[s \ {Pick(s)}]]
      <4> HIDE DEF Small
      <4>1. \A s \in Small(n) : s # {} => g[s \ {Pick(s)}] = h[s \ {Pick(s)}]
        BY <3>3
      <4> HIDE DEF h
      <4>2. h = [s \in Small(n) |-> IF s = {} THEN 0 ELSE f[Pick(s)].len + g[s \ {Pick(s)}]]
        BY DEF h
      <4> QED BY <4>1, <4>2
    <3> QED BY <2>1, <3>4
  <2> QED BY <2>2, <2>3
<1>2. Cardinality(S) \in Nat /\ Small(Cardinality(S)) = SUBSET S
  BY <1>0, FS_CardinalityType
<1>3. PICK g : Upto(Cardinality(S), g)
  BY <1>1, <1>2
<1>4. IsSum(f, S, g)
  <2> HIDE DEF Small
  <2> QED BY <1>2, <1>3 DEF IsSum
<1> QED BY <1>4

\* Total adds the elements in the order in which CHOOSE takes them.
LEMMA TotalStep ==
  ASSUME NEW f, NEW S, IsFiniteSet(S)
  PROVE  Total(f, S) = IF S = {} THEN 0 ELSE f[Pick(S)].len + Total(f, S \ {Pick(S)})
<1>. DEFINE fold(T) == CHOOSE g : IsSum(f, T, g)
<1>1. ASSUME NEW T PROVE Total(f, T) = fold(T)[T]
  BY DEF Total, MapThenSumSet, MapThenFoldSet, IsSum, Pick
<1>2. ASSUME NEW T, IsFiniteSet(T) PROVE IsSum(f, T, fold(T))
  BY <1>2, SumExists
<1>3. CASE S = {}
  <2>1. fold(S)[S] = 0
    BY <1>2, <1>3 DEF IsSum
  <2> QED BY <1>1, <1>3, <2>1
<1>4. CASE S # {}
  <2>. DEFINE T == S \ {Pick(S)}
  <2>1. T \subseteq S /\ IsFiniteSet(T)
    BY FS_RemoveElement
  <2>2. IsSum(f, S, fold(S)) /\ IsSum(f, T, fold(T))
    BY <1>2, <2>1
  <2>3. fold(S)[S] = f[Pick(S)].len + fold(S)[T]
    <3> HIDE DEF fold
    <3> QED BY <1>4, <2>2 DEF IsSum
  <2>4. fold(S)[T] = fold(T)[T]
    <3>. DEFINE Bad == {s \in SUBSET T : fold(S)[s] # fold(T)[s]}
    <3>1. ASSUME NEW s \in SUBSET T
          PROVE  /\ fold(S)[s] = IF s = {} THEN 0 ELSE f[Pick(s)].len + fold(S)[s \ {Pick(s)}]
                 /\ fold(T)[s] = IF s = {} THEN 0 ELSE f[Pick(s)].len + fold(T)[s \ {Pick(s)}]
      <4> HIDE DEF fold
      <4>1. s \in SUBSET S /\ s \in SUBSET T
        BY <2>1
      <4> HIDE DEF T
      <4> QED BY <2>2, <4>1 DEF IsSum
    <3> HIDE DEF fold, T
    <3>2. SUFFICES ASSUME Bad # {} PROVE FALSE
      BY <2>1
    <3>3. PICK s \in Bad : \A u \in SUBSET s : u # s => u \notin Bad
      <4>1. Bad \subseteq SUBSET T /\ IsFiniteSet(T)
        BY <2>1
      <4> HIDE DEF Bad
      <4> QED BY <4>1, <3>2, SmallestSet
    <3>4. s # {} /\ Pick(s) \in s
      BY <3>1, <3>3 DEF Pick
    <3>5. fold(S)[s \ {Pick(s)}] = fold(T)[s \ {Pick(s)}]
      BY <3>3, <3>4
    <3> QED BY <3>1, <3>3, <3>4, <3>5
  <2> HIDE DEF fold, T
  <2>5. Total(f, S) = f[Pick(S)].len + Total(f, T)
    BY <1>1, <2>3, <2>4
  <2> QED BY <1>4, <2>5 DEF T
<1> QED BY <1>3, <1>4

\* The sum of integers is an integer, and any element can be taken out first.
LEMMA TotalWithout ==
  ASSUME NEW f, NEW S, IsFiniteSet(S), \A p \in S : f[p].len \in Int
  PROVE  /\ Total(f, S) \in Int
         /\ \A x \in S : Total(f, S) = f[x].len + Total(f, S \ {x})
<1>. DEFINE Sums(T) == /\ Total(f, T) \in Int
                       /\ \A x \in T : Total(f, T) = f[x].len + Total(f, T \ {x})
            Bad == {T \in SUBSET S : ~Sums(T)}
<1>0. ASSUME NEW T \in SUBSET S
      PROVE  Total(f, T) = IF T = {} THEN 0 ELSE f[Pick(T)].len + Total(f, T \ {Pick(T)})
  BY FS_Subset, TotalStep
<1>1. Bad = {}
  <2> SUFFICES ASSUME Bad # {} PROVE FALSE
    OBVIOUS
  <2>1. PICK T \in Bad : \A U \in SUBSET T : U # T => U \notin Bad
    <3>1. Bad \subseteq SUBSET S
      OBVIOUS
    <3> HIDE DEF Bad
    <3> QED BY <3>1, SmallestSet
  <2>2. T \in SUBSET S /\ ~Sums(T)
    BY <2>1
  <2>3. ASSUME NEW U \in SUBSET T, U # T
        PROVE  Sums(U)
    <3> HIDE DEF Sums
    <3> QED BY <2>1, <2>3
  <2>4. T # {}
    <3> SUFFICES ASSUME T = {} PROVE Sums(T)
      BY <2>2
    <3>1. Total(f, T) = 0
      BY <1>0
    <3> QED BY <3>1
  <2>. DEFINE c == Pick(T)
  <2>5. c \in T
    BY <2>4 DEF Pick
  <2>6. ASSUME NEW x \in T
        PROVE  Sums(T \ {x}) /\ f[x].len \in Int
    <3> HIDE DEF Sums
    <3> QED BY <2>2, <2>3
  <2> HIDE DEF c
  <2>7. Total(f, T) = f[c].len + Total(f, T \ {c})
    BY <1>0, <2>4 DEF c
  <2>8. Total(f, T) \in Int
    <3>1. Total(f, T \ {c}) \in Int /\ f[c].len \in Int
      BY <2>5, <2>6
    <3> QED BY <2>7, <3>1
  <2>9. ASSUME NEW x \in T
        PROVE  Total(f, T) = f[x].len + Total(f, T \ {x})
    <3>1. CASE x = c
      BY <2>7, <3>1
    <3>2. CASE x # c
      <4>. DEFINE U == (T \ {c}) \ {x}
      <4>1. Total(f, T \ {c}) = f[x].len + Total(f, U)
        BY <2>5, <2>6, <3>2
      <4>2. Total(f, T \ {x}) = f[c].len + Total(f, (T \ {x}) \ {c})
        BY <2>5, <2>6, <3>2
      <4>3. (T \ {x}) \ {c} = U
        OBVIOUS
      <4>4. Total(f, U) \in Int
        <5>1. U \in SUBSET T /\ U # T
          OBVIOUS
        <5> HIDE DEF U
        <5> QED BY <2>3, <5>1
      <4>5. f[x].len \in Int /\ f[c].len \in Int
        BY <2>5, <2>6
      <4> HIDE DEF U
      <4>6. Total(f, T) = f[c].len + (f[x].len + Total(f, U))
        BY <2>7, <4>1
      <4>7. Total(f, T \ {x}) = f[c].len + Total(f, U)
        BY <4>2, <4>3
      <4> QED BY <4>4, <4>5, <4>6, <4>7
    <3> QED BY <3>1, <3>2
  <2> QED BY <2>2, <2>8, <2>9
<1>2. Sums(S)
  <2> HIDE DEF Sums
  <2> QED BY <1>1
<1> QED BY <1>2

\* The sum depends on the lengths of the elements only.
LEMMA TotalSame ==
  ASSUME NEW f, NEW h, NEW S, IsFiniteSet(S), \A p \in S : f[p].len = h[p].len
  PROVE  Total(f, S) = Total(h, S)
<1>. DEFINE Bad == {T \in SUBSET S : Total(f, T) # Total(h, T)}
<1>1. SUFFICES ASSUME Bad # {} PROVE FALSE
  OBVIOUS
<1>2. PICK T \in Bad : \A U \in SUBSET T : U # T => U \notin Bad
  <2>1. Bad \subseteq SUBSET S
    OBVIOUS
  <2> HIDE DEF Bad
  <2> QED BY <2>1, <1>1, SmallestSet
<1>3. T \in SUBSET S /\ IsFiniteSet(T) /\ Total(f, T) # Total(h, T)
  BY <1>2, FS_Subset
<1>4. T # {} /\ Pick(T) \in T
  BY <1>3, TotalStep DEF Pick
<1>5. Total(f, T \ {Pick(T)}) = Total(h, T \ {Pick(T)})
  BY <1>2, <1>3, <1>4
<1> QED BY <1>3, <1>4, <1>5, TotalStep

-----------------------------------------------------------------------------
(* What waits for a slow client *)

\* Once a teardown began, or the RTP thread read a freed packet, that stays so;
\* and a packet that is owned after a step was owned before it if it was popped.
LEMMA UndisturbedBefore ==
  ASSUME IInv, IInv', [Next]_vars, Undisturbed'
  PROVE  Undisturbed
<1>1. tdPc = "none" /\ ~staleRead
  <2>1. tdPc' = "none" /\ ~staleRead'
    BY DEF Undisturbed
  <2> QED
    BY <2>1 DEF Next, VideoTask, AudioTask, AudioTaskSweepOnly, ReadingTask,
       enqueueRtpForMemoryMgmt, enqueueRtpInfo, Sweep, deleteDanglingRtps, SweepEnds,
       updateIsPaused, StartAudio, StopAudio, TxThread, TxLoop, TxReady, TxPop, TxWrite,
       TxDeref, TxAccount, TxCount,
       Teardown, TdZero, TdFlag, clearRtpQueue, closeSocket, vars, txVars, IInv, TypeOK
<1>2. ASSUME txPc = "account" PROVE Owned(held)
  <2>1. CASE TxAccount
    BY <1>2, <2>1 DEF TxAccount, Undisturbed
  <2>2. CASE ~TxAccount
    <3>1. txPc' = "account" /\ held' = held
      BY <1>2, <2>2 DEF Next, VideoTask, AudioTask, AudioTaskSweepOnly, ReadingTask,
         enqueueRtpForMemoryMgmt, enqueueRtpInfo, Sweep, deleteDanglingRtps, SweepEnds,
         updateIsPaused, StartAudio, StopAudio, TxThread, TxLoop, TxReady, TxPop, TxWrite, TxDeref, TxCount,
         Teardown, TdZero, TdFlag, clearRtpQueue, closeSocket, vars, txVars
    <3>2. held \in Packets /\ held <= Pushed - Len(rtpQueue)
      BY <1>2 DEF IInv, HeldShape
    <3>3. Owned(held)'
      BY <3>1 DEF Undisturbed
    <3>4. PICK i \in 1 .. Len(memoryQueue') : memoryQueue'[i] = held
      BY <3>1, <3>3 DEF Owned, IInv, TypeOK
    <3>5. CASE enqueueRtpForMemoryMgmt
      <4>1. memoryQueue' = Append(memoryQueue, created + 1) /\ strandPc = "own"
        BY <3>5 DEF enqueueRtpForMemoryMgmt
      <4>2. held # created + 1 /\ memoryQueue \in Seq(Packets)
        BY <3>2, <4>1 DEF IInv, TypeOK, Pushed, Packets
      <4>3. i # Len(memoryQueue) + 1
        BY <3>4, <4>1, <4>2
      <4>4. i \in 1 .. Len(memoryQueue) /\ memoryQueue[i] = held
        BY <3>4, <4>1, <4>2, <4>3
      <4> QED BY <4>2, <4>4 DEF Owned
    <3>6. CASE deleteDanglingRtps
      <4>1. memoryQueue' = Tail(memoryQueue) /\ memoryQueue # <<>>
        BY <3>6 DEF deleteDanglingRtps, FrontReclaimable
      <4>2. memoryQueue \in Seq(Packets)
        BY DEF IInv, TypeOK
      <4>3. i + 1 \in 1 .. Len(memoryQueue) /\ memoryQueue[i + 1] = held
        BY <3>4, <4>1, <4>2
      <4> QED BY <4>2, <4>3 DEF Owned
    <3>7. CASE ~enqueueRtpForMemoryMgmt /\ ~deleteDanglingRtps
      <4>1. memoryQueue' = memoryQueue
        BY <3>7 DEF Next, VideoTask, AudioTask, AudioTaskSweepOnly, ReadingTask,
           enqueueRtpInfo, Sweep, SweepEnds,
           updateIsPaused, StartAudio, StopAudio, TxThread, TxLoop, TxReady, TxPop, TxWrite,
       TxDeref, TxAccount, TxCount,
           Teardown, TdZero, TdFlag, clearRtpQueue, closeSocket, vars, strandVars
      <4> QED BY <3>3, <3>1, <4>1 DEF Owned
    <3> QED BY <3>5, <3>6, <3>7
  <2> QED BY <2>1, <2>2
<1> QED BY <1>1, <1>2 DEF Undisturbed

\* The longest packet.
MostLength == Max(Lengths)

\* Packets a reading task adds at most, and those a running one has still to add.
MostFront == Max(FrontCounts \cup {1})
MostRear == Max(RearCounts \cup {0})
MostOfTask == MostFront + MostRear

\* The packets the running task has still to charge.
ToCharge == CASE strandPc = "own"   -> left + rear
              [] strandPc = "queue" -> left - 1 + rear
              [] OTHER              -> 0

\* The limit leaves room for what the running task has still to add.
RoomShape ==
  Undisturbed =>
    allocated + ToCharge * MostLength < MaxClientBuffer + MostOfTask * MostLength

\* Nonlinear facts the bound needs.
LEMMA Products ==
  ASSUME NEW k \in Nat, NEW n \in Int
  PROVE  /\ n * k \in Int
         /\ (n - 1) * k = n * k - k
         /\ \A m \in Int : n <= m => n * k <= m * k
OBVIOUS

\* The bounds bound what they are named for.
LEMMA Maxima ==
  /\ MostLength \in Nat /\ 1 <= MostLength
  /\ \A l \in Lengths : l \in Nat /\ l <= MostLength
  /\ MostFront \in Nat /\ MostRear \in Nat /\ MostOfTask \in Nat /\ 1 <= MostOfTask
  /\ \A f \in FrontCounts, r \in RearCounts : f + r <= MostOfTask
<1>1. MostLength \in Lengths /\ \A l \in Lengths : l <= MostLength
  <2>1. Lengths \subseteq Int
    BY RtpTxAssumption
  <2> QED BY <2>1, RtpTxAssumption, MaxExists DEF MostLength
<1>. DEFINE F == FrontCounts \cup {1}
            R == RearCounts \cup {0}
<1>2. IsFiniteSet(F) /\ IsFiniteSet(R)
  BY RtpTxAssumption, FS_AddElement
<1>3. F \subseteq Nat /\ R \subseteq Nat /\ 1 \in F /\ 0 \in R
  BY RtpTxAssumption
<1>4. /\ Max(F) \in F /\ \A x \in F : x <= Max(F)
      /\ Max(R) \in R /\ \A x \in R : x <= Max(R)
  <2> HIDE DEF F, R
  <2>1. F \subseteq Int /\ F # {} /\ R \subseteq Int /\ R # {}
    BY <1>3
  <2> QED BY <1>2, <2>1, MaxExists
<1>5. MostFront = Max(F) /\ MostRear = Max(R) /\ MostOfTask = MostFront + MostRear
  BY DEF MostOfTask, MostFront, MostRear
<1>6. \A f \in FrontCounts, r \in RearCounts : f \in F /\ r \in R
  OBVIOUS
<1> HIDE DEF F, R
<1>7. Max(F) \in Nat /\ Max(R) \in Nat /\ 1 <= Max(F)
  BY <1>3, <1>4
<1>8. MostFront \in Nat /\ MostRear \in Nat /\ MostOfTask \in Nat /\ 1 <= MostOfTask
  BY <1>5, <1>7
<1>9. ASSUME NEW f \in FrontCounts, NEW r \in RearCounts
      PROVE  f + r <= MostOfTask
  <2>1. f \in Nat /\ r \in Nat /\ f <= Max(F) /\ r <= Max(R)
    BY <1>3, <1>4, <1>6
  <2> QED BY <1>5, <1>7, <2>1
<1> QED BY <1>1, <1>8, <1>9, RtpTxAssumption

\* The room is there at the start.
LEMMA InitRoom == Init => RoomShape
<1> SUFFICES ASSUME Init
    PROVE  allocated + ToCharge * MostLength < MaxClientBuffer + MostOfTask * MostLength
  BY DEF RoomShape
<1>1. allocated = 0 /\ ToCharge = 0
  BY DEF Init, ToCharge
<1>2. MostLength <= MostOfTask * MostLength
  BY Maxima, Products
<1> QED BY <1>1, <1>2, Maxima, RtpTxAssumption

\* A task starts below the limit and then charges what it has to charge, one
\* packet at a time; nothing else adds bytes.
LEMMA StepRoom ==
  ASSUME IInv, IInv', RoomShape, [Next]_vars
  PROVE  RoomShape'
<1>. DEFINE M == MostLength
            T == MostOfTask * MostLength
<1>0. SUFFICES ASSUME Undisturbed'
               PROVE  allocated' + ToCharge' * M < MaxClientBuffer + T
  BY DEF RoomShape, MostLength, MostOfTask
<1>1. Undisturbed /\ allocated + ToCharge * M < MaxClientBuffer + T
  BY <1>0, UndisturbedBefore DEF RoomShape
<1>2. /\ allocated \in Int /\ left \in Nat /\ rear \in Nat /\ M \in Nat /\ T \in Int
      /\ MaxClientBuffer \in Nat /\ M <= T
      /\ allocated' \in Int /\ left' \in Nat /\ rear' \in Nat
  BY Maxima, Products, RtpTxAssumption DEF IInv, TypeOK
<1>3. ToCharge \in Int /\ ToCharge' \in Int
  BY <1>2 DEF ToCharge
<1>4. ASSUME allocated' <= allocated, ToCharge' = ToCharge
      PROVE  allocated' + ToCharge' * M < MaxClientBuffer + T
  <2>1. ToCharge * M \in Int
    BY <1>2, <1>3, Products
  <2> HIDE DEF M, T
  <2> QED BY <1>1, <1>2, <1>4, <2>1
<1>5. ASSUME NEW n \in Nat, n <= MostOfTask, allocated < MaxClientBuffer,
             allocated' = allocated, ToCharge' = n
      PROVE  allocated' + ToCharge' * M < MaxClientBuffer + T
  <2>1. n * M \in Int /\ n * M <= T
    BY <1>2, <1>5, Maxima, Products
  <2> HIDE DEF M, T
  <2> QED BY <1>2, <1>5, <2>1
<1>6. CASE \E f \in FrontCounts, r \in RearCounts : VideoTask(f, r)
  <2>1. PICK f \in FrontCounts, r \in RearCounts : VideoTask(f, r)
    BY <1>6
  <2>2. /\ allocated' = allocated /\ allocated < MaxClientBuffer
        /\ strandPc' = "own" /\ left' = f /\ rear' = r
    BY <2>1 DEF VideoTask, StartSample, MayRead, isNewSampleAllocatable
  <2>3. ToCharge' = f + r /\ f + r \in Nat
    BY <2>2, RtpTxAssumption DEF ToCharge
  <2> QED BY <1>5, <2>2, <2>3, Maxima
<1>7. CASE AudioTask
  <2>1. /\ allocated' = allocated /\ allocated < MaxClientBuffer
        /\ strandPc' = "own" /\ left' = 1 /\ rear' = 0
    BY <1>7 DEF AudioTask, StartSample, MayRead, isNewSampleAllocatable
  <2>2. ToCharge' = 1
    BY <2>1 DEF ToCharge
  <2> QED BY <1>5, <2>1, <2>2, Maxima
<1>8. CASE enqueueRtpForMemoryMgmt
  <2>1. PICK l \in Lengths : allocated' = allocated + l
    BY <1>8 DEF enqueueRtpForMemoryMgmt, Charge
  <2>2. ToCharge' = ToCharge - 1
    <3>1. strandPc = "own" /\ strandPc' = "queue" /\ left' = left /\ rear' = rear
      BY <1>8 DEF enqueueRtpForMemoryMgmt
    <3> QED BY <1>2, <3>1 DEF ToCharge
  <2>3. (ToCharge - 1) * M = ToCharge * M - M /\ ToCharge * M \in Int
    BY <1>2, <1>3, Products
  <2>4. l \in Nat /\ l <= M
    BY Maxima
  <2> HIDE DEF M, T
  <2> QED BY <1>1, <1>2, <2>1, <2>2, <2>3, <2>4
<1>9. CASE enqueueRtpInfo
  <2>1. ToCharge' = ToCharge /\ allocated' = allocated
    <3>1. strandPc = "queue" /\ allocated' = allocated
      BY <1>9 DEF enqueueRtpInfo
    <3>2. CASE left > 1 /\ left' = left - 1 /\ strandPc' = "own" /\ rear' = rear
      BY <1>2, <3>1, <3>2 DEF ToCharge
    <3>3. CASE left = 1 /\ rear > 0 /\ left' = rear /\ rear' = 0 /\ strandPc' = "own"
      BY <1>2, <3>1, <3>3 DEF ToCharge
    <3>4. CASE left = 1 /\ rear = 0 /\ rear' = 0 /\ strandPc' \in {"sweep", "idle"}
      BY <1>2, <3>1, <3>4 DEF ToCharge
    <3> QED BY <1>9, <3>1, <3>2, <3>3, <3>4 DEF enqueueRtpInfo, StartSample
  <2> QED BY <1>2, <1>4, <2>1
<1>10. CASE AudioTaskSweepOnly \/ Sweep
  <2>1. /\ strandPc \in {"idle", "sweep"} /\ strandPc' \in {"idle", "sweep"}
        /\ allocated' = allocated
    BY <1>10 DEF AudioTaskSweepOnly, Sweep, deleteDanglingRtps, SweepEnds, sharedVars
  <2>2. ToCharge = 0 /\ ToCharge' = 0
    BY <2>1 DEF ToCharge
  <2> QED BY <1>2, <1>4, <2>1, <2>2
<1>11. CASE TxAccount
  <2>1. Owned(held)
    BY <1>11, <1>0 DEF TxAccount, Undisturbed
  <2>2. allocated' = allocated - info[held].len
    BY <1>11, <2>1 DEF TxAccount
  <2>3. info[held].len \in Nat
    <3>1. held \in Packets
      BY <1>11 DEF TxAccount, IInv, HeldShape
    <3>2. info[held].len \in Lengths \cup {0}
      BY <3>1 DEF IInv, TypeOK
    <3>3. \A l \in Lengths \cup {0} : l \in Nat
      BY Maxima
    <3> QED BY <3>2, <3>3, Zenon
  <2>4. ToCharge' = ToCharge
    BY <1>11 DEF TxAccount, strandVars, ToCharge
  <2>5. allocated' <= allocated
    BY <1>2, <2>2, <2>3
  <2> QED BY <1>4, <2>4, <2>5
<1>12. CASE \/ updateIsPaused \/ TxLoop \/ TxReady \/ TxPop \/ TxWrite \/ TxDeref \/ TxCount
            \/ StartAudio \/ StopAudio \/ UNCHANGED vars
  <2>1. allocated' = allocated /\ UNCHANGED strandVars
    BY <1>12 DEF updateIsPaused, StartAudio, StopAudio, TxLoop, TxReady, TxPop, TxWrite, TxDeref, TxCount, vars,
       sharedVars
  <2>2. ToCharge' = ToCharge
    BY <2>1 DEF strandVars, ToCharge
  <2> QED BY <1>2, <1>4, <2>1, <2>2
<1>13. CASE Teardown
  <2>1. tdPc' # "none"
    BY <1>13 DEF Teardown, TdZero, TdFlag, clearRtpQueue, closeSocket
  <2> QED BY <1>0, <2>1 DEF Undisturbed
<1> QED BY <1>6, <1>7, <1>8, <1>9, <1>10, <1>11, <1>12, <1>13 DEF Next, ReadingTask, TxThread

\* Undisturbed by a teardown or a stale read, the bytes waiting for a slow client
\* exceed C::MAX_CLIENT_BUFFER_SIZE by less than one front and one rear sample of
\* the longest packets: isNewSampleAllocatable is asked once per task.
THEOREM BufferBounded == Spec => []ClientBufferBound
<1>1. IInv /\ RoomShape => ClientBufferBound
  <2> SUFFICES ASSUME IInv, RoomShape, Undisturbed
      PROVE  allocated < MaxClientBuffer + Max(FrontCounts \cup {1}) * Max(Lengths)
                           + Max(RearCounts \cup {0}) * Max(Lengths)
    BY DEF ClientBufferBound
  <2>0. allocated \in Int /\ MostLength \in Nat /\ left \in Nat /\ rear \in Nat /\ MaxClientBuffer \in Nat
    BY Maxima, RtpTxAssumption DEF IInv, TypeOK
  <2>1. ToCharge \in Nat
    <3>1. strandPc \in {"own", "queue"} => left \in Nat \ {0}
      BY DEF IInv, TaskShape, Reading, TypeOK
    <3> QED BY <2>0, <3>1 DEF ToCharge
  <2>2. 0 <= ToCharge * MostLength /\ ToCharge * MostLength \in Int
    BY <2>0, <2>1, Products
  <2>3. allocated + ToCharge * MostLength < MaxClientBuffer + MostOfTask * MostLength
    BY DEF RoomShape
  <2>4. MostOfTask * MostLength = MostFront * MostLength + MostRear * MostLength
        /\ MostFront * MostLength \in Int /\ MostRear * MostLength \in Int
    <3>1. MostFront \in Nat /\ MostRear \in Nat /\ MostOfTask = MostFront + MostRear
      BY Maxima DEF MostOfTask
    <3> QED BY <2>0, <3>1
  <2>5. allocated < MaxClientBuffer + MostFront * MostLength + MostRear * MostLength
    BY <2>0, <2>2, <2>3, <2>4
  <2> QED BY <2>5 DEF MostFront, MostRear, MostLength
<1>2. IInv /\ RoomShape /\ [Next]_vars => RoomShape'
  BY StepIInv, StepRoom
<1>3. Spec => []RoomShape
  BY InitRoom, <1>2, Invariance, PTL DEF Spec
<1> QED BY <1>1, <1>3, Invariance, PTL

-----------------------------------------------------------------------------
(* The bytes not transmitted yet *)

\* The invariant the step needs, with the sum as Total.
AccountShape == Undisturbed => allocated = Total(info, Charged)

\* The packets that are charged are finitely many and have a length; the popped
\* one is not in the queue, and a packet that is about to be pushed neither.
LEMMA ChargedFacts ==
  ASSUME IInv
  PROVE  /\ Charged \subseteq 1 .. created /\ Charged \subseteq Packets /\ IsFiniteSet(Charged)
         /\ \A p \in Charged : info[p].len \in Int
         /\ txPc \in {"write", "deref", "account"} =>
              held \notin Queued /\ (strandPc = "queue" => held # created)
<1>1. /\ rtpQueue \in Seq(Packets) /\ Len(rtpQueue) \in Nat /\ created \in Nat
      /\ created <= MaxPackets /\ MaxPackets \in Nat
      /\ Pushed \in Int /\ Pushed <= created /\ (strandPc = "queue" => Pushed = created - 1)
  BY RtpTxAssumption DEF IInv, TypeOK, Pushed
<1>2. \A p \in Queued : p \in Packets /\ p > Pushed - Len(rtpQueue) /\ p <= Pushed
  <2>1. \A i \in 1 .. Len(rtpQueue) :
          rtpQueue[i] \in Packets /\ rtpQueue[i] = Pushed - Len(rtpQueue) + i
    BY <1>1 DEF IInv, QueueShape
  <2>2. \A i \in 1 .. Len(rtpQueue) :
          Pushed - Len(rtpQueue) + i > Pushed - Len(rtpQueue) /\ Pushed - Len(rtpQueue) + i <= Pushed
    BY <1>1
  <2> QED BY <1>1, <2>1, <2>2 DEF Queued
<1>3. txPc \in {"write", "deref", "account"} =>
        held \in Packets /\ held <= Pushed - Len(rtpQueue)
  BY DEF IInv, HeldShape
<1>4. strandPc = "queue" => created \in Packets
  <2>1. strandPc = "queue" => created > 0
    BY <1>1 DEF IInv, MemoryShape, TypeOK
  <2> QED BY <1>1, <2>1 DEF Packets
<1>5. Charged \subseteq 1 .. created /\ Charged \subseteq Packets
  <2>1. ASSUME NEW p \in Charged PROVE p \in Packets /\ p <= created
    <3>1. CASE p \in Queued
      BY <1>1, <1>2, <3>1 DEF Packets
    <3>2. CASE strandPc = "queue" /\ p = created
      BY <1>1, <1>4, <3>2
    <3>3. CASE txPc \in {"write", "deref", "account"} /\ p = held
      BY <1>1, <1>3, <3>3 DEF Packets
    <3> QED BY <3>1, <3>2, <3>3 DEF Charged
  <2> QED BY <1>1, <2>1 DEF Packets
<1>6. IsFiniteSet(Charged)
  <2>1. IsFiniteSet(1 .. created)
    <3>1. 1 \in Int /\ created \in Int
      BY <1>1
    <3> QED BY <3>1, FS_Interval
  <2> QED BY <1>5, <2>1, FS_Subset
<1>7. ASSUME NEW p \in Charged PROVE info[p].len \in Int
  <2>1. info[p].len \in Lengths \cup {0}
    BY <1>5 DEF IInv, TypeOK
  <2>2. \A l \in Lengths \cup {0} : l \in Int
    BY Maxima
  <2> QED BY <2>1, <2>2, Zenon
<1>8. ASSUME txPc \in {"write", "deref", "account"}
      PROVE  held \notin Queued /\ (strandPc = "queue" => held # created)
  BY <1>1, <1>2, <1>3, <1>8 DEF Packets
<1> QED BY <1>5, <1>6, <1>7, <1>8

\* Nothing is charged at the start.
LEMMA InitAccount == Init => AccountShape
<1> SUFFICES ASSUME Init PROVE allocated = Total(info, Charged)
  BY DEF AccountShape
<1>1. Charged = {} /\ allocated = 0
  BY DEF Init, Charged, Queued
<1>2. Total(info, {}) = 0
  BY TotalStep, FS_EmptySet
<1> QED BY <1>1, <1>2

\* Pushing and popping move a packet between the three places that are charged.
LEMMA ChargedMoves ==
  ASSUME IInv, IInv', enqueueRtpInfo \/ TxPop \/ TxWrite \/ TxDeref
  PROVE  Charged' = Charged
<1>1. CASE enqueueRtpInfo
  <2>1. /\ strandPc = "queue" /\ strandPc' # "queue"
        /\ rtpQueue' = Append(rtpQueue, created) /\ UNCHANGED <<created, txVars>>
    BY <1>1 DEF enqueueRtpInfo, StartSample
  <2>2. rtpQueue \in Seq(Packets) /\ created \in Packets
    BY <2>1, RtpTxAssumption DEF IInv, TypeOK, MemoryShape, Packets
  <2>3. Queued' = Queued \cup {created}
    <3>1. DOMAIN rtpQueue' = DOMAIN rtpQueue \cup {Len(rtpQueue) + 1}
      BY <2>1, <2>2
    <3>2. /\ \A i \in DOMAIN rtpQueue : rtpQueue'[i] = rtpQueue[i]
          /\ rtpQueue'[Len(rtpQueue) + 1] = created
      BY <2>1, <2>2
    <3> QED BY <3>1, <3>2 DEF Queued
  <2> QED BY <2>1, <2>3 DEF Charged, txVars
<1>2. CASE TxPop
  <2>1. txPc = "pop" /\ UNCHANGED strandVars
    BY <1>2 DEF TxPop
  <2>2. CASE rtpQueue = <<>>
    <3>1. txPc' = "loop" /\ rtpQueue' = rtpQueue
      BY <1>2, <2>2 DEF TxPop, TxGoto
    <3> QED BY <2>1, <3>1 DEF Charged, Queued, strandVars
  <2>3. CASE rtpQueue # <<>>
    <3>1. held' = Head(rtpQueue) /\ rtpQueue' = Tail(rtpQueue) /\ txPc' = "write"
      BY <1>2, <2>3 DEF TxPop, TxGoto
    <3>2. rtpQueue \in Seq(Packets)
      BY DEF IInv, TypeOK
    <3>3. Queued = Queued' \cup {held'}
      <4>1. Queued \subseteq Queued' \cup {held'}
        <5>1. ASSUME NEW i \in DOMAIN rtpQueue PROVE rtpQueue[i] \in Queued' \cup {held'}
          <6>1. CASE i = 1
            BY <2>3, <3>1, <3>2, <6>1
          <6>2. CASE i # 1
            <7>1. i - 1 \in DOMAIN rtpQueue' /\ rtpQueue'[i - 1] = rtpQueue[i]
              BY <2>3, <3>1, <3>2, <6>2
            <7> QED BY <7>1 DEF Queued
          <6> QED BY <6>1, <6>2
        <5> QED BY <5>1 DEF Queued
      <4>2. Queued' \subseteq Queued
        <5>1. ASSUME NEW i \in DOMAIN rtpQueue' PROVE rtpQueue'[i] \in Queued
          <6>1. i + 1 \in DOMAIN rtpQueue /\ rtpQueue'[i] = rtpQueue[i + 1]
            BY <2>3, <3>1, <3>2
          <6> QED BY <6>1 DEF Queued
        <5> QED BY <5>1 DEF Queued
      <4>3. held' \in Queued
        <5>1. 1 \in DOMAIN rtpQueue /\ held' = rtpQueue[1]
          BY <2>3, <3>1, <3>2
        <5> QED BY <5>1 DEF Queued
      <4> QED BY <4>1, <4>2, <4>3
    <3> QED BY <2>1, <3>1, <3>3 DEF Charged, strandVars
  <2> QED BY <2>2, <2>3
<1>3. CASE TxWrite \/ TxDeref
  <2>1. /\ txPc \in {"write", "deref"} /\ txPc' \in {"deref", "account"} /\ held' = held
        /\ UNCHANGED <<strandVars, rtpQueue>>
    BY <1>3 DEF TxWrite, TxDeref, TxGoto, sharedVars
  <2> QED BY <2>1 DEF Charged, Queued, strandVars
<1> QED BY <1>1, <1>2, <1>3

\* Only the strand charges a packet and only the RTP thread discharges one, each
\* by the length of the packet that enters or leaves Charged.
LEMMA StepAccount ==
  ASSUME IInv, IInv', AccountShape, [Next]_vars
  PROVE  AccountShape'
<1>0. SUFFICES ASSUME Undisturbed' PROVE allocated' = Total(info', Charged')
  BY DEF AccountShape
<1>1. Undisturbed /\ allocated = Total(info, Charged)
  BY <1>0, UndisturbedBefore DEF AccountShape
<1>2. /\ IsFiniteSet(Charged) /\ Charged \subseteq Packets /\ Charged \subseteq 1 .. created
      /\ \A p \in Charged : info[p].len \in Int
  BY ChargedFacts
<1>3. ASSUME Charged' = Charged, info' = info, allocated' = allocated
      PROVE  allocated' = Total(info', Charged')
  BY <1>1, <1>3
<1>4. CASE enqueueRtpForMemoryMgmt
  <2>. DEFINE e == created + 1
  <2>1. PICK l \in Lengths : /\ info' = [info EXCEPT ![e] = [sample |-> cur, len |-> l]]
                             /\ allocated' = allocated + l
    BY <1>4 DEF enqueueRtpForMemoryMgmt, Charge
  <2>2. /\ strandPc = "own" /\ strandPc' = "queue" /\ created' = e
        /\ UNCHANGED <<rtpQueue, txVars>>
    BY <1>4 DEF enqueueRtpForMemoryMgmt
  <2>3. Charged' = Charged \cup {e}
    BY <2>2 DEF Charged, Queued, txVars
  <2>4. e \notin Charged /\ e \in Packets
    <3>1. created \in Nat /\ created + 1 \in 0 .. MaxPackets
      BY <2>2 DEF IInv, TypeOK
    <3> QED BY <1>2, <3>1 DEF Packets
  <2>5. /\ info \in [Packets -> [sample : Packets \cup {NoPacket}, len : Lengths \cup {0}]]
        /\ info'[e].len = l /\ \A p \in Charged : info'[p].len = info[p].len
    <3>1. info \in [Packets -> [sample : Packets \cup {NoPacket}, len : Lengths \cup {0}]]
      BY DEF IInv, TypeOK
    <3> QED BY <1>2, <2>1, <2>4, <3>1
  <2> HIDE DEF e
  <2>6. Total(info', Charged) = Total(info, Charged)
    BY <1>2, <2>5, TotalSame
  <2>7. Total(info', Charged') = info'[e].len + Total(info', Charged' \ {e})
    <3>1. IsFiniteSet(Charged') /\ (\A p \in Charged' : info'[p].len \in Int)
      <4>1. IsFiniteSet(Charged')
        BY <1>2, <2>3, FS_AddElement
      <4>2. l \in Int
        BY RtpTxAssumption
      <4> QED BY <1>2, <2>3, <2>5, <4>1, <4>2
    <3>2. e \in Charged'
      BY <2>3
    <3> QED BY <3>1, <3>2, TotalWithout
  <2>8. Charged' \ {e} = Charged
    BY <2>3, <2>4
  <2>9. allocated \in Int /\ l \in Int
    BY RtpTxAssumption DEF IInv, TypeOK
  <2>10. Total(info', Charged') = l + Total(info, Charged)
    BY <2>5, <2>6, <2>7, <2>8
  <2>11. allocated' = Total(info, Charged) + l /\ Total(info, Charged) \in Int
    BY <1>1, <2>1, <2>9
  <2> QED BY <2>9, <2>10, <2>11
<1>5. CASE deleteDanglingRtps
  <2>0. PICK h : h = Head(memoryQueue)
    OBVIOUS
  <2>1. /\ info' = [info EXCEPT ![h] = NoInfo] /\ strandPc = "sweep"
        /\ memoryQueue # <<>> /\ memoryQueue' = Tail(memoryQueue)
        /\ UNCHANGED <<rtpQueue, created, strandPc, allocated, txVars>>
    BY <1>5, <2>0 DEF deleteDanglingRtps, FrontReclaimable, sharedVars
  <2>2. Charged' = Charged
    BY <2>1 DEF Charged, Queued, txVars
  <2>3. h \notin Charged
    <3>1. ~Owned(h)'
      <4>1. memoryQueue \in Seq(Packets) /\ created \in Nat
        BY DEF IInv, TypeOK
      <4>2. \A i \in 1 .. Len(memoryQueue) : memoryQueue[i] = created - Len(memoryQueue) + i
        BY DEF IInv, MemoryShape
      <4>3. h = memoryQueue[1]
        BY <2>0, <2>1, <4>1
      <4>4. \A i \in DOMAIN memoryQueue' :
              i + 1 \in 1 .. Len(memoryQueue) /\ memoryQueue'[i] = memoryQueue[i + 1] /\ i \in Nat /\ i > 0
        BY <2>1, <4>1
      <4>5. 1 \in 1 .. Len(memoryQueue) /\ Len(memoryQueue) \in Nat
        BY <2>1, <4>1
      <4>6. \A i \in DOMAIN memoryQueue' : memoryQueue'[i] # h
        BY <4>1, <4>2, <4>3, <4>4, <4>5
      <4> QED BY <2>1, <4>6 DEF Owned
    <3>2. \A p \in Queued \cup InHand : Owned(p)'
      <4>1. Queued' = Queued /\ InHand' = InHand
        BY <2>1 DEF Queued, InHand, txVars
      <4> QED BY <4>1 DEF IInv, NoDanglingPacket
    <3>3. txPc = "account" => Owned(held)'
      BY <1>0, <2>1 DEF Undisturbed, txVars
    <3>4. \A p \in Charged : p \in Queued \cup InHand \/ (txPc = "account" /\ p = held)
      BY <2>1 DEF Charged, InHand
    <3>5. ASSUME h \in Charged PROVE FALSE
      <4>1. Owned(h)'
        <5>1. CASE h \in Queued \cup InHand
          BY <3>2, <5>1
        <5>2. CASE txPc = "account" /\ h = held
          <6>1. held' = held
            BY <2>1 DEF txVars
          <6>2. Owned(held)'
            BY <3>3, <5>2
          <6> QED BY <5>2, <6>1, <6>2 DEF Owned
        <5> QED BY <3>4, <3>5, <5>1, <5>2
      <4> QED BY <3>1, <4>1
    <3> QED BY <3>5
  <2>4. \A p \in Charged : info'[p].len = info[p].len
    BY <1>2, <2>1, <2>3 DEF IInv, TypeOK
  <2>5. Total(info', Charged) = Total(info, Charged)
    <3>1. IsFiniteSet(Charged)
      BY <1>2
    <3> QED BY <2>4, <3>1, TotalSame
  <2> QED BY <1>1, <2>1, <2>2, <2>5
<1>6. CASE TxAccount
  <2>1. /\ txPc = "account" /\ txPc' = "count" /\ UNCHANGED <<rtpQueue, strandVars>>
        /\ Owned(held)
    BY <1>0, <1>6 DEF TxAccount, TxGoto, Undisturbed
  <2>2. allocated' = allocated - info[held].len /\ info' = info
    BY <1>6, <2>1 DEF TxAccount, strandVars
  <2>3. held \in Charged /\ Charged' = Charged \ {held}
    <3>1. held \notin Queued /\ (strandPc = "queue" => held # created)
      BY <2>1, ChargedFacts
    <3>2. Queued' = Queued /\ strandPc' = strandPc /\ created' = created
      BY <2>1 DEF Queued, strandVars
    <3> QED BY <2>1, <3>1, <3>2 DEF Charged
  <2>4. Total(info, Charged) = info[held].len + Total(info, Charged \ {held})
    <3>1. IsFiniteSet(Charged) /\ (\A p \in Charged : info[p].len \in Int) /\ held \in Charged
      BY <1>2, <2>3
    <3> QED BY ONLY <3>1, TotalWithout
  <2>5. Total(info, Charged) \in Int /\ info[held].len \in Int
        /\ Total(info, Charged \ {held}) \in Int
    <3>1. IsFiniteSet(Charged \ {held}) /\ \A p \in Charged \ {held} : info[p].len \in Int
      BY <1>2, FS_RemoveElement
    <3> QED BY <1>2, <2>3, <3>1, TotalWithout
  <2> QED BY <1>1, <2>2, <2>3, <2>4, <2>5
<1>7. CASE enqueueRtpInfo \/ TxPop \/ TxWrite \/ TxDeref
  <2>1. info' = info /\ allocated' = allocated
    BY <1>7 DEF enqueueRtpInfo, TxPop, TxWrite, TxDeref, sharedVars, strandVars
  <2> QED BY <1>3, <1>7, <2>1, ChargedMoves
<1>8. CASE \/ \E f \in FrontCounts, r \in RearCounts : VideoTask(f, r)
           \/ AudioTask \/ AudioTaskSweepOnly \/ SweepEnds \/ updateIsPaused
           \/ StartAudio \/ StopAudio \/ UNCHANGED vars
  <2>1. /\ info' = info /\ allocated' = allocated
        /\ (strandPc' = "queue" <=> strandPc = "queue")
        /\ UNCHANGED <<rtpQueue, created, txVars>>
    BY <1>8 DEF VideoTask, AudioTask, AudioTaskSweepOnly, SweepEnds, updateIsPaused,
       StartAudio, StopAudio, vars, StartSample, sharedVars, strandVars
  <2>2. Charged' = Charged
    BY <2>1 DEF Charged, Queued, txVars
  <2> QED BY <1>3, <2>1, <2>2
<1>9. CASE TxLoop \/ TxReady \/ TxCount
  <2>1. /\ txPc \in {"loop", "ready", "count"} /\ txPc' \in {"loop", "ready", "pop", "done"}
        /\ UNCHANGED <<sharedVars, strandVars>>
    BY <1>9 DEF TxLoop, TxReady, TxCount, TxGoto
  <2>2. Charged' = Charged
    BY <2>1 DEF Charged, Queued, sharedVars, strandVars
  <2> QED BY <1>3, <2>1, <2>2 DEF sharedVars, strandVars
<1>10. CASE Teardown
  <2>1. tdPc' # "none"
    BY <1>10 DEF Teardown, TdZero, TdFlag, clearRtpQueue, closeSocket
  <2> QED BY <1>0, <2>1 DEF Undisturbed
<1> QED BY <1>4, <1>5, <1>6, <1>7, <1>8, <1>9, <1>10 DEF Next, ReadingTask, Sweep, TxThread

\* Undisturbed, allocatedBytesForSample is exactly the bytes of the packets that
\* are charged and not transmitted yet.
THEOREM BytesAccounted == Spec => []AccountingExact
<1>1. AccountShape => AccountingExact
  BY DEF AccountShape, AccountingExact, Total
<1>2. IInv /\ AccountShape /\ [Next]_vars => AccountShape'
  BY StepIInv, StepAccount
<1>3. Spec => []AccountShape
  BY InitAccount, <1>2, Invariance, PTL DEF Spec
<1> QED BY <1>1, <1>3, PTL

-----------------------------------------------------------------------------
(* The path implements the abstract channel *)

\* A step of the channel, or none.
ChanStep == [Chan!ChanNext]_(Chan!chanVars)

\* A step that moves no packet and no flag is invisible in the channel.
LEMMA InvisibleStep ==
  ASSUME Pushed' = Pushed, lastSent' = lastSent, isPaused' = isPaused,
         isToreDown' = isToreDown,
         txPc' \in Committed <=> txPc \in Committed
  PROVE  ChanStep
<1>1. Committed' = Committed
  BY DEF Committed
<1> QED BY <1>1 DEF ChanStep, Chan!chanVars

\* The RTP thread gives up the packet it was committed to, or never was.
LEMMA ForgetStep ==
  ASSUME TypeOK, Pushed' = Pushed, lastSent' = lastSent, isPaused' = isPaused,
         isToreDown' = isToreDown, txPc' \in {"loop", "done"}
  PROVE  ChanStep
<1>1. Committed' = Committed /\ txPc' \notin Committed
  BY DEF Committed
<1>2. CASE isToreDown \/ isPaused
  BY <1>1, <1>2 DEF ChanStep, Chan!ChanNext, Chan!ForgetLate
<1>3. CASE ~(isToreDown \/ isPaused)
  BY <1>1, <1>3 DEF ChanStep, Chan!chanVars
<1> QED BY <1>2, <1>3

LEMMA AcceptStep == IInv /\ enqueueRtpInfo => ChanStep
<1> SUFFICES ASSUME IInv, enqueueRtpInfo PROVE ChanStep
  OBVIOUS
<1>1. /\ strandPc = "queue" /\ strandPc' # "queue"
      /\ UNCHANGED <<lastSent, isPaused, isToreDown, txPc, created>>
  BY DEF enqueueRtpInfo, StartSample, txVars
<1>2. Pushed' = Pushed + 1
  BY <1>1 DEF Pushed, IInv, TypeOK
<1>3. Committed' = Committed
  BY <1>1 DEF Committed
<1> QED BY <1>1, <1>2, <1>3 DEF ChanStep, Chan!ChanNext, Chan!Accept

\* The written packet follows the last one; only a closed socket swallows it.
LEMMA WriteStep == IInv /\ TxWrite => ChanStep
<1> SUFFICES ASSUME IInv, TxWrite PROVE ChanStep
  OBVIOUS
<1>1. /\ txPc = "write" /\ txPc' = "deref"
      /\ lastSent' = IF socketOpen THEN held ELSE lastSent
      /\ UNCHANGED <<isPaused, isToreDown, created, strandPc>>
  BY DEF TxWrite, TxGoto, sharedVars, strandVars
<1>2. Pushed' = Pushed /\ Committed' = Committed /\ txPc \in Committed /\ txPc' \notin Committed
  BY <1>1 DEF Pushed, Committed
<1>3. /\ lastSent \in Nat /\ held \in Nat /\ lastSent < held /\ held <= Pushed
      /\ ~isToreDown => held = lastSent + 1
  <2>1. lastSent \in Nat /\ held \in Packets /\ Pushed \in Int /\ Len(rtpQueue) \in Nat
    BY <1>1 DEF IInv, TypeOK, HeldShape, Packets, NoPacket, Pushed
  <2>2. lastSent < held /\ held <= Pushed - Len(rtpQueue)
    BY <1>1 DEF IInv, SentShape, HeldShape
  <2>3. ~isToreDown => lastSent = held - 1
    BY <1>1 DEF IInv, SentShape, TeardownShape, Discarded
  <2> QED BY <2>1, <2>2, <2>3 DEF Packets
<1>4. CASE socketOpen
  <2>1. lastSent' = held
    BY <1>1, <1>4
  <2>2. Chan!Follows(lastSent')
    BY <1>3, <2>1 DEF Chan!Follows
  <2>3. CASE isToreDown \/ isPaused
    BY <1>1, <1>2, <2>2, <2>3 DEF ChanStep, Chan!ChanNext, Chan!DeliverLate
  <2>4. CASE ~(isToreDown \/ isPaused)
    BY <1>1, <1>2, <2>2, <2>4 DEF ChanStep, Chan!ChanNext, Chan!Deliver
  <2> QED BY <2>3, <2>4
<1>5. CASE ~socketOpen
  <2>1. lastSent' = lastSent /\ isToreDown
    BY <1>1, <1>5 DEF IInv, TeardownShape
  <2> QED BY <1>1, <1>2, <2>1 DEF ChanStep, Chan!ChanNext, Chan!ForgetLate
<1> QED BY <1>4, <1>5

LEMMA PauseStep == IInv /\ updateIsPaused => ChanStep
<1> SUFFICES ASSUME IInv, updateIsPaused PROVE ChanStep
  OBVIOUS
<1>1. /\ isPaused' = ~isPaused
      /\ UNCHANGED <<isToreDown, lastSent, txPc, created, strandPc>>
  BY DEF updateIsPaused, strandVars, txVars
<1>2. Pushed' = Pushed /\ Committed' = Committed
  BY <1>1 DEF Pushed, Committed
<1>3. CASE isToreDown
  BY <1>1, <1>2, <1>3 DEF ChanStep, Chan!chanVars
<1>4. CASE ~isToreDown /\ isPaused
  BY <1>1, <1>2, <1>4 DEF ChanStep, Chan!ChanNext, Chan!Release
<1>5. CASE ~isToreDown /\ ~isPaused
  BY <1>1, <1>2, <1>5 DEF ChanStep, Chan!ChanNext, Chan!Hold
<1> QED BY <1>3, <1>4, <1>5

LEMMA CloseStep == IInv /\ TdFlag => ChanStep
<1> SUFFICES ASSUME IInv, TdFlag PROVE ChanStep
  OBVIOUS
<1>1. /\ isToreDown' = TRUE /\ tdPc = "zeroed"
      /\ UNCHANGED <<isPaused, lastSent, txPc, created, strandPc>>
  BY DEF TdFlag, strandVars, txVars
<1>2. ~isToreDown
  BY <1>1 DEF IInv, TeardownShape
<1>3. Pushed' = Pushed
  BY <1>1 DEF Pushed
<1> QED BY <1>1, <1>2, <1>3 DEF ChanStep, Chan!ChanNext, Chan!Close

LEMMA TxThreadStep == IInv /\ TxThread => ChanStep
<1> SUFFICES ASSUME IInv, TxThread PROVE ChanStep
  OBVIOUS
<1>1. CASE TxLoop
  <2>1. /\ txPc = "loop" /\ txPc' = (IF isToreDown THEN "done" ELSE "ready")
        /\ UNCHANGED <<isPaused, isToreDown, lastSent, created, strandPc>>
    BY <1>1 DEF TxLoop, TxGoto, sharedVars, strandVars
  <2>2. Pushed' = Pushed /\ (txPc' \in Committed <=> txPc \in Committed)
    BY <2>1 DEF Pushed, Committed
  <2> QED BY <2>1, <2>2, InvisibleStep
<1>2. CASE TxReady
  <2>1. /\ txPc = "ready" /\ txPc' \in {"pop", "loop"} /\ (txPc' = "pop" => ~isPaused)
        /\ UNCHANGED <<isPaused, isToreDown, lastSent, created, strandPc>>
    BY <1>2 DEF TxReady, TxGoto, sharedVars, strandVars
  <2>2. Pushed' = Pushed /\ Committed' = Committed
    BY <2>1 DEF Pushed, Committed
  <2>3. CASE txPc' = "loop"
    BY <2>1, <2>2, <2>3, ForgetStep DEF IInv
  <2>4. CASE txPc' = "pop" /\ isToreDown
    <3>1. txPc' \in Committed /\ txPc \in Committed
      BY <2>1, <2>4 DEF Committed
    <3> QED BY <2>1, <2>2, <3>1, InvisibleStep
  <2>5. CASE txPc' = "pop" /\ ~isToreDown
    BY <2>1, <2>2, <2>5 DEF ChanStep, Chan!chanVars
  <2> QED BY <2>1, <2>3, <2>4, <2>5
<1>3. CASE TxPop
  <2>1. /\ txPc = "pop" /\ txPc' \in {"write", "loop"}
        /\ UNCHANGED <<isPaused, isToreDown, lastSent, created, strandPc>>
    BY <1>3 DEF TxPop, TxGoto, strandVars
  <2>2. Pushed' = Pushed
    BY <2>1 DEF Pushed
  <2>3. CASE txPc' = "loop"
    BY <2>1, <2>2, <2>3, ForgetStep DEF IInv
  <2>4. CASE txPc' = "write"
    <3>1. txPc' \in Committed /\ txPc \in Committed
      BY <2>1, <2>4 DEF Committed
    <3> QED BY <2>1, <2>2, <3>1, InvisibleStep
  <2> QED BY <2>1, <2>3, <2>4
<1>4. CASE TxWrite
  BY <1>4, WriteStep
<1>5. CASE TxDeref \/ TxAccount \/ TxCount
  <2>1. /\ txPc \in {"deref", "account", "count"} /\ txPc' \in {"account", "count", "loop"}
        /\ UNCHANGED <<isPaused, isToreDown, lastSent, created, strandPc>>
    BY <1>5 DEF TxDeref, TxAccount, TxCount, TxGoto, sharedVars, strandVars
  <2>2. Pushed' = Pushed /\ (txPc' \in Committed <=> txPc \in Committed)
    BY <2>1 DEF Pushed, Committed
  <2> QED BY <2>1, <2>2, InvisibleStep
<1> QED BY <1>1, <1>2, <1>3, <1>4, <1>5 DEF TxThread

\* Reading tasks, sweeps and the other steps of the teardown.
LEMMA QuietStep ==
  ASSUME IInv,
         \/ \E f \in FrontCounts, r \in RearCounts : VideoTask(f, r)
         \/ AudioTask \/ AudioTaskSweepOnly \/ enqueueRtpForMemoryMgmt \/ Sweep
         \/ TdZero \/ clearRtpQueue \/ closeSocket
         \/ StartAudio \/ StopAudio \/ UNCHANGED vars
  PROVE  ChanStep
<1>1. UNCHANGED <<isPaused, isToreDown, lastSent, txPc>>
  BY DEF VideoTask, AudioTask, AudioTaskSweepOnly, enqueueRtpForMemoryMgmt, Sweep,
     deleteDanglingRtps, SweepEnds, TdZero, clearRtpQueue, closeSocket, StartAudio, StopAudio, vars,
     sharedVars, strandVars, txVars
<1>2. Pushed' = Pushed
  <2>1. CASE enqueueRtpForMemoryMgmt
    <3>1. strandPc = "own" /\ strandPc' = "queue" /\ created' = created + 1
      BY <2>1 DEF enqueueRtpForMemoryMgmt
    <3>2. created \in Nat
      BY DEF IInv, TypeOK
    <3> QED BY <3>1, <3>2 DEF Pushed
  <2>2. CASE \/ \E f \in FrontCounts, r \in RearCounts : VideoTask(f, r)
             \/ AudioTask \/ AudioTaskSweepOnly \/ Sweep
    <3>1. strandPc # "queue" /\ strandPc' # "queue" /\ created' = created
      BY <2>2 DEF VideoTask, AudioTask, AudioTaskSweepOnly, Sweep, deleteDanglingRtps,
         SweepEnds, StartSample
    <3> QED BY <3>1 DEF Pushed
  <2>3. CASE \/ TdZero \/ clearRtpQueue \/ closeSocket \/ StartAudio \/ StopAudio
             \/ UNCHANGED vars
    <3>1. UNCHANGED <<strandPc, created>>
      BY <2>3 DEF TdZero, clearRtpQueue, closeSocket, StartAudio, StopAudio, vars, strandVars
    <3> QED BY <3>1 DEF Pushed
  <2> QED BY <2>1, <2>2, <2>3
<1>3. Committed' = Committed
  BY <1>1 DEF Committed
<1> QED BY <1>1, <1>2, <1>3, InvisibleStep

\* The three threads together implement the ordered channel of RtpChannel: no
\* packet is skipped, repeated or reordered, and once the session is paused or
\* torn down at most one more packet is sent.
THEOREM ChannelRefined == Spec => ImplementsChannel
<1>1. Init => Chan!ChanInit
  BY DEF Init, Chan!ChanInit, Pushed, NoPacket
<1>2. IInv /\ [Next]_vars => ChanStep
  <2> SUFFICES ASSUME IInv, [Next]_vars PROVE ChanStep
    OBVIOUS
  <2>1. CASE \/ \E f \in FrontCounts, r \in RearCounts : VideoTask(f, r)
             \/ AudioTask \/ AudioTaskSweepOnly \/ Sweep \/ StartAudio \/ StopAudio
             \/ UNCHANGED vars
    BY <2>1, QuietStep
  <2>2. CASE ReadingTask
    BY <2>2, QuietStep, AcceptStep DEF ReadingTask
  <2>3. CASE updateIsPaused
    BY <2>3, PauseStep
  <2>4. CASE TxThread
    BY <2>4, TxThreadStep
  <2>5. CASE Teardown
    BY <2>5, QuietStep, CloseStep DEF Teardown
  <2> QED BY <2>1, <2>2, <2>3, <2>4, <2>5 DEF Next
<1> QED BY <1>1, <1>2, Invariance, PTL DEF Spec, ImplementsChannel, Chan!ChanSpec, ChanStep
=============================================================================
