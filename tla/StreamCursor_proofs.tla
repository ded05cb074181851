-------------------------- MODULE StreamCursor_proofs --------------------------
(***************************************************************************)
(* Theorems about StreamCursor for every content: any numbers of samples,   *)
(* units, play times and groups of pictures, and any times and sample       *)
(* numbers that a client names.                                             *)
(***************************************************************************)
EXTENDS StreamCursor, TLAPS

-----------------------------------------------------------------------------
(* Arithmetic *)

\* The quotient of a division by a positive number.
LEMMA Quotient ==
  ASSUME NEW a \in Int, NEW b \in Nat \ {0}
  PROVE  /\ a \div b \in Int /\ a % b \in 0 .. b - 1
         /\ a = b * (a \div b) + (a % b)
<1>1. a \div b \in Int
  OBVIOUS
<1>2. a % b \in 0 .. b - 1
  OBVIOUS
<1>3. a = b * (a \div b) + (a % b)
  OBVIOUS
<1> QED
  BY <1>1, <1>2, <1>3

\* A product of a positive number grows with the other factor.
LEMMA Grows ==
  ASSUME NEW b \in Nat \ {0}, NEW x \in Int, NEW y \in Int, x + 1 <= y
  PROVE  b * x + b <= b * y
<1>1. b * (x + 1) <= b * y
  OBVIOUS
<1>2. b * (x + 1) = b * x + b
  OBVIOUS
<1> QED
  BY <1>1, <1>2

\* A number with a remainder in front of the next multiple.
LEMMA Remainder ==
  ASSUME NEW b \in Nat \ {0}, NEW x \in Int, NEW r \in 0 .. b - 1
  PROVE  (b * x + r) % b = r
<1> DEFINE a == b * x + r
           q == a \div b
           m == a % b
<1>1. a \in Int /\ b * x \in Int
  OBVIOUS
<1>2. q \in Int /\ m \in 0 .. b - 1 /\ a = b * q + m
  BY <1>1, Quotient
<1>3. b * q \in Int
  BY <1>2
<1>4. a = b * x + r
  OBVIOUS
<1> HIDE DEF a, q, m
<1>5. ~(q + 1 <= x)
  <2> SUFFICES ASSUME q + 1 <= x PROVE FALSE
    OBVIOUS
  <2>1. b * q + b <= b * x
    BY <1>2, Grows
  <2> QED
    BY <1>1, <1>2, <1>3, <1>4, <2>1
<1>6. ~(x + 1 <= q)
  <2> SUFFICES ASSUME x + 1 <= q PROVE FALSE
    OBVIOUS
  <2>1. b * x + b <= b * q
    BY <1>2, Grows
  <2> QED
    BY <1>1, <1>2, <1>3, <1>4, <2>1
<1>7. q = x
  BY <1>2, <1>5, <1>6
<1>8. m = r
  BY <1>1, <1>2, <1>4, <1>7
<1> QED
  BY <1>8 DEF m, a

\* A multiple has no remainder.
LEMMA Multiple ==
  ASSUME NEW b \in Nat \ {0}, NEW x \in Int
  PROVE  (b * x) % b = 0
<1>1. 0 \in 0 .. b - 1 /\ b * x + 0 = b * x
  OBVIOUS
<1>2. (b * x + 0) % b = 0
  BY <1>1, Remainder
<1> QED
  BY <1>1, <1>2

-----------------------------------------------------------------------------
(* What the translation of times returns *)

\* NextKey is the first multiple of Gop that is not before n.
LEMMA NextKeyIsNext ==
  ASSUME NEW n \in Nat
  PROVE  /\ NextKey(n) \in n .. n + Gop - 1
         /\ NextKey(n) % Gop = 0
         /\ \A k \in n .. NextKey(n) - 1 : k % Gop # 0
<1> DEFINE q == n \div Gop
           r == n % Gop
<1>1. Gop \in Nat \ {0}
  BY CursorAssumption
<1>2. q \in Int /\ r \in 0 .. Gop - 1 /\ n = Gop * q + r /\ Gop * q \in Int
  BY <1>1, Quotient
<1>3. NextKey(n) = IF r = 0 THEN n ELSE n + Gop - r
  BY DEF NextKey
<1> HIDE DEF q, r
<1>4. CASE r = 0
  BY <1>1, <1>2, <1>3, <1>4 DEF r
<1>5. CASE r # 0
  <2>1. NextKey(n) = Gop * (q + 1)
    <3>1. Gop * (q + 1) = Gop * q + Gop
      BY <1>1, <1>2
    <3> QED
      BY <1>1, <1>2, <1>3, <1>5, <3>1
  <2>2. NextKey(n) % Gop = 0
    BY <1>1, <1>2, <2>1, Multiple
  <2>3. NextKey(n) \in n .. n + Gop - 1
    BY <1>1, <1>2, <1>3, <1>5
  <2>4. ASSUME NEW k \in n .. NextKey(n) - 1
        PROVE  k % Gop # 0
    <3> DEFINE d == k - Gop * q
    <3>1. d \in 0 .. Gop - 1 /\ d # 0 /\ k = Gop * q + d
      BY <1>1, <1>2, <1>3, <1>5, <2>3
    <3> HIDE DEF d
    <3>2. k % Gop = d
      BY <1>1, <1>2, <3>1, Remainder
    <3> QED
      BY <3>1, <3>2
  <2> QED
    BY <2>2, <2>3, <2>4
<1> QED
  BY <1>4, <1>5

\* A sample number of a time is not negative.
LEMMA SampleNumberNat ==
  ASSUME NEW s \in Streams, NEW t \in Nat
  PROVE  getSampleNumber(s, t) \in Nat
<1>1. Unit[s] \in Nat \ {0}
  BY CursorAssumption
<1>2. 2 * Unit[s] \in Nat \ {0} /\ 2 * t + Unit[s] \in Nat
  BY <1>1
<1> DEFINE a == 2 * t + Unit[s]
           b == 2 * Unit[s]
           q == a \div b
<1>3. a \in Nat /\ b \in Nat \ {0}
  BY <1>2
<1>4. getSampleNumber(s, t) = q
  BY DEF getSampleNumber
<1> HIDE DEF a, b
<1>5. q \in Nat
  BY <1>3
<1> QED
  BY <1>4, <1>5

\* The last key frame of the list.
LEMMA LastKey ==
  ASSUME NEW s \in Streams
  PROVE  maxSampleNo(s) \in Nat /\ maxSampleNo(s) - (maxSampleNo(s) % Gop) \in 0 .. maxSampleNo(s)
<1> DEFINE a == maxSampleNo(s)
<1>1. a \in Nat /\ Gop \in Nat \ {0}
  BY CursorAssumption DEF maxSampleNo
<1> HIDE DEF a
<1>2. (a % Gop) \in Int /\ 0 <= a % Gop /\ (a % Gop) <= a
  BY <1>1
<1>3. a - (a % Gop) \in 0 .. a
  BY <1>1, <1>2
<1> QED
  BY <1>1, <1>3 DEF a

\* No position of a PLAY is negative.
LEMMA PositionsNat ==
  ASSUME NEW s \in Streams, NEW t \in Times
  PROVE  findKeySampleNumber(s, t) \in Nat /\ findSampleNumber(s, t) \in Nat
<1>1. t \in Int
  BY CursorAssumption
<1>2. CASE Outside(s, t)
  BY <1>2, LastKey DEF findKeySampleNumber, findSampleNumber
<1>3. CASE ~Outside(s, t)
  <2>1. t \in Nat
    BY <1>1, <1>3 DEF Outside
  <2> DEFINE n == getSampleNumber(s, t)
  <2>2. n \in Nat
    BY <2>1, SampleNumberNat
  <2> HIDE DEF n
  <2>3. NextKey(n) \in Nat
    <3>1. NextKey(n) \in n .. n + Gop - 1 /\ Gop \in Nat
      BY <2>2, NextKeyIsNext, CursorAssumption
    <3> QED
      BY <2>2, <3>1
  <2> QED
    BY <1>3, <2>2, <2>3 DEF findKeySampleNumber, findSampleNumber, n
<1> QED
  BY <1>2, <1>3

-----------------------------------------------------------------------------
(* How a reading task can leave its list *)

\* Cursors are numbers, and the delayed onPlayStarts are counted.
Cursors ==
  /\ curSampleNo \in [Streams -> Int]
  /\ endSampleNo \in [Streams -> Int]
  /\ starting \in Nat

IInv == Cursors /\ RunsOffOnlyPastEnd

LEMMA InitCursors == Init => IInv
BY CursorAssumption DEF Init, IInv, Cursors, RunsOffOnlyPastEnd, None

\* What a PLAY of a time range does, whether it is carried out or throws.
LEMMA PositionedCursors ==
  ASSUME Cursors, NEW S, NEW from \in Times, NEW to \in Times, Positioned(S, from, to)
  PROVE  curSampleNo' \in [Streams -> Int] /\ endSampleNo' \in [Streams -> Int]
<1>1. \A s \in Streams : findKeySampleNumber(s, from) \in Nat /\ findSampleNumber(s, to) \in Nat
  BY PositionsNat
<1> QED
  BY <1>1 DEF Cursors, Positioned

LEMMA PlayCursors ==
  ASSUME IInv, ~crashed, NEW from \in Times, NEW to \in Times, NEW listed \in BOOLEAN,
         PlayBegins(from, to, listed) \/ PlayThrows(from, to, listed)
  PROVE  Cursors' /\ (crashed' => ~listed)
<1>1. PICK S : Positioned(S, from, to)
  BY DEF PlayBegins, PlayThrows
<1>2. curSampleNo' \in [Streams -> Int] /\ endSampleNo' \in [Streams -> Int]
  BY <1>1, PositionedCursors DEF IInv
<1>3. starting' \in Nat
  <2>1. starting \in Nat
    BY DEF IInv, Cursors
  <2>2. starting' = starting + 1 \/ starting' = starting
    BY DEF PlayBegins, PlayThrows
  <2> QED
    BY <2>1, <2>2
<1>4. crashed' => ~listed
  BY DEF PlayBegins, PlayThrows
<1> QED
  BY <1>2, <1>3, <1>4 DEF Cursors

\* After it no task has crashed, unless camId names no camera.
LEMMA InitialPlayCursors ==
  ASSUME IInv, ~crashed, NEW from \in Times, NEW to \in Times, InitialPlay(from, to)
  PROVE  IInv'
<1>1. Cursors' /\ ~crashed'
  BY PlayCursors DEF InitialPlay
<1> QED
  BY <1>1 DEF IInv, RunsOffOnlyPastEnd

LEMMA SeekCursors ==
  ASSUME IInv, ~crashed, camListed \in BOOLEAN, NEW from \in Times, NEW to \in Times,
         Seek(from, to)
  PROVE  IInv'
<1>1. CASE PlayBegins(from, to, camListed) \/ PlayThrows(from, to, camListed)
  <2>1. Cursors' /\ (crashed' => ~camListed')
    BY <1>1, PlayCursors DEF Seek
  <2> QED
    BY <2>1 DEF IInv, RunsOffOnlyPastEnd
<1>2. CASE UNCHANGED <<cursorVars, starting, crashed>>
  BY <1>2 DEF cursorVars, IInv, Cursors, RunsOffOnlyPastEnd
<1> QED
  BY <1>1, <1>2 DEF Seek

\* A reading task that runs off its list was past its end or before its start.
LEMMA NextSampleCursors ==
  ASSUME IInv, ~crashed, NEW s \in Streams, NextSample(s)
  PROVE  IInv'
<1>1. curSampleNo[s] \in Int /\ endSampleNo[s] \in Int /\ Samples[s] \in Nat \ {0}
  BY CursorAssumption DEF IInv, Cursors
<1>2. Cursors'
  BY CursorAssumption DEF IInv, Cursors, NextSample
<1>3. CASE ~crashed'
  BY <1>2, <1>3 DEF IInv, RunsOffOnlyPastEnd
<1>4. CASE crashed'
  <2>1. /\ ~isDone(s) /\ ~Readable(s, curSampleNo[s], camListed) /\ reading[s]
        /\ UNCHANGED <<curSampleNo, endSampleNo, reading, cached, camListed>>
    BY <1>4 DEF NextSample
  <2>2. curSampleNo[s] <= endSampleNo[s]
    BY <1>1, <2>1 DEF isDone
  <2>3. cached => endSampleNo[s] > maxSampleNo(s) \/ curSampleNo[s] < 0
    BY <1>1, <2>1, <2>2 DEF Readable, List, maxSampleNo
  <2>4. reading'[s] /\ (cached' => endSampleNo'[s] > maxSampleNo(s) \/ curSampleNo'[s] < 0)
    BY <2>1, <2>3
  <2> QED
    BY <1>2, <2>4 DEF IInv, RunsOffOnlyPastEnd
<1> QED
  BY <1>3, <1>4

\* Of a number that the client names only -1 is left out.
LEMMA ResumeCursors ==
  ASSUME IInv, ~crashed, Resume
  PROVE  IInv'
<1>1. PICK received \in [Streams -> {Unset} \cup Indices] :
        curSampleNo' = [s \in Streams |-> IF received[s] = Unset THEN curSampleNo[s]
                                          ELSE received[s] + 1]
  BY DEF Resume
<1>2. \A s \in Streams : received[s] \in Int
  <2>1. {Unset} \cup Indices \subseteq Int
    BY CursorAssumption
  <2> QED
    BY <2>1
<1>3. Cursors'
  BY <1>1, <1>2 DEF IInv, Cursors, Resume
<1> QED
  BY <1>3 DEF IInv, RunsOffOnlyPastEnd, Resume

\* Reads at once leave a number.
LEMMA AfterReadsInt ==
  ASSUME Cursors, NEW v \in Int, NEW n \in Nat, NEW listed \in BOOLEAN
  PROVE  AfterReads(v, n, listed) \in Int
<1>1. endSampleNo["video"] \in Int /\ Samples["video"] \in Int
  BY CursorAssumption DEF Cursors, Streams
<1> QED
  BY <1>1 DEF AfterReads

\* What a switch does to the cursors and to the tasks.
LEMMA SwitchEffect ==
  ASSUME Cursors, NEW listed \in BOOLEAN, NEW video \in {Unset} \cup Indices,
         NEW audio \in {Unset} \cup Indices, Switch(listed, video, audio)
  PROVE  /\ curSampleNo' \in [Streams -> Int]
         /\ UNCHANGED <<endSampleNo, starting, isPaused, cached>> /\ camListed' = listed
         /\ crashed' => ~cached \/ crashed
<1>1. /\ "video" \in Streams /\ "audio" \in Streams /\ Streams = {"video", "audio"}
      /\ video \in Int /\ audio \in Int /\ Fast \in Nat
  BY CursorAssumption DEF Streams
<1> DEFINE v == Switched("video", video)
           a == IF audio = Unset THEN curSampleNo["audio"] ELSE Switched("audio", audio)
           stays == audio = Unset /\ reading["audio"]
<1>2. v \in Int /\ a \in Int
  BY <1>1 DEF Switched, Cursors
<1>3. CASE video < 0 /\ curSampleNo' = [curSampleNo EXCEPT !["video"] = video] /\ UNCHANGED crashed
  BY <1>1, <1>3 DEF Switch, Cursors
<1>4. CASE ~cached /\ UNCHANGED curSampleNo
  BY <1>4 DEF Switch, Cursors
<1>5. CASE \E n \in 0 .. (IF isPaused THEN 0 ELSE Fast) :
             LET r == AfterReads(v, n, listed)
                 further == r < v + n
                 throws == further /\ r <= endSampleNo["video"] IN
               /\ curSampleNo' = [video |-> r, audio |-> a]
               /\ crashed' = (throws /\ ~cached)
  <2>1. PICK n \in 0 .. (IF isPaused THEN 0 ELSE Fast) :
          /\ curSampleNo' = [video |-> AfterReads(v, n, listed), audio |-> a]
          /\ crashed' => ~cached
    BY <1>5
  <2>2. n \in Nat
    BY <1>1
  <2>3. AfterReads(v, n, listed) \in Int
    BY <1>2, <2>2, AfterReadsInt
  <2>4. curSampleNo' \in [Streams -> Int]
    BY <1>1, <1>2, <2>1, <2>3
  <2> QED
    BY <2>1, <2>4 DEF Switch
<1> QED
  BY <1>3, <1>4, <1>5 DEF Switch

LEMMA SwitchCursors ==
  ASSUME IInv, ~crashed, NEW listed \in BOOLEAN, NEW video \in {Unset} \cup Indices,
         NEW audio \in {Unset} \cup Indices, Switch(listed, video, audio)
  PROVE  IInv'
<1>1. /\ curSampleNo' \in [Streams -> Int]
      /\ UNCHANGED <<endSampleNo, starting, cached>>
      /\ crashed' => ~cached
  BY SwitchEffect DEF IInv
<1> QED
  BY <1>1 DEF IInv, Cursors, RunsOffOnlyPastEnd

\* camId has a list or has none.
CamTyped == camListed \in BOOLEAN

LEMMA StepCamTyped == CamTyped /\ [Next]_vars => CamTyped'
<1> SUFFICES ASSUME CamTyped, [Next]_vars PROVE CamTyped'
  OBVIOUS
<1> USE DEF CamTyped
<1>1. CASE UNCHANGED vars
  BY <1>1 DEF vars
<1>2. ASSUME NEW from \in Times, NEW to \in Times, InitialPlay(from, to) \/ Seek(from, to)
      PROVE  CamTyped'
  BY <1>2 DEF InitialPlay, Seek
<1>3. CASE Pause \/ Resume \/ onPlayStart
  BY <1>3 DEF Pause, Resume, onPlayStart
<1>4. ASSUME NEW s \in Streams, NextSample(s) PROVE CamTyped'
  BY <1>4 DEF NextSample
<1>5. ASSUME NEW listed \in BOOLEAN, NEW video, NEW audio, Switch(listed, video, audio)
      PROVE  CamTyped'
  BY <1>5 DEF Switch
<1> QED
  BY <1>1, <1>2, <1>3, <1>4, <1>5 DEF Next, Request

LEMMA StepCursors == IInv /\ CamTyped /\ [Next]_vars => IInv'
<1> SUFFICES ASSUME IInv, CamTyped, [Next]_vars PROVE IInv'
  OBVIOUS
<1>1. CASE UNCHANGED vars
  BY <1>1 DEF vars, cursorVars, IInv, Cursors, RunsOffOnlyPastEnd
<1>2. CASE Pause /\ ~crashed
  BY <1>2 DEF Pause, cursorVars, IInv, Cursors, RunsOffOnlyPastEnd
<1>3. CASE onPlayStart /\ ~crashed
  BY <1>3 DEF onPlayStart, cursorVars, IInv, Cursors, RunsOffOnlyPastEnd
<1> QED
  BY <1>1, <1>2, <1>3, InitialPlayCursors, SeekCursors, NextSampleCursors, ResumeCursors,
     SwitchCursors DEF Next, Request, CamTyped

\* Behind the initial PLAY and with a camera that the content has, the process ends
\* only when a reading task runs off its list: past an end that was rounded up, or
\* from a cursor that is negative (StreamHandler::getNextVideoSample, RtspHandler's
\* PLAY and camera change).
THEOREM OffTheListOnlyPastEnd == Spec => []RunsOffOnlyPastEnd
<1>1. Init => CamTyped
  BY DEF Init, CamTyped
<1>2. IInv => RunsOffOnlyPastEnd
  BY DEF IInv
<1> QED
  BY <1>1, <1>2, InitCursors, StepCursors, StepCamTyped, PTL DEF Spec

-----------------------------------------------------------------------------
(* Where a PLAY begins *)

\* A PLAY whose start is inside the play time positions video at the first key
\* frame that is not before the sample at that time (StartsAtNextKey), in every
\* behaviour: findKeySampleNumber alone decides.
THEOREM PlayStartsAtKey == Spec => StartsAtNextKey
<1>1. ASSUME IInv, [Next]_vars, starting' = starting + 1,
             NEW t \in Times \cap (1 .. PlayTime["video"] - 1),
             InitialPlay(t, Unset) \/ Seek(t, Unset)
      PROVE  LET n == curSampleNo'["video"]
                 m == findSampleNumber("video", t) IN
               n % Gop = 0 /\ n >= m /\ \A k \in m .. n - 1 : k % Gop # 0
  <2> DEFINE m == getSampleNumber("video", t)
  <2>1. "video" \in Streams /\ PlayTime["video"] \in Nat
    BY CursorAssumption DEF Streams
  <2>2. t \in Nat /\ t # 0 /\ ~Outside("video", t)
    BY <2>1 DEF Outside
  <2>3. m \in Nat
    BY <2>1, <2>2, SampleNumberNat
  <2>4. findSampleNumber("video", t) = m /\ findKeySampleNumber("video", t) = NextKey(m)
    BY <2>2 DEF findSampleNumber, findKeySampleNumber
  <2>5. Positioned(Streams, t, Unset)
    <3>1. starting \in Nat
      BY <1>1 DEF IInv, Cursors
    <3>2. starting' # starting
      BY <1>1, <3>1
    <3> QED
      BY <1>1, <3>2 DEF InitialPlay, Seek, PlayBegins, PlayThrows
  <2>6. curSampleNo'["video"] = NextKey(m)
    BY <2>1, <2>4, <2>5 DEF Positioned
  <2> HIDE DEF m
  <2>7. /\ NextKey(m) \in m .. m + Gop - 1
        /\ NextKey(m) % Gop = 0
        /\ \A k \in m .. NextKey(m) - 1 : k % Gop # 0
    BY <2>3, NextKeyIsNext
  <2>8. NextKey(m) >= m
    BY <2>3, <2>7, CursorAssumption
  <2> QED
    BY <2>4, <2>6, <2>7, <2>8
<1>2. IInv /\ [Next]_vars =>
        [starting' = starting + 1 =>
           \A t \in Times \cap (1 .. PlayTime["video"] - 1) :
             InitialPlay(t, Unset) \/ Seek(t, Unset) =>
             LET n == curSampleNo'["video"]
                 m == findSampleNumber("video", t) IN
               n % Gop = 0 /\ n >= m /\ \A k \in m .. n - 1 : k % Gop # 0]_vars
  BY <1>1
<1>3. Init => CamTyped
  BY DEF Init, CamTyped
<1> QED
  BY <1>2, <1>3, InitCursors, StepCursors, StepCamTyped, PTL DEF Spec, StartsAtNextKey

-----------------------------------------------------------------------------
(* How far behind its list a cursor can be *)

\* The play time of a content is that of its samples.  It is read from the
\* content's description, the samples are counted in its files: the code relies
\* on their agreement.
PlayTimeAgrees == \A s \in Streams : PlayTime[s] <= Samples[s] * Unit[s]

\* A time inside the play time is rounded at most to the number behind the list.
LEMMA SampleNumberBound ==
  ASSUME PlayTimeAgrees, NEW s \in Streams, NEW t \in Nat, t < PlayTime[s]
  PROVE  getSampleNumber(s, t) <= Samples[s]
<1> DEFINE U == Unit[s]
           S == Samples[s]
           a == 2 * t + U
           q == a \div (2 * U)
<1>1. U \in Nat \ {0} /\ S \in Nat /\ PlayTime[s] \in Nat
  BY CursorAssumption
<1>2. t < S * U /\ S * U \in Nat
  BY <1>1 DEF PlayTimeAgrees
<1>3. getSampleNumber(s, t) = q
  BY DEF getSampleNumber
<1> HIDE DEF U, S
<1>4. 2 * U \in Nat \ {0} /\ a \in Int
  BY <1>1
<1>5. q \in Int /\ (a % (2 * U)) \in 0 .. (2 * U) - 1 /\ a = (2 * U) * q + (a % (2 * U))
  BY <1>4, Quotient
<1> HIDE DEF q
<1>6. (2 * U) * q \in Int /\ (2 * U) * q <= a
  BY <1>4, <1>5
<1>7. (2 * U) * S = 2 * (S * U)
  BY <1>1
<1>8. (2 * U) * q < (2 * U) * S + 2 * U
  BY <1>1, <1>2, <1>6, <1>7
<1>9. ~(S + 1 <= q)
  <2> SUFFICES ASSUME S + 1 <= q PROVE FALSE
    OBVIOUS
  <2>1. (2 * U) * S + 2 * U <= (2 * U) * q
    BY <1>1, <1>4, <1>5, Grows
  <2> QED
    BY <1>1, <1>4, <1>6, <1>7, <1>2, <1>8, <2>1
<1>10. q <= S
  BY <1>1, <1>5, <1>9
<1> QED
  BY <1>3, <1>10 DEF S

LEMMA PositionBounds ==
  ASSUME PlayTimeAgrees, NEW s \in Streams, NEW t \in Times
  PROVE  /\ findKeySampleNumber(s, t) \in 0 .. Samples[s] + Gop - 1
         /\ findSampleNumber(s, t) \in 0 .. Samples[s]
<1>1. t \in Int /\ Gop \in Nat \ {0} /\ Samples[s] \in Nat \ {0}
  BY CursorAssumption
<1>2. CASE Outside(s, t)
  <2>1. maxSampleNo(s) \in Nat /\ maxSampleNo(s) = Samples[s] - 1
        /\ maxSampleNo(s) - (maxSampleNo(s) % Gop) \in 0 .. maxSampleNo(s)
    BY LastKey DEF maxSampleNo
  <2>2. findSampleNumber(s, t) \in 0 .. Samples[s]
    BY <1>1, <1>2, <2>1 DEF findSampleNumber
  <2>3. findKeySampleNumber(s, t) \in 0 .. maxSampleNo(s)
    BY <1>2, <2>1 DEF findKeySampleNumber
  <2> QED
    BY <1>1, <2>1, <2>2, <2>3
<1>3. CASE ~Outside(s, t)
  <2>1. t \in Nat /\ t < PlayTime[s]
    BY <1>1, <1>3, CursorAssumption DEF Outside
  <2> DEFINE n == getSampleNumber(s, t)
  <2>2. n \in Nat /\ n <= Samples[s]
    BY <2>1, SampleNumberNat, SampleNumberBound
  <2>3. findSampleNumber(s, t) = n
    BY <1>3 DEF findSampleNumber
  <2>4. findKeySampleNumber(s, t) \in {0, NextKey(n), n}
    BY <1>3 DEF findKeySampleNumber
  <2> HIDE DEF n
  <2>5. NextKey(n) \in n .. n + Gop - 1
    BY <2>2, NextKeyIsNext
  <2> QED
    BY <1>1, <2>2, <2>3, <2>4, <2>5
<1> QED
  BY <1>2, <1>3

\* The values a cursor may have.
Bound(s) ==
  {c \in Int : \/ c \in Indices \/ c - 1 \in Indices
              \/ /\ c < Samples[s] + Gop \/ c = Samples[s] + 1
                 /\ \E n \in Indices \cup {Unset} : n <= c}

\* TypeOK, the bounds of one cursor in one set.
LEMMA TypeOKBound ==
  TypeOK <=>
    /\ curSampleNo \in [Streams -> Int]
    /\ endSampleNo \in [Streams -> Int]
    /\ \A s \in Streams : curSampleNo[s] \in Bound(s) /\ endSampleNo[s] \in Unset .. Samples[s]
    /\ ended \in [Streams -> BOOLEAN]
    /\ reading \in [Streams -> BOOLEAN]
    /\ starting \in 0 .. MaxStarts
    /\ {isPaused, cached, camListed, crashed} \subseteq BOOLEAN
BY CursorAssumption DEF TypeOK, Bound

\* PLAY keeps every position inside its bound.
LEMMA PositionedTyped ==
  ASSUME PlayTimeAgrees, TypeOK, NEW S, NEW from \in Times, NEW to \in Times,
         Positioned(S, from, to)
  PROVE  /\ curSampleNo' \in [Streams -> Int] /\ endSampleNo' \in [Streams -> Int]
         /\ \A s \in Streams : /\ curSampleNo'[s] \in Bound(s)
                                /\ endSampleNo'[s] \in Unset .. Samples[s]
<1>1. \A s \in Streams : /\ findKeySampleNumber(s, from) \in 0 .. Samples[s] + Gop - 1
                         /\ findSampleNumber(s, to) \in 0 .. Samples[s]
  BY PositionBounds
<1>2. Unset = -1 /\ Gop \in Nat /\ \A s \in Streams : Samples[s] \in Nat
  BY CursorAssumption
<1>3. curSampleNo' \in [Streams -> Int] /\ endSampleNo' \in [Streams -> Int]
  BY <1>1 DEF TypeOK, Positioned
<1>4. ASSUME NEW s \in Streams
      PROVE  curSampleNo'[s] \in Bound(s) /\ endSampleNo'[s] \in Unset .. Samples[s]
  <2>1. curSampleNo'[s] = IF s \in S THEN findKeySampleNumber(s, from) ELSE curSampleNo[s]
    BY DEF Positioned
  <2>2. endSampleNo'[s] = IF s \in S THEN findSampleNumber(s, to) ELSE endSampleNo[s]
    BY DEF Positioned
  <2>3. curSampleNo[s] \in Bound(s) /\ endSampleNo[s] \in Unset .. Samples[s]
    BY TypeOKBound
  <2>4. findKeySampleNumber(s, from) \in Bound(s)
    <3> DEFINE k == findKeySampleNumber(s, from)
    <3>1. k \in Int /\ k < Samples[s] + Gop /\ Unset <= k
      BY <1>1, <1>2
    <3> HIDE DEF k
    <3>2. \E n \in Indices \cup {Unset} : n <= k
      BY <3>1
    <3>3. k \in Bound(s)
      BY <3>1, <3>2 DEF Bound
    <3> QED
      BY <3>3 DEF k
  <2>5. findSampleNumber(s, to) \in Unset .. Samples[s]
    BY <1>1, <1>2
  <2> QED
    BY <2>1, <2>2, <2>3, <2>4, <2>5
<1> QED
  BY <1>3, <1>4

LEMMA PlayTyped ==
  ASSUME PlayTimeAgrees, TypeOK, starting < MaxStarts, NEW from \in Times, NEW to \in Times,
         InitialPlay(from, to) \/ Seek(from, to)
  PROVE  TypeOK'
<1>1. MaxStarts \in Nat /\ starting \in 0 .. MaxStarts
  BY CursorAssumption DEF TypeOK
<1>2. starting' \in 0 .. MaxStarts
  <2>1. starting' = starting + 1 \/ starting' = starting
    BY DEF InitialPlay, Seek, PlayBegins, PlayThrows
  <2> QED
    BY <1>1, <2>1
<1>3. reading' \in [Streams -> BOOLEAN] /\ ended' \in [Streams -> BOOLEAN]
  BY Zenon DEF InitialPlay, Seek, None, TypeOK
<1>4. isPaused \in BOOLEAN /\ cached \in BOOLEAN /\ camListed \in BOOLEAN /\ crashed \in BOOLEAN
  BY DEF TypeOK
<1>5. isPaused' \in BOOLEAN /\ cached' \in BOOLEAN /\ camListed' \in BOOLEAN
  BY <1>4, Zenon DEF InitialPlay, Seek
<1>6. crashed' \in BOOLEAN
  BY <1>4, Zenon DEF InitialPlay, Seek, PlayBegins, PlayThrows
<1>7. /\ curSampleNo' \in [Streams -> Int] /\ endSampleNo' \in [Streams -> Int]
      /\ \A s \in Streams : /\ curSampleNo'[s] \in Bound(s)
                             /\ endSampleNo'[s] \in Unset .. Samples[s]
  <2>1. CASE UNCHANGED cursorVars
    BY <2>1, TypeOKBound DEF cursorVars
  <2>2. ASSUME NEW S, Positioned(S, from, to)
        PROVE  /\ curSampleNo' \in [Streams -> Int] /\ endSampleNo' \in [Streams -> Int]
               /\ \A s \in Streams : /\ curSampleNo'[s] \in Bound(s)
                                      /\ endSampleNo'[s] \in Unset .. Samples[s]
    BY <2>2, PositionedTyped
  <2> QED
    BY <2>1, <2>2 DEF InitialPlay, Seek, PlayBegins, PlayThrows
<1>8. {isPaused, cached, camListed, crashed}' \subseteq BOOLEAN
  BY <1>5, <1>6
<1> QED
  BY <1>2, <1>3, <1>7, <1>8 DEF TypeOK, Bound

\* Reading counts a cursor up to at most two behind the list.
LEMMA CountedUp ==
  ASSUME NEW s \in Streams, NEW v \in Bound(s), NEW w \in Int, v <= w, w <= Samples[s] + 1
  PROVE  w \in Bound(s)
<1>1. Unset \in Int /\ Gop \in Nat \ {0} /\ Samples[s] \in Nat \ {0} /\ Indices \subseteq Int
  BY CursorAssumption
<1>2. v \in Int
  BY DEF Bound
<1>3. w < Samples[s] + Gop \/ w = Samples[s] + 1
  BY <1>1
<1>4. PICK n \in Indices \cup {Unset} : n <= v
  <2>1. CASE v \in Indices
    BY <1>2, <2>1
  <2>2. CASE v - 1 \in Indices
    BY <1>2, <2>2
  <2> QED
    BY <2>1, <2>2 DEF Bound
<1>5. n \in Int
  BY <1>1
<1>6. n <= w
  BY <1>2, <1>4, <1>5
<1> QED
  BY <1>3, <1>6 DEF Bound

LEMMA NextSampleTyped ==
  ASSUME TypeOK, NEW s \in Streams, NextSample(s)
  PROVE  TypeOK'
<1>1. /\ curSampleNo \in [Streams -> Int] /\ curSampleNo[s] \in Int /\ endSampleNo[s] \in Int
      /\ Samples[s] \in Nat \ {0} /\ endSampleNo[s] <= Samples[s]
      /\ \A o \in Streams : curSampleNo[o] \in Bound(o)
  BY CursorAssumption, TypeOKBound
<1>2. CASE UNCHANGED curSampleNo
  <2>1. ended' \in [Streams -> BOOLEAN]
    BY DEF TypeOK, NextSample
  <2>2. {isPaused, cached, camListed, crashed}' \subseteq BOOLEAN
    BY Zenon DEF TypeOK, NextSample
  <2> QED
    BY <1>2, <2>1, <2>2 DEF TypeOK, NextSample
<1>3. CASE ~isDone(s) /\ curSampleNo' = [curSampleNo EXCEPT ![s] = @ + 1] /\ UNCHANGED <<ended, crashed>>
  <2>1. curSampleNo[s] + 1 \in Bound(s)
    <3>1. curSampleNo[s] <= endSampleNo[s]
      BY <1>1, <1>3 DEF isDone
    <3> QED
      BY <1>1, <3>1, CountedUp
  <2>2. \A o \in Streams : curSampleNo'[o] \in Bound(o)
    BY <1>1, <1>3, <2>1
  <2>3. curSampleNo' \in [Streams -> Int]
    BY <1>1, <1>3
  <2>4. UNCHANGED <<endSampleNo, ended, reading, starting, isPaused, cached, camListed, crashed>>
    BY <1>3 DEF NextSample
  <2> QED
    BY <2>2, <2>3, <2>4 DEF TypeOK, Bound
<1> QED
  BY <1>2, <1>3 DEF NextSample

LEMMA ResumeTyped ==
  ASSUME TypeOK, Resume
  PROVE  TypeOK'
<1>1. PICK received \in [Streams -> {Unset} \cup Indices] :
        curSampleNo' = [s \in Streams |-> IF received[s] = Unset THEN curSampleNo[s]
                                          ELSE received[s] + 1]
  BY DEF Resume
<1>2. Indices \subseteq Int
  BY CursorAssumption
<1>3. ASSUME NEW s \in Streams PROVE curSampleNo'[s] \in Bound(s)
  <2>1. curSampleNo[s] \in Bound(s)
    BY TypeOKBound
  <2>2. CASE received[s] = Unset
    BY <1>1, <2>1, <2>2
  <2>3. CASE received[s] \in Indices /\ received[s] # Unset
    <3> DEFINE c == received[s]
    <3>0. c \in Int
      BY <1>2, <2>3
    <3> HIDE DEF c
    <3>4. c + 1 \in Int /\ (c + 1) - 1 = c
      BY <3>0
    <3>1. received[s] + 1 \in Int /\ (received[s] + 1) - 1 = received[s]
      BY <3>4 DEF c
    <3>2. received[s] + 1 \in Bound(s)
      BY <2>3, <3>1 DEF Bound
    <3> QED
      BY <1>1, <2>3, <3>2
  <2> QED
    BY <2>2, <2>3
<1>4. curSampleNo' \in [Streams -> Int]
  <2>1. \A s \in Streams : curSampleNo'[s] \in Int
    BY <1>3 DEF Bound
  <2> QED
    BY <1>1, <2>1
<1>5. isPaused' \in BOOLEAN
  BY Zenon DEF Resume
<1>6. {isPaused, cached, camListed, crashed}' \subseteq BOOLEAN
  BY <1>5 DEF Resume, TypeOK
<1> QED
  BY <1>3, <1>4, <1>6 DEF TypeOK, Bound, Resume

\* Reads at once count a cursor up as far as a reading task would.
LEMMA AfterReadsBound ==
  ASSUME TypeOK, NEW v \in Bound("video"), NEW n \in Nat, NEW listed \in BOOLEAN
  PROVE  AfterReads(v, n, listed) \in Bound("video")
<1>1. /\ "video" \in Streams /\ endSampleNo["video"] \in Int /\ Samples["video"] \in Nat
      /\ endSampleNo["video"] <= Samples["video"]
  BY CursorAssumption, TypeOKBound DEF Streams
<1>2. v \in Int
  BY DEF Bound
<1> DEFINE r == AfterReads(v, n, listed)
<1>3. CASE r = v
  BY <1>3
<1>4. CASE r # v
  <2>1. r \in Int /\ r <= Samples["video"] + 1
    BY <1>1, <1>2, <1>4 DEF AfterReads, maxSampleNo
  <2>2. v <= r
    <3>1. v <= endSampleNo["video"] /\ Readable("video", v, listed)
      BY <1>1, <1>2, <1>4 DEF AfterReads
    <3>2. listed => v \in List("video")
      BY <3>1 DEF Readable
    <3> QED
      BY <1>1, <1>2, <3>1, <3>2 DEF AfterReads, maxSampleNo, List
  <2> HIDE DEF r
  <2>3. r \in Bound("video")
    BY <1>1, <2>1, <2>2, CountedUp
  <2> QED
    BY <2>3 DEF r
<1> QED
  BY <1>3, <1>4

LEMMA SwitchedBound ==
  ASSUME TypeOK, NEW s \in Streams, NEW n \in Indices \cup {Unset}
  PROVE  Switched(s, n) \in Bound(s)
<1>1. n \in Int /\ Unset = -1 /\ Gop \in Nat /\ Samples[s] \in Nat \ {0}
  BY CursorAssumption
<1>2. curSampleNo[s] \in Bound(s)
  BY TypeOKBound
<1>3. n \in Bound(s)
  BY <1>1 DEF Bound
<1> QED
  BY <1>2, <1>3 DEF Switched

LEMMA SwitchTyped ==
  ASSUME TypeOK, NEW listed \in BOOLEAN, NEW video \in {Unset} \cup Indices,
         NEW audio \in {Unset} \cup Indices, Switch(listed, video, audio)
  PROVE  TypeOK'
<1>1. "video" \in Streams /\ "audio" \in Streams /\ Streams = {"video", "audio"} /\ Fast \in Nat
  BY CursorAssumption DEF Streams
<1> DEFINE v == Switched("video", video)
           a == IF audio = Unset THEN curSampleNo["audio"] ELSE Switched("audio", audio)
           stays == audio = Unset /\ reading["audio"]
<1>2. v \in Bound("video") /\ a \in Bound("audio") /\ video \in Bound("video")
      /\ curSampleNo["audio"] \in Bound("audio")
  <2>1. video \in Bound("video")
    BY <1>1, CursorAssumption DEF Bound
  <2>2. curSampleNo["audio"] \in Bound("audio")
    BY <1>1, TypeOKBound
  <2> QED
    BY <1>1, <2>1, <2>2, SwitchedBound
<1>3. stays \in BOOLEAN
  OBVIOUS
<1>4. Bound("video") \subseteq Int /\ Bound("audio") \subseteq Int
  BY DEF Bound
<1>5. curSampleNo \in [Streams -> Int] /\ \A s \in Streams : curSampleNo[s] \in Bound(s)
  BY TypeOKBound
<1>6. {isPaused, cached, camListed, crashed} \subseteq BOOLEAN /\ ended \in [Streams -> BOOLEAN]
      /\ reading \in [Streams -> BOOLEAN]
  BY DEF TypeOK
<1> DEFINE Moved == /\ curSampleNo' \in [Streams -> Int]
                    /\ \A s \in Streams : curSampleNo'[s] \in Bound(s)
           Flags == /\ ended' \in [Streams -> BOOLEAN]
                    /\ reading' \in [Streams -> BOOLEAN]
                    /\ crashed' \in BOOLEAN
<1>7. ASSUME NEW p \in BOOLEAN, NEW q \in BOOLEAN
      PROVE  [video |-> p, audio |-> q] \in [Streams -> BOOLEAN]
  BY <1>1
<1>8. CASE /\ video < 0
           /\ curSampleNo' = [curSampleNo EXCEPT !["video"] = video]
           /\ reading' = [video |-> FALSE, audio |-> stays]
           /\ UNCHANGED <<ended, crashed>>
  <2>1. Moved
    BY <1>1, <1>2, <1>4, <1>5, <1>8
  <2>2. Flags
    <3> HIDE DEF stays
    <3> QED
      BY <1>3, <1>6, <1>7, <1>8
  <2> QED
    BY <2>1, <2>2, <1>6 DEF Switch, TypeOK, Bound
<1>9. CASE crashed' = TRUE /\ UNCHANGED <<curSampleNo, reading, ended>>
  BY <1>6, <1>9 DEF Switch, TypeOK
<1>10. CASE \E n \in 0 .. (IF isPaused THEN 0 ELSE Fast) :
              LET r == AfterReads(v, n, listed)
                  further == r < v + n
                  throws == further /\ r <= endSampleNo["video"] IN
                /\ curSampleNo' = [video |-> r, audio |-> a]
                /\ reading' = [video |-> ~throws, audio |-> stays]
                /\ ended' = [ended EXCEPT !["video"] = @ \/ (further /\ ~throws)]
                /\ crashed' = (throws /\ ~cached)
  <2>1. PICK n \in 0 .. (IF isPaused THEN 0 ELSE Fast) :
              LET r == AfterReads(v, n, listed)
                  further == r < v + n
                  throws == further /\ r <= endSampleNo["video"] IN
                /\ curSampleNo' = [video |-> r, audio |-> a]
                /\ reading' = [video |-> ~throws, audio |-> stays]
                /\ ended' = [ended EXCEPT !["video"] = @ \/ (further /\ ~throws)]
                /\ crashed' = (throws /\ ~cached)
    BY <1>10
  <2> DEFINE r == AfterReads(v, n, listed)
             further == r < v + n
             throws == further /\ r <= endSampleNo["video"]
  <2>2. n \in Nat
    BY <1>1
  <2>3. r \in Bound("video")
    BY <1>2, <2>2, AfterReadsBound
  <2>4. /\ curSampleNo' = [video |-> r, audio |-> a]
        /\ reading' = [video |-> ~throws, audio |-> stays]
        /\ ended' = [ended EXCEPT !["video"] = @ \/ (further /\ ~throws)]
        /\ crashed' = (throws /\ ~cached)
    BY <2>1
  <2>5. further \in BOOLEAN /\ throws \in BOOLEAN
    OBVIOUS
  <2> HIDE DEF r, v, a, stays, further, throws
  <2>6. Moved
    <3>1. [video |-> r, audio |-> a] \in [Streams -> Int]
      BY <1>1, <1>2, <1>4, <2>3
    <3> QED
      BY <1>1, <1>2, <2>3, <2>4, <3>1
  <2>7. Flags
    <3>1. reading' \in [Streams -> BOOLEAN]
      <4>1. (~throws) \in BOOLEAN
        BY <2>5
      <4> QED
        BY <1>3, <1>7, <2>4, <4>1
    <3>2. ended' \in [Streams -> BOOLEAN]
      BY <1>6, <2>4, Zenon
    <3>3. crashed' \in BOOLEAN
      BY <2>4, Zenon
    <3> QED
      BY <3>1, <3>2, <3>3
  <2> QED
    BY <2>6, <2>7, <1>6 DEF Switch, TypeOK, Bound
<1> QED
  BY <1>8, <1>9, <1>10 DEF Switch

\* The type invariant, with its bounds: of a content whose play time agrees with
\* its samples, a cursor is less than a group behind its list, or where a number
\* that the client named has put it (RtspHandler's PLAY and camera change,
\* StreamHandler and ReadInfo).
THEOREM CursorTyped ==
  ASSUME PlayTimeAgrees
  PROVE  Spec => []TypeOK
<1>1. Init => TypeOK
  <2>1. Unset \in Int /\ MaxStarts \in Nat /\ Unset <= Unset
        /\ \A s \in Streams : Unset < Samples[s] + Gop /\ Unset \in Unset .. Samples[s]
    BY CursorAssumption
  <2>2. Init => \A s \in Streams : \E n \in Indices \cup {Unset} : n <= curSampleNo[s]
    BY <2>1 DEF Init
  <2>3. Init => /\ curSampleNo \in [Streams -> Int] /\ endSampleNo \in [Streams -> Int]
                /\ \A s \in Streams : /\ curSampleNo[s] < Samples[s] + Gop
                                       /\ endSampleNo[s] \in Unset .. Samples[s]
    BY <2>1 DEF Init
  <2>4. Init => starting \in 0 .. MaxStarts
    BY <2>1 DEF Init
  <2>5. Init => /\ ended \in [Streams -> BOOLEAN] /\ reading \in [Streams -> BOOLEAN]
                /\ {isPaused, cached, camListed, crashed} \subseteq BOOLEAN
    BY DEF Init, None
  <2> QED
    BY <2>2, <2>3, <2>4, <2>5 DEF TypeOK
<1>2. TypeOK /\ [Next]_vars => TypeOK'
  <2> SUFFICES ASSUME TypeOK, [Next]_vars PROVE TypeOK'
    OBVIOUS
  <2>1. CASE UNCHANGED vars
    BY <2>1 DEF vars, cursorVars, TypeOK
  <2>2. CASE Pause
    <3>1. isPaused' \in BOOLEAN
      BY <2>2, Zenon DEF Pause
    <3> QED
      BY <2>2, <3>1 DEF Pause, cursorVars, TypeOK
  <2>3. CASE onPlayStart
    <3>1. starting' \in 0 .. MaxStarts /\ reading' \in [Streams -> BOOLEAN]
      BY <2>3, CursorAssumption DEF onPlayStart, Both, TypeOK
    <3> QED
      BY <2>3, <3>1 DEF onPlayStart, cursorVars, TypeOK
  <2> QED
    BY <2>1, <2>2, <2>3, PlayTyped, NextSampleTyped, ResumeTyped, SwitchTyped DEF Next, Request
<1> QED
  BY <1>1, <1>2, PTL DEF Spec
=============================================================================
