----------------------------- MODULE StreamCursor -----------------------------
(***************************************************************************)
(* Which sample is read next (service/StreamHandler.cpp, ReadInfo), from   *)
(* SETUP on.  A PLAY turns a time range into sample numbers of both streams, *)
(* a camera switch and a PLAY after PAUSE move them to what the client says, *)
(* the reading tasks count them up.  Nothing compares a number with the list *)
(* until at() does, which throws.  On the strand of a request Session        *)
(* catches that and the request is carried out as far as it came; in a        *)
(* reading task nothing catches it and the process ends.  All cameras of a    *)
(* content have lists of one length.  Times are whole microseconds.           *)
(***************************************************************************)
EXTENDS Integers

CONSTANTS
  Unit,      \* unitTimeUs, by stream
  Samples,   \* samples in the list, by stream
  PlayTime,  \* getPlayTimeUs, by stream
  Gop,       \* samples from one key frame to the next
  Fast,      \* FAST_TX_FACTOR_FOR_CAM_SWITCHING
  Times,     \* bound: start and end times that a client may ask for
  Indices,   \* bound: sample numbers that a client may name, any integers
  MaxStarts, \* bound: delayed onPlayStarts that wait at a time
  Unset      \* C::UNSET and C::INVALID

Streams == {"video", "audio"}

ASSUME CursorAssumption ==
  /\ Unit \in [Streams -> Nat \ {0}]
  /\ Samples \in [Streams -> Nat \ {0}]
  /\ PlayTime \in [Streams -> Nat]
  /\ Gop \in Nat \ {0}
  /\ Fast \in Nat
  /\ Times \subseteq Int
  /\ Indices \subseteq Int
  /\ MaxStarts \in Nat
  /\ Unset = -1

maxSampleNo(s) == Samples[s] - 1
List(s) == 0 .. maxSampleNo(s)
Other(s) == CHOOSE o \in Streams : o # s

-----------------------------------------------------------------------------
(* Times to sample numbers *)

\* std::round: to the nearest number, a half away from zero; times are not
\* negative here.
getSampleNumber(s, t) == (2 * t + Unit[s]) \div (2 * Unit[s])

Outside(s, t) == t < 0 \/ t >= PlayTime[s]

findSampleNumber(s, t) == IF Outside(s, t) THEN maxSampleNo(s) ELSE getSampleNumber(s, t)

\* Faulty variant: a whole group is added.
NextKeyTooFar(n) == IF n % Gop = 0 THEN n ELSE n + Gop

NextKey(n) == IF n % Gop = 0 THEN n ELSE n + Gop - (n % Gop)

\* Faulty variant: the number is rounded to the key frame before it.
findKeySampleNumberDown(s, t) ==
  IF Outside(s, t) THEN maxSampleNo(s) - (maxSampleNo(s) % Gop)
  ELSE IF t = 0 THEN 0
  ELSE IF s = "video" THEN getSampleNumber(s, t) - (getSampleNumber(s, t) % Gop)
  ELSE getSampleNumber(s, t)

findKeySampleNumber(s, t) ==
  IF Outside(s, t) THEN maxSampleNo(s) - (maxSampleNo(s) % Gop)
  ELSE IF t = 0 THEN 0
  ELSE IF s = "video" THEN NextKey(getSampleNumber(s, t))
  ELSE getSampleNumber(s, t)

isValidPlayTime(from, to) ==
  LET longest == IF PlayTime["video"] >= PlayTime["audio"]
                   THEN PlayTime["video"] ELSE PlayTime["audio"] IN
    from < longest /\ (to = Unset \/ to < longest)

-----------------------------------------------------------------------------
VARIABLES
  curSampleNo,
  endSampleNo,
  ended,       \* readingEndSampleStatusVec
  reading,     \* by stream: its reading task runs
  starting,    \* delayed onPlayStarts that wait
  isPaused,
  cached,      \* the initial PLAY has set the pointers to the lists
  camListed,   \* camId is that of a list, and not less than 0
  crashed      \* an exception left a reading task, or a null pointer was followed

cursorVars == <<curSampleNo, endSampleNo>>
vars == <<cursorVars, ended, reading, starting, isPaused, cached, camListed, crashed>>

None == [s \in Streams |-> FALSE]
Both == [s \in Streams |-> TRUE]

Init ==
  /\ curSampleNo = [s \in Streams |-> Unset]
  /\ endSampleNo = [s \in Streams |-> Unset]
  /\ ended = None /\ reading = None
  /\ starting = 0
  /\ isPaused = FALSE /\ cached = FALSE /\ camListed = TRUE
  /\ crashed = FALSE

-----------------------------------------------------------------------------
(* PLAY of a time range *)

\* initUserRequestingPlaytime positions the streams one after the other.
Positioned(S, from, to) ==
  /\ curSampleNo' = [s \in Streams |-> IF s \in S THEN findKeySampleNumber(s, from)
                                                  ELSE curSampleNo[s]]
  /\ endSampleNo' = [s \in Streams |-> IF s \in S THEN findSampleNumber(s, to)
                                                  ELSE endSampleNo[s]]

\* The first packet is looked up at the new position, of video by the camera's name.
Found(s, from, listed) ==
  findKeySampleNumber(s, from) \in List(s) /\ (s = "video" => listed)

\* Both streams are positioned, and onPlayStart will follow.
PlayBegins(from, to, listed) ==
  /\ \A s \in Streams : Found(s, from, listed)
  /\ Positioned(Streams, from, to)
  /\ starting' = starting + 1
  /\ UNCHANGED crashed

\* The position of a stream is not found after it was set.  A camera without a
\* name is read from before the table of names: what is there is no name, or
\* no string.
PlayThrows(from, to, listed) ==
  /\ \E s \in Streams :
       /\ ~Found(s, from, listed)
       /\ \/ Positioned({s}, from, to)
          \/ Found(Other(s), from, listed) /\ Positioned(Streams, from, to)
       /\ crashed' \in {FALSE, s = "video" /\ ~listed}
  /\ UNCHANGED starting

\* The initial PLAY (again, if the client likes) goes back to camera 0.
InitialPlay(from, to) ==
  /\ isValidPlayTime(from, to)
  /\ cached' = TRUE /\ camListed' = TRUE
  /\ \/ PlayBegins(from, to, TRUE) /\ isPaused' = FALSE
     \/ PlayThrows(from, to, TRUE) /\ UNCHANGED isPaused
  /\ UNCHANGED <<ended, reading>>

\* A seek ends a pause and stops both tasks before it looks at the time, which may
\* not be a number, or not be valid (that one is then the last request).
Seek(from, to) ==
  /\ isPaused' = FALSE /\ reading' = None
  /\ \/ isValidPlayTime(from, to) /\ PlayBegins(from, to, camListed)
     \/ isValidPlayTime(from, to) /\ PlayThrows(from, to, camListed)
     \/ UNCHANGED <<cursorVars, starting, crashed>>
  /\ UNCHANGED <<ended, cached, camListed>>

\* 100 or 500 ms later, on another thread, whatever the client asked for meanwhile.
onPlayStart ==
  /\ starting > 0
  /\ starting' = starting - 1
  /\ reading' = Both
  /\ UNCHANGED <<cursorVars, ended, isPaused, cached, camListed, crashed>>

-----------------------------------------------------------------------------
(* The reading tasks *)

\* Faulty variant: the end is met only when the cursor is just behind it.
isDoneExactly(s) == curSampleNo[s] = endSampleNo[s] + 1

isDone(s) == curSampleNo[s] > endSampleNo[s]

\* What a read finds at n: without a camera's list an empty sample, and before the
\* initial PLAY a null pointer for a list.
Readable(s, n, listed) == (s = "video" /\ ~listed) \/ (cached /\ n \in List(s))

\* Faulty variant: both streams set the flag of video.
NextSampleFlagsVideo(s) ==
  /\ reading[s] /\ ~isPaused
  /\ \/ /\ isDone(s)
        /\ ended' = [ended EXCEPT !["video"] = TRUE]
        /\ UNCHANGED <<curSampleNo, crashed>>
     \/ /\ ~isDone(s) /\ Readable(s, curSampleNo[s], camListed)
        /\ curSampleNo' = [curSampleNo EXCEPT ![s] = @ + 1]
        /\ UNCHANGED <<ended, crashed>>
     \/ /\ ~isDone(s) /\ ~Readable(s, curSampleNo[s], camListed)
        /\ crashed' = TRUE
        /\ UNCHANGED <<curSampleNo, ended>>
  /\ UNCHANGED <<endSampleNo, reading, starting, isPaused, cached, camListed>>

\* getNextVideoSample and getNextAudioSample in the reading tasks.
NextSample(s) ==
  /\ reading[s] /\ ~isPaused
  /\ \/ /\ isDone(s)
        /\ ended' = [ended EXCEPT ![s] = TRUE]
        /\ UNCHANGED <<curSampleNo, crashed>>
     \/ /\ ~isDone(s) /\ Readable(s, curSampleNo[s], camListed)
        /\ curSampleNo' = [curSampleNo EXCEPT ![s] = @ + 1]
        /\ UNCHANGED <<ended, crashed>>
     \/ /\ ~isDone(s) /\ ~Readable(s, curSampleNo[s], camListed)
        /\ crashed' = TRUE
        /\ UNCHANGED <<curSampleNo, ended>>
  /\ UNCHANGED <<endSampleNo, reading, starting, isPaused, cached, camListed>>

-----------------------------------------------------------------------------
(* PAUSE, PLAY after PAUSE, and camera switches *)

Pause ==
  /\ ~isPaused
  /\ isPaused' = TRUE
  /\ UNCHANGED <<cursorVars, ended, reading, starting, cached, camListed, crashed>>

\* PLAY after PAUSE: a stream goes on behind the sample that the client says it has
\* received, any number but -1, or where it was.
Resume ==
  /\ isPaused
  /\ isPaused' = FALSE
  /\ \E received \in [Streams -> {Unset} \cup Indices] :
       curSampleNo' = [s \in Streams |-> IF received[s] = Unset THEN curSampleNo[s]
                                         ELSE received[s] + 1]
  /\ UNCHANGED <<endSampleNo, ended, reading, starting, cached, camListed, crashed>>

\* findNextSampleForSwitching for the stream s: the cursor after it.
Switched(s, target) == IF target > maxSampleNo(s) THEN curSampleNo[s] ELSE target

\* Where video is after at most n reads from v on: they end at the end of the range
\* and where nothing is to be read.
AfterReads(v, n, listed) ==
  LET stop == IF listed /\ endSampleNo["video"] > maxSampleNo("video")
                THEN Samples["video"] ELSE endSampleNo["video"] + 1 IN
    IF v > endSampleNo["video"] \/ ~Readable("video", v, listed) THEN v
    ELSE IF v + n < stop THEN v + n ELSE stop

\* A camera switch stops the video task, and the audio task if an audio sample is
\* named; only video is started again, after up to Fast reads at once (n of them).
\* No number but a negative one of video is refused: its time stamp is looked for
\* when the cursor is moved, that throws, and video stays stopped.
Switch(listed, video, audio) ==
  /\ camListed' = listed
  /\ LET stays == audio = Unset /\ reading["audio"]
         v == Switched("video", video)
         a == IF audio = Unset THEN curSampleNo["audio"] ELSE Switched("audio", audio) IN
       \/ /\ video < 0
          /\ curSampleNo' = [curSampleNo EXCEPT !["video"] = video]
          /\ reading' = [video |-> FALSE, audio |-> stays]
          /\ UNCHANGED <<ended, crashed>>
       \/ /\ video \in List("video") /\ ~cached  \* no file is open: no packet to look at
          /\ crashed' = TRUE
          /\ UNCHANGED <<curSampleNo, reading, ended>>
       \/ /\ video >= 0 /\ (cached \/ video \notin List("video"))
          /\ \E n \in 0 .. (IF isPaused THEN 0 ELSE Fast) :
               LET r == AfterReads(v, n, listed)
                   further == r < v + n
                   throws == further /\ r <= endSampleNo["video"] IN
                 /\ curSampleNo' = [video |-> r, audio |-> a]
                 /\ reading' = [video |-> ~throws, audio |-> stays]
                 /\ ended' = [ended EXCEPT !["video"] = @ \/ (further /\ ~throws)]
                 /\ crashed' = (throws /\ ~cached)
  /\ UNCHANGED <<endSampleNo, starting, isPaused, cached>>

-----------------------------------------------------------------------------
Request ==
  \/ \E from, to \in Times :
       from \in Nat /\ starting < MaxStarts /\ (InitialPlay(from, to) \/ Seek(from, to))
  \/ Pause \/ Resume
  \/ \E listed \in BOOLEAN, video, audio \in {Unset} \cup Indices : Switch(listed, video, audio)

Next ==
  /\ ~crashed
  /\ \/ Request
     \/ onPlayStart
     \/ \E s \in Streams : NextSample(s)

Spec == Init /\ [][Next]_vars

\* The reading tasks run as long as they are started.
FairSpec == Spec /\ \A s \in Streams : WF_vars(~crashed /\ NextSample(s))

-----------------------------------------------------------------------------
(* Properties *)

\* Every variable has its type; a cursor is less than a group behind the list (or one
\* behind it), and not before all that the client named, or where its number put it.
TypeOK ==
  /\ curSampleNo \in [Streams -> Int]
  /\ endSampleNo \in [Streams -> Int]
  /\ \A s \in Streams :
       /\ \/ curSampleNo[s] \in Indices \/ curSampleNo[s] - 1 \in Indices
          \/ /\ curSampleNo[s] < Samples[s] + Gop \/ curSampleNo[s] = Samples[s] + 1
             /\ \E n \in Indices \cup {Unset} : n <= curSampleNo[s]
       /\ endSampleNo[s] \in Unset .. Samples[s]
  /\ ended \in [Streams -> BOOLEAN]
  /\ reading \in [Streams -> BOOLEAN]
  /\ starting \in 0 .. MaxStarts
  /\ {isPaused, cached, camListed, crashed} \subseteq BOOLEAN

\* A PLAY whose start is inside the play time positions video at the first key
\* frame that is not before the sample at that time (findKeySampleNumber).
StartsAtNextKey ==
  [][starting' = starting + 1 =>
       \A t \in Times \cap (1 .. PlayTime["video"] - 1) :
         InitialPlay(t, Unset) \/ Seek(t, Unset) =>
         LET n == curSampleNo'["video"]
             m == findSampleNumber("video", t) IN
           n % Gop = 0 /\ n >= m /\ \A k \in m .. n - 1 : k % Gop # 0]_vars

\* Behind the initial PLAY and with a camera that the content has, the process ends
\* only when a reading task runs off its list, and it can only do so when the end
\* that a PLAY asked for was rounded up past the list, or when its cursor is
\* negative: no PLAY has positioned the stream, or the client has named the number.
RunsOffOnlyPastEnd ==
  crashed /\ cached /\ camListed =>
    \E s \in Streams :
      reading[s] /\ (endSampleNo[s] > maxSampleNo(s) \/ curSampleNo[s] < 0)

\* Once the client asks for nothing more, a stream that is read and not paused
\* comes to its end and is noticed to have ended, whatever moved its cursor.
EndIsNoticed ==
  \A s \in Streams :
    <>[][\E o \in Streams : NextSample(o)]_vars /\ <>[](reading[s] /\ ~isPaused /\ ~crashed)
      => <>(ended[s] /\ isDone(s))
=============================================================================
