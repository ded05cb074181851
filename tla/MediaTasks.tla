------------------------------ MODULE MediaTasks ------------------------------
(***************************************************************************)
(* The reading tasks of one session and what starts, stops and repositions *)
(* them: Session::onPlayStart, onCameraChange, stopCurrentMediaReading-    *)
(* Tasks and stopAllPeriodicTasks, with the PLAY, PAUSE and SET_PARAMETER  *)
(* branches of RtspHandler.  Requests and timer handlers share the         *)
(* session's strand; onPlayStart runs later, on the main io_context, and   *)
(* onTeardown on a thread of its own.  The dialogue is past SETUP, and no  *)
(* request looks at what came before it: PAUSE, a seek and a camera switch *)
(* may precede the initial PLAY.  Of the requests, those that fail before  *)
(* they touch the tasks or isPaused are left out.                          *)
(***************************************************************************)
EXTENDS Naturals, FiniteSets

CONSTANTS
  MaxPlays,     \* bound: PLAY requests that start reading (initial and seek)
  MaxSwitches,  \* bound: camera switches
  FastReads,    \* C::FAST_TX_FACTOR_FOR_CAM_SWITCHING
  Nobody,       \* holder of a free strand
  Request,      \* holder of the strand while a request is handled
  NoStep

ASSUME MediaAssumption ==
  /\ MaxPlays \in Nat \ {0}
  /\ MaxSwitches \in Nat
  /\ FastReads \in Nat

Plays == 1 .. MaxPlays

\* videoReadingTaskVec holds the tasks of plays and those of camera switches.
AudioTasks == {"audio"} \X Plays
VideoTasks == ({"video"} \X Plays) \cup ({"cam"} \X (1 .. MaxSwitches))
Tasks == VideoTasks \cup AudioTasks

\* Who holds the strand, and at which step, can be told apart.
ASSUME HolderAssumption ==
  /\ Nobody \notin Tasks /\ Request \notin Tasks /\ Request # Nobody
  /\ NoStep \notin {"body", "read", "check", "rearm", "stopAudio", "reposition", "fast", "fastRead"}

VARIABLES
  running, wait, onStrand, step,  \* see PeriodicTask
  playPc,      \* by play: "unused", "delayed" (until its timer runs out),
               \* "videoTimer", "audioFlag", "audioTimer" (what onPlayStart
               \* does next) or "done"
  switches,    \* camera switches so far
  request,     \* the request on the strand: "none", "seek", "switch" or "switchBoth"
  fastLeft,    \* iterations left of the loop of startPlayForCamSwitching
  isPaused,
  isToreDown,
  tdPc,        \* onTeardown: "none", "flagged", "videoStopped", "stopped", "closed"
  late,        \* history: by task, firings after it was stopped, counted to 2
  lateReads,   \* history: calls of getNext*Sample after isToreDown was set
  overlapped   \* history: the initial PLAY was repeated or came behind a switch,
               \* or tasks were stopped while a play had yet to start

INSTANCE PeriodicTask

taskVars == <<running, wait, onStrand, step>>
clientVars == <<switches, request, fastLeft, isPaused>>
tdVars == <<isToreDown, tdPc>>
vars == <<taskVars, playPc, clientVars, lateReads, tdVars, late, overlapped>>

Init ==
  /\ TaskInit
  /\ playPc = [p \in Plays |-> "unused"]
  /\ switches = 0
  /\ request = "none"
  /\ fastLeft = 0
  /\ isPaused = FALSE
  /\ isToreDown = FALSE
  /\ tdPc = "none"
  /\ late = [t \in Tasks |-> 0]
  /\ lateReads = 0
  /\ overlapped = FALSE

Used == {p \in Plays : playPc[p] # "unused"}
Starting == {p \in Used : playPc[p] # "done"}
NextPlay == Cardinality(Used) + 1

-----------------------------------------------------------------------------
(* The reading tasks *)

\* Faulty variant: isToreDown is not looked at.
MayReadIfTornDown == ~isPaused

MayRead == ~isPaused /\ ~isToreDown

\* The guard of the task's lambda, evaluated.  Whether the client's buffer
\* leaves room for another sample (isNewSampleAllocatable) is open here.
TaskPasses(t) ==
  /\ onStrand = t /\ step = "body"
  /\ MayRead
  /\ step' = "read"
  /\ UNCHANGED <<running, wait, onStrand, playPc, clientVars, lateReads, tdVars, late,
                 overlapped>>

TaskSkips(t) ==
  /\ onStrand = t /\ step = "body"
  /\ step' = "check"
  /\ UNCHANGED <<running, wait, onStrand, playPc, clientVars, lateReads, tdVars, late,
                 overlapped>>

\* getNextVideoSample or getNextAudioSample; which sample it is is left out.
NextSample == lateReads' = lateReads + (IF isToreDown THEN 1 ELSE 0)

TaskReads(t) ==
  /\ onStrand = t /\ step = "read"
  /\ NextSample
  /\ step' = "check"
  /\ UNCHANGED <<running, wait, onStrand, playPc, clientVars, tdVars, late, overlapped>>

Elsewhere == UNCHANGED <<playPc, clientVars, lateReads, tdVars, overlapped>>

TimerFires(t) == TimerExpires(t) /\ Elsewhere /\ UNCHANGED late

HandlerRuns(t) ==
  /\ HandlerBegins(t)
  /\ late' = [late EXCEPT ![t] = IF running[t] \/ @ = 2 THEN @ ELSE @ + 1]
  /\ Elsewhere

HandlerEnds(t) ==
  /\ HandlerChecks(t) \/ HandlerRearms(t)
  /\ Elsewhere
  /\ UNCHANGED late

HandlerIsAborted(t) == HandlerAborted(t) /\ Elsewhere /\ UNCHANGED late

-----------------------------------------------------------------------------
(* Requests, on the strand.  The socket is read until it is closed. *)

RequestArrives == StrandFree /\ tdPc # "closed"

\* A PLAY that is neither a seek nor ends a pause: reading begins 500 ms later.
\* A session that reads already, be it for a play or a switch, is not told
\* apart: its tasks go on.
InitialPlay ==
  /\ RequestArrives
  /\ NextPlay \in Plays
  /\ playPc' = [playPc EXCEPT ![NextPlay] = "delayed"]
  /\ isPaused' = FALSE
  /\ overlapped' = (overlapped \/ Used # {} \/ switches > 0)
  /\ UNCHANGED <<taskVars, switches, request, fastLeft, lateReads, tdVars, late>>

StopVideo ==
  /\ StopTasks(VideoTasks)
  /\ onStrand' = Request
  /\ overlapped' = (overlapped \/ Starting # {})

\* PLAY for a seek: the video tasks are stopped, the audio tasks next.
SeekBegins ==
  /\ RequestArrives
  /\ NextPlay \in Plays
  /\ isPaused' = FALSE
  /\ StopVideo
  /\ step' = "stopAudio"
  /\ request' = "seek"
  /\ UNCHANGED <<playPc, switches, fastLeft, lateReads, tdVars, late>>

\* SET_PARAMETER for another camera; a switch that names an audio sample
\* (taIdx) stops the audio too.
SwitchBegins ==
  /\ RequestArrives
  /\ switches < MaxSwitches
  /\ switches' = switches + 1
  /\ StopVideo
  /\ \/ step' = "stopAudio" /\ request' = "switchBoth"
     \/ step' = "reposition" /\ request' = "switch"
  /\ UNCHANGED <<playPc, fastLeft, isPaused, lateReads, tdVars, late>>

\* Faulty variant: the audio tasks are left running.
StopAudioNot ==
  /\ onStrand = Request /\ step = "stopAudio"
  /\ StopTasks({})
  /\ step' = "reposition"
  /\ UNCHANGED <<onStrand, playPc, clientVars, lateReads, tdVars, late, overlapped>>

StopAudio ==
  /\ onStrand = Request /\ step = "stopAudio"
  /\ StopTasks(AudioTasks)
  /\ step' = "reposition"
  /\ UNCHANGED <<onStrand, playPc, clientVars, lateReads, tdVars, late, overlapped>>

\* A play time that is not valid is answered with an error, or ends the request
\* with an exception, when the tasks are stopped already; otherwise reading
\* begins again 100 ms later.
SeekEnds ==
  /\ onStrand = Request /\ step = "reposition" /\ request = "seek"
  /\ \/ playPc' = [playPc EXCEPT ![NextPlay] = "delayed"]
     \/ UNCHANGED playPc
  /\ request' = "none"
  /\ FreeStrand
  /\ UNCHANGED <<running, wait, switches, fastLeft, isPaused, lateReads, tdVars,
                 late, overlapped>>

\* findNextSampleForSwitching moves the read position (left out).
SwitchRepositions ==
  /\ onStrand = Request /\ step = "reposition" /\ request # "seek"
  /\ step' = "fast"
  /\ fastLeft' = FastReads
  /\ UNCHANGED <<running, wait, onStrand, playPc, switches, request, isPaused,
                 lateReads, tdVars, late, overlapped>>

\* Faulty variant: one iteration too many.
FastGuardOneMore ==
  /\ onStrand = Request /\ step = "fast"
  /\ fastLeft' = fastLeft - 1
  /\ \/ MayRead /\ step' = "fastRead"
     \/ step' = "fast"
  /\ UNCHANGED <<running, wait, onStrand, playPc, switches, request, isPaused, lateReads,
                 tdVars, late, overlapped>>

\* startPlayForCamSwitching: FastReads samples are read at once, each under
\* the guard of the reading tasks.
FastGuard ==
  /\ onStrand = Request /\ step = "fast" /\ fastLeft > 0
  /\ fastLeft' = fastLeft - 1
  /\ \/ MayRead /\ step' = "fastRead"
     \/ step' = "fast"
  /\ UNCHANGED <<running, wait, onStrand, playPc, switches, request, isPaused, lateReads,
                 tdVars, late, overlapped>>

FastRead ==
  /\ onStrand = Request /\ step = "fastRead"
  /\ NextSample
  /\ step' = "fast"
  /\ UNCHANGED <<running, wait, onStrand, playPc, clientVars, tdVars, late, overlapped>>

\* at() of a sample that is not in the list throws, in findNextSampleForSwitching
\* or in a fast read: handleRtspRequest catches it, with the tasks stopped
\* already, and no task takes their place.
SwitchThrows ==
  /\ onStrand = Request /\ request # "seek"
  /\ \/ step = "reposition" /\ UNCHANGED lateReads
     \/ step = "fastRead" /\ NextSample
  /\ request' = "none"
  /\ FreeStrand
  /\ UNCHANGED <<running, wait, playPc, switches, fastLeft, isPaused, tdVars, late, overlapped>>

\* Only a video task is started: its flag is set and its timer armed.
SwitchEnds ==
  /\ onStrand = Request /\ step = "fast" /\ fastLeft = 0
  /\ LET t == <<"cam", switches>> IN
       /\ running' = [running EXCEPT ![t] = TRUE]
       /\ wait' = [wait EXCEPT ![t] = "armed"]
  /\ request' = "none"
  /\ FreeStrand
  /\ UNCHANGED <<playPc, switches, fastLeft, isPaused, lateReads, tdVars, late, overlapped>>

Pause ==
  /\ RequestArrives
  /\ ~isPaused
  /\ isPaused' = TRUE
  /\ UNCHANGED <<taskVars, playPc, switches, request, fastLeft, lateReads, tdVars, late,
                 overlapped>>

\* PLAY after PAUSE.
Resume ==
  /\ RequestArrives
  /\ isPaused
  /\ isPaused' = FALSE
  /\ UNCHANGED <<taskVars, playPc, switches, request, fastLeft, lateReads, tdVars,
                 late, overlapped>>

Requests ==
  \/ InitialPlay
  \/ SeekBegins \/ SwitchBegins \/ StopAudio
  \/ SeekEnds \/ SwitchRepositions \/ FastGuard \/ FastRead \/ SwitchThrows \/ SwitchEnds
  \/ Pause \/ Resume

-----------------------------------------------------------------------------
(* onPlayStart on the main io_context, onTeardown on a detached thread *)

PlayStep(p, from, to) ==
  /\ playPc[p] = from
  /\ playPc' = [playPc EXCEPT ![p] = to]
  /\ UNCHANGED <<clientVars, lateReads, tdVars, late, overlapped>>

\* Each start() sets the flag and then arms the timer; stop() may come in between.
onPlayStart(p) ==
  \/ PlayStep(p, "delayed", "videoTimer") /\ SetRunning(<<"video", p>>)
  \/ PlayStep(p, "videoTimer", "audioFlag") /\ ArmTimer(<<"video", p>>)
  \/ PlayStep(p, "audioFlag", "audioTimer") /\ SetRunning(<<"audio", p>>)
  \/ PlayStep(p, "audioTimer", "done") /\ ArmTimer(<<"audio", p>>)

TdFlag ==
  /\ tdPc = "none"
  /\ tdPc' = "flagged"
  /\ isToreDown' = TRUE
  /\ UNCHANGED <<taskVars, playPc, clientVars, lateReads, late, overlapped>>

stopAllPeriodicTasks ==
  /\ \/ tdPc = "flagged" /\ tdPc' = "videoStopped" /\ StopTasks(VideoTasks)
     \/ tdPc = "videoStopped" /\ tdPc' = "stopped" /\ StopTasks(AudioTasks)
  /\ UNCHANGED <<onStrand, step, playPc, clientVars, lateReads, isToreDown, late, overlapped>>

closeSocket ==
  /\ tdPc = "stopped"
  /\ tdPc' = "closed"
  /\ UNCHANGED <<taskVars, playPc, clientVars, lateReads, isToreDown, late, overlapped>>

-----------------------------------------------------------------------------
Next ==
  \/ \E t \in Tasks : \/ TimerFires(t) \/ HandlerRuns(t) \/ HandlerEnds(t) \/ HandlerIsAborted(t)
                      \/ TaskPasses(t) \/ TaskSkips(t) \/ TaskReads(t)
  \/ Requests
  \/ \E p \in Plays : onPlayStart(p)
  \/ TdFlag
  \/ stopAllPeriodicTasks
  \/ closeSocket

\* Executors run what they hold: timers expire, what has the strand goes on, and
\* a queued handler gets the strand in its turn (the strand is first in, first
\* out).  Nothing makes a client send requests.
HandlerTurn(t) == HandlerRuns(t) \/ HandlerIsAborted(t)

StrandGoesOn ==
  \/ \E t \in Tasks : TaskPasses(t) \/ TaskSkips(t) \/ TaskReads(t) \/ HandlerEnds(t)
  \/ StopAudio \/ SeekEnds
  \/ SwitchRepositions \/ FastGuard \/ FastRead \/ SwitchThrows \/ SwitchEnds

Fairness ==
  /\ \A t \in Tasks : WF_vars(TimerFires(t)) /\ SF_vars(HandlerTurn(t))
  /\ WF_vars(StrandGoesOn)
  /\ \A p \in Plays : WF_vars(onPlayStart(p))
  /\ WF_vars(stopAllPeriodicTasks \/ closeSocket)

Spec == Init /\ [][Next]_vars

FairSpec == Spec /\ Fairness

-----------------------------------------------------------------------------
(* Properties *)

\* Every variable has its type.
TypeOK ==
  /\ TaskTypeOK({Request}, {"read", "stopAudio", "reposition", "fast", "fastRead"})
  /\ playPc \in [Plays -> {"unused", "delayed", "videoTimer", "audioFlag", "audioTimer", "done"}]
  /\ switches \in 0 .. MaxSwitches
  /\ request \in {"none", "seek", "switch", "switchBoth"}
  /\ fastLeft \in 0 .. FastReads
  /\ isPaused \in BOOLEAN
  /\ isToreDown \in BOOLEAN
  /\ tdPc \in {"none", "flagged", "videoStopped", "stopped", "closed"}
  /\ late \in [Tasks -> 0 .. 2]
  /\ lateReads \in Nat
  /\ overlapped \in BOOLEAN

\* start() has set the flag and has yet to arm the timer.
Arming(t) ==
  \E p \in Plays : \/ t = <<"video", p>> /\ playPc[p] = "videoTimer"
                   \/ t = <<"audio", p>> /\ playPc[p] = "audioTimer"

\* A running task never falls asleep (PeriodicTask::scheduleTask): whatever
\* races with its handler, its timer is armed or its handler is queued or runs.
RunningIsScheduled ==
  \A t \in Tasks : running[t] => wait[t] \in {"armed", "due"} \/ onStrand = t \/ Arming(t)

\* A stopped task fires at most once more, although PeriodicTask::stop does not
\* wait for the strand: the handler that stop() misses sees the cleared flag.
LateAtMostOnce == \A t \in Tasks : late[t] <= 1

\* At most one sample is read after onTeardown has set isToreDown: the one
\* whose reader had evaluated its guard (the strand allows one such reader).
LateReadAtMostOne == lateReads <= 1

Running(S) == {t \in S : running[t]}

\* As long as the initial PLAY is not repeated, does not come behind a camera
\* switch, and no request stops the tasks while a delayed onPlayStart is pending,
\* a session never has two video tasks or two audio tasks: seeks and camera
\* switches replace the readers and do not add to them.
SoleReaders ==
  ~overlapped => Cardinality(Running(VideoTasks)) <= 1 /\ Cardinality(Running(AudioTasks)) <= 1

\* A task that PeriodicTask::stop has stopped comes to rest, for good: its
\* timer is not armed and its handler is neither queued nor running.
StoppedTasksRest ==
  \A t \in Tasks : (~running[t] /\ ~Arming(t)) ~> (Quiet(t) \/ running[t] \/ Arming(t))
=============================================================================
