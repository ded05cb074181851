----------------------------- MODULE RtspDialogue -----------------------------
(***************************************************************************)
(* The RTSP requests of one session and what each needs of the requests    *)
(* before it (RtspHandler::handleRtspRequest, with the parts of Session    *)
(* and StreamHandler that it prepares or uses).  Requests are handled one  *)
(* at a time on the session's strand.  An exception inside a request is     *)
(* caught by Session::handleRtspRequest: the buffer, which still holds the *)
(* request or the answer already written, is sent, and the dialogue goes   *)
(* on.  The session id is not modelled: inSession is set behind a return   *)
(* (line 328) and so the check for the id never runs.                       *)
(***************************************************************************)
EXTENDS Integers

CONSTANTS
  MaxCSeq,    \* bound: requests accepted in one behaviour
  OneSample   \* the content has a single video or audio sample

ASSUME DialogueAssumption == MaxCSeq \in Nat /\ OneSample \in BOOLEAN

VARIABLES
  cSeq,        \* of the latest accepted request
  receiving,   \* the receive loop goes on
  answer,      \* to the latest request: "none", "ok", "error", "teardown" or
               \* "echo" (the request itself)
  streams,     \* sInfo and rtpInfo of the stream handler describe a content
  urls,        \* rtpInfo.urls names it
  title,       \* contentTitle of the session names it
  files,       \* the streams of its files are open
  cached,      \* the cached lists of samples point to its meta data
  isPaused,
  plays,       \* delayed onPlayStart
  reading,     \* reading tasks run
  inCamSwitching,
  camTimers,   \* delayed updateIsInCamSwitching(false)
  crashed,     \* a null or dangling element was used
  \* history
  outOfOrder,  \* a request came before the one that prepares it
  described,   \* DESCRIBE was answered, ...
  setUp,       \* and then SETUP
  relisted,    \* OPTIONS was answered between these two
  thrown       \* a camera switch ended with an exception

dialogueVars == <<cSeq, receiving, answer>>
contentVars == <<streams, urls, title, described, setUp, relisted>>
preparedVars == <<files, cached>>
playVars == <<isPaused, plays, reading>>
switchVars == <<inCamSwitching, camTimers, thrown>>
faultVars == <<crashed, outOfOrder>>
vars == <<dialogueVars, contentVars, preparedVars, playVars, switchVars, faultVars>>

Init ==
  /\ cSeq = -1 /\ receiving = TRUE /\ answer = "none"
  /\ streams = FALSE /\ urls = FALSE /\ title = FALSE
  /\ files = FALSE /\ cached = FALSE
  /\ isPaused = FALSE /\ plays = 0 /\ reading = FALSE
  /\ inCamSwitching = FALSE /\ camTimers = 0
  /\ crashed = FALSE /\ outOfOrder = FALSE
  /\ described = FALSE /\ setUp = FALSE /\ relisted = FALSE /\ thrown = FALSE

-----------------------------------------------------------------------------
(* Requests and answers *)

\* Faulty variant: the receive loop goes on after any answer.
AnswerGoesOn(a) == answer' = a /\ receiving' = TRUE

\* An answer with Error: or Teardown: is the last one.
Answer(a) ==
  /\ answer' = a
  /\ receiving' = (a \in {"ok", "echo"})

\* A request with the method of the action and the next CSeq.
Accept ==
  /\ receiving /\ ~crashed
  /\ cSeq < MaxCSeq
  /\ cSeq' = cSeq + 1

\* The use of a vector or list that is not there ends the process.
Crash == crashed' = TRUE /\ UNCHANGED <<receiving, answer>>

NoCrash == UNCHANGED crashed

\* A request that is used before what prepares it.
Needs(prepared) == outOfOrder' = (outOfOrder \/ ~prepared)

InOrder == UNCHANGED outOfOrder

\* An unknown method, no CSeq or one that is not the next: an error.  A CSeq
\* that is not a number throws.
Refuse ==
  /\ receiving /\ ~crashed
  /\ Answer("error") \/ Answer("echo")
  /\ UNCHANGED <<cSeq, contentVars, preparedVars, playVars, switchVars, faultVars>>

\* OPTIONS lists the content anew, and with it forgets the urls.  It throws for
\* an unknown content or unreadable MonitoringInfo; a content without video or
\* audio meta data is an error.
Options ==
  /\ Accept
  /\ \/ Answer("ok")
        /\ streams' = TRUE
        /\ urls' = FALSE
        /\ relisted' = (relisted \/ (described /\ ~setUp))
        /\ UNCHANGED <<title, described, setUp>>
     \/ Answer("echo") /\ UNCHANGED contentVars
     \/ Answer("error") /\ UNCHANGED contentVars
  /\ UNCHANGED <<preparedVars, playVars, switchVars, faultVars>>

\* Faulty variant: the urls are not noted.
DescribeForgets ==
  /\ Accept
  /\ IF streams
       THEN Answer("ok") /\ described' = TRUE
       ELSE Answer("echo") /\ UNCHANGED described
  /\ UNCHANGED <<streams, urls, title, setUp, relisted, preparedVars, playVars, switchVars,
                 faultVars>>

\* DESCRIBE notes the urls of the content; without one getCid throws.
Describe ==
  /\ Accept
  /\ IF streams
       THEN Answer("ok") /\ urls' = TRUE /\ described' = TRUE
       ELSE Answer("echo") /\ UNCHANGED <<urls, described>>
  /\ UNCHANGED <<streams, title, setUp, relisted, preparedVars, playVars, switchVars, faultVars>>

\* SETUP of a track: the first one that finds urls gives the session its title.
\* The SSRCs are those of the content.
SetupTrack ==
  /\ Accept
  /\ title' = (title \/ urls)
  /\ Needs(streams)
  /\ IF streams
       THEN Answer("ok") /\ NoCrash /\ setUp' = (setUp \/ described)
       ELSE Crash /\ UNCHANGED setUp
  /\ UNCHANGED <<streams, urls, described, relisted, preparedVars, playVars, switchVars>>

\* SETUP of the hybrid mode: a list of samples that the client has (left out).
SetupHybrid ==
  /\ Accept
  /\ Needs(streams)
  /\ IF streams
       THEN NoCrash /\ (Answer("ok") \/ Answer("echo"))
       ELSE Crash
  /\ UNCHANGED <<contentVars, preparedVars, playVars, switchVars>>

\* Requests that are refused for what they lack: SETUP without transport and
\* mode, an initial PLAY without npt, SET_PARAMETER without a known header.
Incomplete ==
  /\ Accept
  /\ Answer("error")
  /\ UNCHANGED <<contentVars, preparedVars, playVars, switchVars, faultVars>>

-----------------------------------------------------------------------------
(* PLAY, PAUSE, TEARDOWN *)

\* respondPlay may answer with an error; reading is started all the same.
StartsLater ==
  /\ Answer(IF OneSample THEN "error" ELSE "ok")
  /\ plays' = plays + 1

\* A PLAY that is not carried out: the range is not valid, or it is not a number
\* or the key sample of its start is not in the list (which throws).
StartsNot ==
  /\ Answer("error") \/ Answer("echo")
  /\ UNCHANGED plays

\* Faulty variant: that the files or the meta data are not there is only logged.
OpenContentIgnoresFailure ==
  /\ files' = title /\ cached' = title
  /\ StartsLater
  /\ isPaused' = FALSE

\* Files and meta data are found by the title of the session; a file may not
\* open.  Once both are there the range is looked up.
OpenContent ==
  \/ /\ Answer("error")
     /\ UNCHANGED <<files, cached, plays, isPaused>>
  \/ /\ title
     /\ files' = TRUE /\ cached' = TRUE
     /\ \/ StartsLater /\ isPaused' = FALSE
        \/ Answer("echo") /\ UNCHANGED <<plays, isPaused>>

\* PLAY without PlayInfo or SeekInfo: tasks that run already are not stopped.
InitialPlay ==
  /\ Accept
  /\ Needs(streams)
  /\ IF ~streams THEN Crash /\ UNCHANGED <<files, cached, plays, isPaused>>
     ELSE /\ NoCrash
          /\ \/ OpenContent
             \/ StartsNot /\ UNCHANGED <<files, cached, isPaused>>
  /\ UNCHANGED <<contentVars, reading, switchVars>>

\* Faulty variant: no return after the error for a range that is not valid.
SeekGoesOn ==
  /\ Accept
  /\ isPaused' = FALSE
  /\ reading' = FALSE
  /\ Needs(cached)
  /\ IF ~streams THEN Crash /\ UNCHANGED plays
     ELSE /\ NoCrash
          /\ \/ title /\ StartsLater
             \/ Answer("error") /\ plays' = plays + 1
  /\ UNCHANGED <<contentVars, preparedVars, switchVars>>

\* PLAY with SeekInfo: pause and tasks end first.  Without a title the lookup
\* of the first sample throws; without files it is skipped.
Seek ==
  /\ Accept
  /\ isPaused' = FALSE
  /\ reading' = FALSE
  /\ Needs(cached)
  /\ IF ~streams THEN Crash /\ UNCHANGED plays
     ELSE /\ NoCrash
          /\ \/ title /\ StartsLater
             \/ StartsNot
  /\ UNCHANGED <<contentVars, preparedVars, switchVars>>

\* PLAY with PlayInfo: the cursors (left out) are set if the session is paused,
\* and an index that is not a number throws before the pause ends.
Resume ==
  /\ Accept
  /\ \/ Answer("ok") /\ isPaused' = FALSE
     \/ isPaused /\ Answer("echo") /\ UNCHANGED isPaused
  /\ UNCHANGED <<contentVars, preparedVars, plays, reading, switchVars, faultVars>>

Pause ==
  /\ Accept
  /\ Answer("ok")
  /\ isPaused' = TRUE
  /\ UNCHANGED <<contentVars, preparedVars, plays, reading, switchVars, faultVars>>

Teardown ==
  /\ Accept
  /\ Answer("teardown")
  /\ UNCHANGED <<contentVars, preparedVars, playVars, switchVars, faultVars>>

-----------------------------------------------------------------------------
(* SET_PARAMETER *)

\* Faulty variant: the flag stays set when the camera is refused.
CameraRefusedKeepsFlag ==
  /\ streams
  /\ Answer("error")
  /\ inCamSwitching' = TRUE
  /\ NoCrash
  /\ UNCHANGED <<camTimers, thrown, reading>>

CameraRefused ==
  /\ streams
  /\ Answer("error")
  /\ inCamSwitching' = FALSE
  /\ NoCrash
  /\ UNCHANGED <<camTimers, thrown, reading>>

\* onCameraChange stops video, looks up the sample where it goes on and reads
\* some samples at once.  The lookup throws without a title or for a sample not
\* in the list, when the answer is written already, and leaves the flag set; the
\* lookup needs the files and the reading the lists, unless the sample is behind
\* the list and the stream paused or at its end.
CameraChanged ==
  /\ inCamSwitching' = TRUE
  /\ \/ /\ ~streams
        /\ Answer("echo") /\ NoCrash
        /\ thrown' = TRUE
        /\ UNCHANGED <<reading, camTimers>>
     \/ /\ streams
        /\ Answer("ok") /\ NoCrash
        /\ thrown' = TRUE
        /\ reading' = FALSE
        /\ UNCHANGED camTimers
     \/ /\ streams
        /\ Answer("ok") /\ NoCrash
        /\ reading' = TRUE
        /\ camTimers' = camTimers + 1
        /\ UNCHANGED thrown
     \/ /\ streams
        /\ ~(cached /\ files)
        /\ Crash
        /\ UNCHANGED <<reading, camTimers, thrown>>

SetCamera ==
  /\ Accept
  /\ Needs(cached)
  /\ CameraChanged \/ CameraRefused
  /\ UNCHANGED <<contentVars, preparedVars, isPaused, plays>>

\* A value of the header that is not a number throws; the control of P frames
\* (left out) is answered.
SetParameter ==
  /\ Accept
  /\ Answer("ok") \/ Answer("echo")
  /\ UNCHANGED <<contentVars, preparedVars, playVars, switchVars, faultVars>>

-----------------------------------------------------------------------------
(* What requests start: delayed executions and reading *)

onPlayStart ==
  /\ ~crashed
  /\ plays > 0
  /\ plays' = plays - 1
  /\ reading' = TRUE
  /\ UNCHANGED <<dialogueVars, contentVars, preparedVars, isPaused, switchVars, faultVars>>

updateIsInCamSwitching ==
  /\ ~crashed
  /\ camTimers > 0
  /\ camTimers' = camTimers - 1
  /\ inCamSwitching' = FALSE
  /\ UNCHANGED <<dialogueVars, contentVars, preparedVars, playVars, thrown, faultVars>>

\* A reading task uses the cached list.
ReadUncached ==
  /\ ~crashed
  /\ reading /\ ~isPaused
  /\ ~cached
  /\ crashed' = TRUE
  /\ UNCHANGED <<dialogueVars, contentVars, preparedVars, playVars, switchVars, outOfOrder>>

Next ==
  \/ Refuse \/ Incomplete
  \/ Options \/ Describe \/ SetupTrack \/ SetupHybrid
  \/ InitialPlay \/ Seek \/ Resume \/ Pause \/ Teardown
  \/ SetCamera \/ SetParameter
  \/ onPlayStart \/ updateIsInCamSwitching \/ ReadUncached

Spec == Init /\ [][Next]_vars

-----------------------------------------------------------------------------
(* Properties *)

\* Every variable has its type, and the dialogue goes on exactly until an answer
\* says Error: or Teardown:.
TypeOK ==
  /\ cSeq \in -1 .. MaxCSeq
  /\ answer \in {"none", "ok", "error", "teardown", "echo"}
  /\ plays \in 0 .. MaxCSeq + 1
  /\ camTimers \in 0 .. MaxCSeq + 1
  /\ receiving \in BOOLEAN /\ streams \in BOOLEAN /\ urls \in BOOLEAN
  /\ title \in BOOLEAN /\ files \in BOOLEAN /\ cached \in BOOLEAN
  /\ isPaused \in BOOLEAN /\ reading \in BOOLEAN /\ inCamSwitching \in BOOLEAN
  /\ crashed \in BOOLEAN /\ outOfOrder \in BOOLEAN /\ described \in BOOLEAN
  /\ setUp \in BOOLEAN /\ relisted \in BOOLEAN /\ thrown \in BOOLEAN
  /\ receiving <=> answer \notin {"error", "teardown"}

\* Reading is only ever started on files and meta data that are there, and the
\* process does not die of a request, unless the client leaves out a step:
\* SETUP, PLAY before OPTIONS, or a seek or camera switch before its first PLAY
\* has opened the content.  No other sequence of requests, refused and failing
\* ones included, leads there.
PreparedInOrder ==
  ~outOfOrder => /\ ~crashed
                 /\ plays > 0 \/ reading => title /\ files /\ cached

\* A content that was described and then set up has its title in the session,
\* which PLAY finds its files by, unless an OPTIONS came between the two and
\* took the urls with it (StreamHandler::setRtpInfo).
SetUpNamesContent == setUp /\ ~relisted => title

\* While the session counts as switching cameras, a delayed execution is under
\* way that ends this, unless a switch was cut short by an exception.
SwitchingEnds == inCamSwitching /\ ~crashed => camTimers > 0 \/ thrown

\* The dialogue implements the stages of RtspStages: requests bring a content to
\* the session in a fixed order, of which an OPTIONS takes back at most the urls;
\* and the request that ends the dialogue starts no reading, except where
\* respondPlay finds fault with a content of a single sample.
Stage ==
  CASE cached -> "open"
    [] title /\ ~cached -> "named"
    [] urls /\ ~title /\ ~cached -> "described"
    [] streams /\ ~urls /\ ~title /\ ~cached -> "listed"
    [] OTHER -> "unknown"

Stages == INSTANCE RtspStages WITH
  SingleSample <- OneSample, stage <- Stage, talking <- receiving, due <- plays,
  skipped <- outOfOrder, dead <- crashed

ImplementsStages == Stages!StageSpec
=============================================================================
