------------------------- MODULE RtspDialogue_proofs -------------------------
(***************************************************************************)
(* Proofs about RtspDialogue, for any number of requests and contents with *)
(* one or with several samples.                                            *)
(***************************************************************************)
EXTENDS RtspDialogue, TLAPS

\* One delayed execution at most comes of each request.
CountType ==
  /\ cSeq \in -1 .. MaxCSeq
  /\ plays \in 0 .. cSeq + 1
  /\ camTimers \in 0 .. cSeq + 1

AnswerType ==
  /\ answer \in {"none", "ok", "error", "teardown", "echo"}
  /\ receiving \in BOOLEAN
  /\ receiving <=> answer \notin {"error", "teardown"}

FlagType ==
  /\ streams \in BOOLEAN /\ urls \in BOOLEAN /\ title \in BOOLEAN
  /\ files \in BOOLEAN /\ cached \in BOOLEAN /\ isPaused \in BOOLEAN
  /\ reading \in BOOLEAN /\ inCamSwitching \in BOOLEAN /\ crashed \in BOOLEAN
  /\ outOfOrder \in BOOLEAN /\ described \in BOOLEAN /\ setUp \in BOOLEAN
  /\ relisted \in BOOLEAN /\ thrown \in BOOLEAN

TypeInv == CountType /\ AnswerType /\ FlagType

\* What earlier requests have left behind: the cached lists come with the open
\* files, both were found by the title, and the title by the streams' urls.
Prepared ==
  /\ title => streams
  /\ urls => streams
  /\ cached => title /\ files

PreparedInv == Prepared /\ PreparedInOrder

\* Between DESCRIBE and SETUP the urls stay, unless an OPTIONS took them.
NamedInv ==
  /\ described /\ ~setUp /\ ~relisted => urls
  /\ SetUpNamesContent

-----------------------------------------------------------------------------
(* Types *)

LEMMA InitTypeInv == Init => TypeInv
<1> SUFFICES ASSUME Init PROVE TypeInv
  OBVIOUS
<1>1. CountType
  BY DialogueAssumption DEF Init, CountType
<1>2. AnswerType
  BY Zenon DEF Init, AnswerType
<1>3. FlagType
  BY Zenon DEF Init, FlagType
<1> QED BY <1>1, <1>2, <1>3 DEF TypeInv

\* The counters count requests: whatever the request, one more at most.
LEMMA StepCountType == CountType /\ [Next]_vars => CountType'
BY DialogueAssumption
   DEF CountType, Next, vars, Refuse, Incomplete, Options, Describe, SetupTrack, SetupHybrid,
       InitialPlay, Accept, OpenContent, StartsLater, StartsNot, Seek, Resume, Pause, Teardown,
       SetCamera, CameraChanged, CameraRefused, SetParameter, onPlayStart,
       updateIsInCamSwitching, ReadUncached, playVars, switchVars, dialogueVars

\* The receive loop ends with an answer of two kinds.
LEMMA AnswerTyped ==
  ASSUME NEW a \in {"ok", "error", "teardown", "echo"}, Answer(a)
  PROVE  AnswerType'
<1>1. receiving' \in BOOLEAN
  BY SMT DEF Answer
<1>2. receiving' <=> a \in {"ok", "echo"}
  BY Zenon DEF Answer
<1>3. answer' = a
  BY DEF Answer
<1>4. a \in {"ok", "echo"} <=> a \notin {"error", "teardown"}
  OBVIOUS
<1> QED BY <1>1, <1>2, <1>3, <1>4, Zenon DEF AnswerType

Answered == \E a \in {"ok", "error", "teardown", "echo"} : Answer(a)

LEMMA StepAnswers == [Next]_vars => Answered \/ UNCHANGED <<receiving, answer>>
BY DEF Answered, Next, vars, Refuse, Incomplete, Options, Describe, SetupTrack, SetupHybrid,
       InitialPlay, OpenContent, StartsLater, StartsNot, Seek, Resume, Pause, Teardown,
       SetCamera, CameraChanged, CameraRefused, SetParameter, onPlayStart,
       updateIsInCamSwitching, ReadUncached, dialogueVars, Crash

LEMMA StepAnswerType == AnswerType /\ [Next]_vars => AnswerType'
<1> SUFFICES ASSUME AnswerType, [Next]_vars PROVE AnswerType'
  OBVIOUS
<1>1. CASE Answered
  BY <1>1, AnswerTyped DEF Answered
<1>2. CASE UNCHANGED <<receiving, answer>>
  BY <1>2, Zenon DEF AnswerType
<1> QED BY <1>1, <1>2, StepAnswers

LEMMA StepFlagType == FlagType /\ [Next]_vars => FlagType'
<1> SUFFICES ASSUME FlagType, [Next]_vars PROVE FlagType'
  OBVIOUS
<1> USE DEF contentVars, preparedVars, playVars, switchVars, faultVars
<1>0. CASE UNCHANGED <<streams, urls, title, files, cached, isPaused, reading, inCamSwitching,
                     crashed, outOfOrder, described, setUp, relisted, thrown>>
  BY <1>0, SMT DEF FlagType
<1>1. CASE Options
  <2>1. UNCHANGED <<title, files, cached, isPaused, reading, inCamSwitching, crashed,
    outOfOrder, described, setUp, thrown>>
    BY <1>1 DEF Options
  <2>2. streams' \in BOOLEAN /\ urls' \in BOOLEAN /\ relisted' \in BOOLEAN
    BY <1>1, Zenon DEF Options, FlagType
  <2> QED BY <2>1, <2>2, ZenonT(60) DEF FlagType
<1>2. CASE Describe
  <2>1. UNCHANGED <<streams, title, files, cached, isPaused, reading, inCamSwitching,
    crashed, outOfOrder, setUp, relisted, thrown>>
    BY <1>2 DEF Describe
  <2>2. urls' \in BOOLEAN /\ described' \in BOOLEAN
    BY <1>2, Zenon DEF Describe, FlagType
  <2> QED BY <2>1, <2>2, ZenonT(60) DEF FlagType
<1>3. CASE SetupTrack
  <2>1. UNCHANGED <<streams, urls, files, cached, isPaused, reading, inCamSwitching,
    described, relisted, thrown>>
    BY <1>3 DEF SetupTrack, Needs, Crash, NoCrash
  <2>2. title' \in BOOLEAN /\ outOfOrder' \in BOOLEAN /\ setUp' \in BOOLEAN
        /\ crashed' \in BOOLEAN
    BY <1>3, Zenon DEF SetupTrack, FlagType, Needs, Crash, NoCrash
  <2> QED BY <2>1, <2>2, ZenonT(60) DEF FlagType
<1>4. CASE SetupHybrid
  <2>1. UNCHANGED <<streams, urls, title, files, cached, isPaused, reading,
    inCamSwitching, described, setUp, relisted, thrown>>
    BY <1>4 DEF SetupHybrid, Needs, Crash, NoCrash
  <2>2. outOfOrder' \in BOOLEAN /\ crashed' \in BOOLEAN
    BY <1>4, Zenon DEF SetupHybrid, FlagType, Needs, Crash, NoCrash
  <2> QED BY <2>1, <2>2, ZenonT(60) DEF FlagType
<1>5. CASE InitialPlay
  <2>1. UNCHANGED <<streams, urls, title, reading, inCamSwitching, described, setUp,
    relisted, thrown>>
    BY <1>5 DEF InitialPlay, OpenContent, StartsLater, StartsNot, Needs, Crash, NoCrash
  <2>2. outOfOrder' \in BOOLEAN /\ crashed' \in BOOLEAN /\ files' \in BOOLEAN
        /\ cached' \in BOOLEAN /\ isPaused' \in BOOLEAN
    BY <1>5, Zenon DEF InitialPlay, FlagType, OpenContent, StartsLater, StartsNot, Needs,
       Crash, NoCrash
  <2> QED BY <2>1, <2>2, ZenonT(60) DEF FlagType
<1>6. CASE Seek
  <2>1. UNCHANGED <<streams, urls, title, files, cached, inCamSwitching, described, setUp,
    relisted, thrown>>
    BY <1>6 DEF Seek, Needs, Crash, NoCrash
  <2>2. outOfOrder' \in BOOLEAN /\ crashed' \in BOOLEAN /\ isPaused' \in BOOLEAN
        /\ reading' \in BOOLEAN
    BY <1>6, Zenon DEF Seek, FlagType, Needs, Crash, NoCrash
  <2> QED BY <2>1, <2>2, ZenonT(60) DEF FlagType
<1>7. CASE Resume
  <2>1. UNCHANGED <<streams, urls, title, files, cached, reading, inCamSwitching, crashed,
    outOfOrder, described, setUp, relisted, thrown>>
    BY <1>7 DEF Resume
  <2>2. isPaused' \in BOOLEAN
    BY <1>7, Zenon DEF Resume, FlagType
  <2> QED BY <2>1, <2>2, ZenonT(60) DEF FlagType
<1>8. CASE Pause
  <2>1. UNCHANGED <<streams, urls, title, files, cached, reading, inCamSwitching, crashed,
    outOfOrder, described, setUp, relisted, thrown>>
    BY <1>8 DEF Pause
  <2>2. isPaused' \in BOOLEAN
    BY <1>8, Zenon DEF Pause, FlagType
  <2> QED BY <2>1, <2>2, ZenonT(60) DEF FlagType
<1>9. CASE SetCamera
  <2>1. UNCHANGED <<streams, urls, title, files, cached, isPaused, described, setUp,
    relisted>>
    BY <1>9 DEF SetCamera, CameraChanged, CameraRefused, Needs, Crash, NoCrash
  <2>2. outOfOrder' \in BOOLEAN /\ crashed' \in BOOLEAN /\ inCamSwitching' \in BOOLEAN
        /\ thrown' \in BOOLEAN /\ reading' \in BOOLEAN
    BY <1>9, Zenon DEF SetCamera, FlagType, CameraChanged, CameraRefused, Needs, Crash,
       NoCrash
  <2> QED BY <2>1, <2>2, ZenonT(60) DEF FlagType
<1>10. CASE onPlayStart
  <2>1. UNCHANGED <<streams, urls, title, files, cached, isPaused, inCamSwitching,
    crashed, outOfOrder, described, setUp, relisted, thrown>>
    BY <1>10 DEF onPlayStart
  <2>2. reading' \in BOOLEAN
    BY <1>10, Zenon DEF onPlayStart, FlagType
  <2> QED BY <2>1, <2>2, ZenonT(60) DEF FlagType
<1>11. CASE updateIsInCamSwitching
  <2>1. UNCHANGED <<streams, urls, title, files, cached, isPaused, reading, crashed,
    outOfOrder, described, setUp, relisted, thrown>>
    BY <1>11 DEF updateIsInCamSwitching
  <2>2. inCamSwitching' \in BOOLEAN
    BY <1>11, Zenon DEF updateIsInCamSwitching, FlagType
  <2> QED BY <2>1, <2>2, ZenonT(60) DEF FlagType
<1>12. CASE ReadUncached
  <2>1. UNCHANGED <<streams, urls, title, files, cached, isPaused, reading,
    inCamSwitching, outOfOrder, described, setUp, relisted, thrown>>
    BY <1>12 DEF ReadUncached
  <2>2. crashed' \in BOOLEAN
    BY <1>12, Zenon DEF ReadUncached, FlagType
  <2> QED BY <2>1, <2>2, ZenonT(60) DEF FlagType
<1>20. CASE Refuse \/ Incomplete \/ Teardown \/ SetParameter \/ UNCHANGED vars
  BY <1>20, <1>0 DEF Refuse, Incomplete, Teardown, SetParameter, vars
<1> QED BY <1>1, <1>2, <1>3, <1>4, <1>5, <1>6, <1>7, <1>8, <1>9, <1>10, <1>11, <1>12, <1>20 DEF Next

\* Type correctness of the dialogue: every flag is one, the delayed executions
\* are never more than the accepted requests (StartsLater, CameraChanged), and
\* the receive loop goes on exactly until an answer that ends it.
THEOREM DialogueTyped == Spec => []TypeOK
<1>1. TypeInv /\ [Next]_vars => TypeInv'
  BY StepCountType, StepAnswerType, StepFlagType DEF TypeInv
<1>2. TypeInv => TypeOK
  <2> SUFFICES ASSUME TypeInv PROVE TypeOK
    OBVIOUS
  <2>1. cSeq \in -1 .. MaxCSeq /\ plays \in 0 .. MaxCSeq + 1 /\ camTimers \in 0 .. MaxCSeq + 1
    BY DialogueAssumption, SMT DEF TypeInv, CountType
  <2> QED BY <2>1, Zenon DEF TypeInv, AnswerType, FlagType, TypeOK
<1> QED BY InitTypeInv, <1>1, <1>2, PTL DEF Spec

LEMMA CountTyped == Spec => []CountType
<1>1. Init => CountType
  BY InitTypeInv DEF TypeInv
<1> QED BY <1>1, StepCountType, PTL DEF Spec

-----------------------------------------------------------------------------
(* Nothing is used before it is prepared *)

\* Nothing that PreparedInv is about changes.
LEMMA PreparedFrame ==
  ASSUME PreparedInv, UNCHANGED <<contentVars, preparedVars, playVars, faultVars>>
  PROVE  PreparedInv'
BY DEF PreparedInv, Prepared, PreparedInOrder, contentVars, preparedVars, playVars, faultVars

LEMMA StepPreparedInv == PreparedInv /\ CountType /\ [Next]_vars => PreparedInv'
<1> SUFFICES ASSUME PreparedInv, CountType, [Next]_vars PROVE PreparedInv'
  OBVIOUS
<1> USE DEF PreparedInv, Prepared, PreparedInOrder, contentVars, preparedVars, playVars, faultVars
<1>1. CASE Options
  BY <1>1 DEF Options
<1>2. CASE Describe
  BY <1>2 DEF Describe
<1>3. CASE SetupTrack
  BY <1>3 DEF SetupTrack, Needs, Crash, NoCrash
<1>4. CASE SetupHybrid
  BY <1>4 DEF SetupHybrid, Needs, Crash, NoCrash
<1>5. CASE InitialPlay
  BY <1>5 DEF InitialPlay, OpenContent, StartsLater, StartsNot, Needs, Crash, NoCrash
<1>6. CASE Seek
  BY <1>6 DEF Seek, StartsLater, StartsNot, Needs, Crash, NoCrash
<1>7. CASE Resume
  BY <1>7 DEF Resume
<1>8. CASE Pause
  BY <1>8 DEF Pause
<1>9. CASE SetCamera
  <2>1. /\ UNCHANGED <<title, streams, urls, cached, files, plays>>
        /\ CameraChanged \/ CameraRefused
    BY <1>9 DEF SetCamera
  <2>2. ~outOfOrder' => ~outOfOrder /\ cached
    BY <1>9, Zenon DEF SetCamera, Needs
  <2>3. CASE CameraChanged
    BY <2>1, <2>2, <2>3 DEF CameraChanged, Crash, NoCrash
  <2>4. CASE CameraRefused
    BY <2>1, <2>2, <2>4 DEF CameraRefused, NoCrash
  <2> QED BY <2>1, <2>3, <2>4
<1>10. CASE onPlayStart
  BY <1>10, SMT DEF onPlayStart, CountType, switchVars
<1>11. CASE ReadUncached
  BY <1>11 DEF ReadUncached
<1>12. CASE \/ Refuse \/ Incomplete \/ Teardown \/ SetParameter \/ updateIsInCamSwitching
            \/ UNCHANGED vars
  BY <1>12, PreparedFrame
     DEF Refuse, Incomplete, Teardown, SetParameter, updateIsInCamSwitching, vars
<1> QED BY <1>1, <1>2, <1>3, <1>4, <1>5, <1>6, <1>7, <1>8, <1>9, <1>10, <1>11, <1>12 DEF Next

\* Unless the client leaves out a step, reading finds files and lists, and no
\* request ends the process (RtspHandler::handleRtspRequest).
THEOREM PreparedBeforeUse == Spec => []PreparedInOrder
<1>1. Init => PreparedInv
  BY DEF Init, PreparedInv, Prepared, PreparedInOrder
<1>2. PreparedInv => PreparedInOrder
  BY DEF PreparedInv
<1> QED BY <1>1, <1>2, StepPreparedInv, CountTyped, PTL DEF Spec

-----------------------------------------------------------------------------
(* DESCRIBE, SETUP and the title *)

LEMMA StepNamedInv == NamedInv /\ [Next]_vars => NamedInv'
<1> SUFFICES ASSUME NamedInv, [Next]_vars PROVE NamedInv'
  OBVIOUS
<1> USE DEF NamedInv, SetUpNamesContent, contentVars
<1>0. CASE UNCHANGED contentVars
  BY <1>0
<1>1. CASE Options
  <2>1. CASE UNCHANGED contentVars
    BY <2>1, <1>0
  <2>2. CASE /\ relisted' = (relisted \/ (described /\ ~setUp))
             /\ UNCHANGED <<title, described, setUp>>
    <3>1. relisted' <=> relisted \/ (described /\ ~setUp)
      BY <2>2, Zenon
    <3> QED BY <2>2, <3>1, Zenon
  <2> QED BY <1>1, <2>1, <2>2 DEF Options
<1>2. CASE Describe
  BY <1>2 DEF Describe
<1>3. CASE SetupTrack
  <2>1. title' <=> title \/ urls
    BY <1>3, Zenon DEF SetupTrack
  <2>2. UNCHANGED <<urls, described, relisted>>
    BY <1>3 DEF SetupTrack
  <2>3. CASE setUp' = setUp
    BY <2>1, <2>2, <2>3, Zenon
  <2>4. CASE setUp' = (setUp \/ described)
    <3>1. setUp' <=> setUp \/ described
      BY <2>4, Zenon
    <3> QED BY <2>1, <2>2, <3>1, Zenon
  <2> QED BY <1>3, <2>3, <2>4 DEF SetupTrack
<1>4. CASE ~(Options \/ Describe \/ SetupTrack)
  BY <1>4, <1>0 DEF Next, vars, Refuse, Incomplete, SetupHybrid, InitialPlay, Seek, Resume,
     Pause, Teardown, SetCamera, SetParameter, onPlayStart, updateIsInCamSwitching, ReadUncached
<1> QED BY <1>1, <1>2, <1>3, <1>4

\* A content that was described and then set up has its title in the session,
\* unless OPTIONS came in between (StreamHandler::setRtpInfo).
THEOREM SetUpNames == Spec => []SetUpNamesContent
<1>1. Init => NamedInv
  BY DEF Init, NamedInv, SetUpNamesContent
<1>2. NamedInv => SetUpNamesContent
  BY DEF NamedInv
<1> QED BY <1>1, <1>2, StepNamedInv, PTL DEF Spec

-----------------------------------------------------------------------------
(* Camera switching, and refused requests *)

LEMMA StepSwitching == SwitchingEnds /\ CountType /\ [Next]_vars => SwitchingEnds'
<1> SUFFICES ASSUME SwitchingEnds, CountType, [Next]_vars PROVE SwitchingEnds'
  OBVIOUS
<1>0. CASE UNCHANGED switchVars /\ (crashed => crashed')
  BY <1>0 DEF SwitchingEnds, switchVars
<1>1. CASE SetCamera
  BY <1>1 DEF SetCamera, SwitchingEnds, CameraChanged, CameraRefused, Crash, NoCrash, CountType
<1>2. CASE updateIsInCamSwitching
  BY <1>2 DEF updateIsInCamSwitching, SwitchingEnds
<1>3. CASE ~(SetCamera \/ updateIsInCamSwitching)
  BY <1>3, <1>0 DEF Next, vars, Refuse, Incomplete, Options, Describe, SetupTrack, SetupHybrid,
     InitialPlay, Seek, Resume, Pause, Teardown, SetParameter, onPlayStart, ReadUncached,
     faultVars, Accept, Crash, NoCrash
<1> QED BY <1>1, <1>2, <1>3

\* The flag for camera switching is only set while a delayed execution will
\* end it, or after an exception (RtspHandler, SET_PARAMETER).
THEOREM SwitchingFlag == Spec => []SwitchingEnds
<1>1. Init => SwitchingEnds
  BY DEF Init, SwitchingEnds
<1> QED BY <1>1, StepSwitching, CountTyped, PTL DEF Spec

-----------------------------------------------------------------------------
(* The stages of RtspStages *)

\* The stage is that of the last of the flags that is set.
LEMMA StageIs ==
  /\ cached => Stage = "open"
  /\ title /\ ~cached => Stage = "named"
  /\ urls /\ ~title /\ ~cached => Stage = "described"
  /\ streams /\ ~urls /\ ~title /\ ~cached => Stage = "listed"
  /\ ~streams /\ ~urls /\ ~title /\ ~cached => Stage = "unknown"
BY DEF Stage

LEMMA StageIsNext ==
  /\ cached' => Stage' = "open"
  /\ title' /\ ~cached' => Stage' = "named"
  /\ urls' /\ ~title' /\ ~cached' => Stage' = "described"
  /\ streams' /\ ~urls' /\ ~title' /\ ~cached' => Stage' = "listed"
  /\ ~streams' /\ ~urls' /\ ~title' /\ ~cached' => Stage' = "unknown"
BY DEF Stage

\* It is left as it is by whatever leaves the flags.
LEMMA StageStays == UNCHANGED <<streams, urls, title, cached>> => Stage' = Stage
BY DEF Stage

\* A client leaves out a stage exactly if what the request needs is not there.
LEMMA NeedsSkips ==
  ASSUME FlagType, NEW prepared \in BOOLEAN, Needs(prepared)
  PROVE  /\ outOfOrder' \in {outOfOrder, TRUE}
         /\ ~prepared => outOfOrder' = TRUE
BY Zenon DEF Needs, FlagType

\* A request with an answer is a request of the abstract dialogue.
LEMMA RequestMade ==
  ASSUME receiving, ~crashed, NEW a \in {"ok", "echo", "error", "teardown"}, Answer(a),
         UNCHANGED crashed, outOfOrder' \in {outOfOrder, TRUE}
  PROVE  /\ a \in {"ok", "echo"} => Stages!Request(TRUE)
         /\ a \in {"error", "teardown"} => Stages!Request(FALSE)
<1>1. receiving' = (a \in {"ok", "echo"})
  BY DEF Answer
<1>2. a \in {"ok", "echo"} => receiving' = TRUE
  BY <1>1, Zenon
<1>3. a \in {"error", "teardown"} => receiving' = FALSE
  <2>1. a \in {"error", "teardown"} => ~(a \in {"ok", "echo"})
    OBVIOUS
  <2>2. receiving' \in BOOLEAN
    BY SMT DEF Answer
  <2>3. a \in {"error", "teardown"} => ~receiving'
    BY <1>1, <2>1, Zenon
  <2> QED BY <2>2, <2>3, Zenon
<1> QED BY <1>2, <1>3, Zenon DEF Stages!Request

\* A request that leaves stages and delayed starts alone, and at most stops reading.
LEMMA OtherRequest ==
  ASSUME receiving, ~crashed, NEW a \in {"ok", "echo", "error", "teardown"}, Answer(a),
         UNCHANGED <<crashed, streams, urls, title, cached, plays>>,
         outOfOrder' \in {outOfOrder, TRUE}, reading' \in {reading, FALSE}
  PROVE  Stages!Other
<1>1. \E goesOn \in BOOLEAN : Stages!Request(goesOn)
  BY RequestMade
<1>2. Stage' = Stage
  BY StageStays
<1> QED BY <1>1, <1>2 DEF Stages!Other

\* The end of the process is one that a client brings about who left out a stage.
LEMMA ProcessEnds ==
  ASSUME ~crashed, crashed', outOfOrder', FlagType, FlagType',
         UNCHANGED <<streams, urls, title, cached, plays, receiving>>,
         reading' \in {reading, FALSE}
  PROVE  Stages!Die
<1>1. outOfOrder' = TRUE /\ crashed' = TRUE
  BY Zenon DEF FlagType
<1>2. Stage' = Stage
  BY StageStays
<1> QED BY <1>1, <1>2 DEF Stages!Die

\* A start that comes later is one of a content that is open, or skips a stage.
LEMMA Started ==
  ASSUME receiving, ~crashed, StartsLater, UNCHANGED crashed,
         outOfOrder' \in {outOfOrder, TRUE}, reading' \in {reading, FALSE},
         \/ Stage \in {"named", "open"} /\ Stage' = "open"
         \/ outOfOrder' = TRUE /\ Stage' = Stage
         \/ Stage = "open" /\ Stage' = Stage
  PROVE  Stages!Start
<1>1. \E goesOn \in IF OneSample THEN BOOLEAN ELSE {TRUE} : Stages!Request(goesOn)
  <2>1. CASE OneSample /\ Answer("error")
    BY <2>1, RequestMade
  <2>2. CASE ~OneSample /\ Answer("ok")
    BY <2>2, RequestMade
  <2> QED BY <2>1, <2>2 DEF StartsLater
<1>2. plays' = plays + 1
  BY DEF StartsLater
<1>3. \/ Stage \in {"named", "open"} /\ Stage' = "open"
      \/ outOfOrder' /\ Stage' = Stage
  OBVIOUS
<1> QED BY <1>1, <1>2, <1>3, Zenon DEF Stages!Start

\* Every step is one of the abstract dialogue or leaves what it speaks of alone.
LEMMA StageStep ==
  FlagType /\ FlagType' /\ CountType /\ PreparedInv /\ [Next]_vars
    => [Stages!StageNext]_(Stages!stageVars)
<1> SUFFICES ASSUME FlagType, FlagType', CountType, PreparedInv, [Next]_vars
             PROVE  Stages!StageNext \/ UNCHANGED Stages!stageVars
  OBVIOUS
<1>0. ASSUME Stages!Other \/ Stages!Die PROVE Stages!StageNext
  BY <1>0 DEF Stages!StageNext
<1>1. CASE Refuse
  <2>1. PICK a \in {"error", "echo"} : Answer(a)
    BY <1>1 DEF Refuse
  <2>2. /\ receiving /\ ~crashed
        /\ UNCHANGED <<crashed, streams, urls, title, cached, plays, outOfOrder, reading>>
    BY <1>1 DEF Refuse, contentVars, preparedVars, playVars, faultVars
  <2>3. Stages!Other
    BY <2>1, <2>2, OtherRequest
  <2> QED BY <1>0, <2>3
<1>2. CASE Incomplete \/ Teardown \/ SetParameter \/ Resume \/ Pause
  <2>1. PICK a \in {"error", "echo", "ok", "teardown"} : Answer(a)
    BY <1>2 DEF Incomplete, Teardown, SetParameter, Resume, Pause
  <2>2. /\ receiving /\ ~crashed
        /\ UNCHANGED <<crashed, streams, urls, title, cached, plays, outOfOrder, reading>>
    BY <1>2 DEF Incomplete, Teardown, SetParameter, Resume, Pause, Accept, contentVars,
       preparedVars, playVars, faultVars
  <2>3. Stages!Other
    BY <2>1, <2>2, OtherRequest
  <2> QED BY <1>0, <2>3
<1>3. CASE Options
  <2>0. /\ receiving /\ ~crashed
        /\ UNCHANGED <<crashed, cached, plays, outOfOrder, reading, title>>
    BY <1>3 DEF Options, Accept, preparedVars, playVars, faultVars, contentVars
  <2>1. CASE Answer("ok") /\ streams' = TRUE /\ urls' = FALSE
    <3>1. Stages!Request(TRUE)
      BY <2>0, <2>1, RequestMade
    <3>2. Stage' = IF Stage \in {"unknown", "described"} THEN "listed" ELSE Stage
      BY <2>0, <2>1, StageIs, StageIsNext DEF PreparedInv, Prepared
    <3>3. Stages!List
      BY <2>0, <3>1, <3>2 DEF Stages!List
    <3> QED BY <3>3 DEF Stages!StageNext
  <2>2. ASSUME NEW a \in {"echo", "error"}, Answer(a), UNCHANGED contentVars
        PROVE  Stages!StageNext
    <3>1. Stages!Other
      BY <2>0, <2>2, OtherRequest DEF contentVars
    <3> QED BY <1>0, <3>1
  <2> QED BY <1>3, <2>1, <2>2 DEF Options
<1>4. CASE Describe
  <2>0. /\ receiving /\ ~crashed
        /\ UNCHANGED <<crashed, cached, plays, outOfOrder, reading, title, streams>>
    BY <1>4 DEF Describe, Accept, preparedVars, playVars, faultVars
  <2>1. CASE streams /\ Answer("ok") /\ urls' = TRUE
    <3>1. Stages!Request(TRUE)
      BY <2>0, <2>1, RequestMade
    <3>2. Stage # "unknown" /\ Stage' = IF Stage = "listed" THEN "described" ELSE Stage
      BY <2>0, <2>1, StageIs, StageIsNext
    <3>3. Stages!Tell
      BY <2>0, <3>1, <3>2 DEF Stages!Tell
    <3> QED BY <3>3 DEF Stages!StageNext
  <2>2. CASE ~streams /\ Answer("echo") /\ UNCHANGED urls
    <3>1. Stages!Other
      BY <2>0, <2>2, OtherRequest
    <3> QED BY <1>0, <3>1
  <2> QED BY <1>4, <2>1, <2>2 DEF Describe
<1>5. CASE SetupTrack
  <2>0. /\ receiving /\ ~crashed /\ title' = (title \/ urls) /\ Needs(streams)
        /\ UNCHANGED <<cached, plays, reading, urls, streams>>
    BY <1>5 DEF SetupTrack, Accept, preparedVars, playVars
  <2>1. outOfOrder' \in {outOfOrder, TRUE} /\ (~streams => outOfOrder' = TRUE)
    <3>1. streams \in BOOLEAN
      BY DEF FlagType
    <3> QED BY <2>0, <3>1, NeedsSkips
  <2>2. title' <=> title \/ urls
    BY <2>0, Zenon
  <2>3. CASE streams /\ Answer("ok") /\ NoCrash
    <3>1. Stages!Request(TRUE)
      BY <2>0, <2>1, <2>3, RequestMade DEF NoCrash
    <3>2. CASE urls /\ ~title /\ ~cached
      <4>1. Stage = "described" /\ Stage' = "named"
        BY <2>0, <2>2, <3>2, StageIs, StageIsNext
      <4>2. Stages!Name
        BY <2>0, <3>1, <4>1 DEF Stages!Name
      <4> QED BY <4>2 DEF Stages!StageNext
    <3>3. CASE ~(urls /\ ~title /\ ~cached)
      <4>1. Stage' = Stage
        BY <2>0, <2>2, <3>3, StageIs, StageIsNext, <2>3
      <4>2. Stages!Other
        BY <2>0, <3>1, <4>1 DEF Stages!Other
      <4> QED BY <1>0, <4>2
    <3> QED BY <3>2, <3>3
  <2>4. CASE ~streams /\ Crash
    <3>1. title' = title
      <4>1. ~title /\ ~urls
        BY <2>4 DEF PreparedInv, Prepared
      <4>2. title = FALSE /\ title' = FALSE
        BY <2>2, <4>1, Zenon DEF FlagType
      <4> QED BY <4>2
    <3>2. Stages!Die
      BY <2>0, <2>1, <2>4, <3>1, ProcessEnds DEF Crash
    <3> QED BY <1>0, <3>2
  <2> QED BY <1>5, <2>3, <2>4 DEF SetupTrack
<1>6. CASE SetupHybrid
  <2>0. /\ receiving /\ ~crashed /\ Needs(streams)
        /\ UNCHANGED <<cached, plays, reading, urls, streams, title>>
    BY <1>6 DEF SetupHybrid, Accept, preparedVars, playVars, contentVars
  <2>1. outOfOrder' \in {outOfOrder, TRUE} /\ (~streams => outOfOrder' = TRUE)
    <3>1. streams \in BOOLEAN
      BY DEF FlagType
    <3> QED BY <2>0, <3>1, NeedsSkips
  <2>2. ASSUME NEW a \in {"ok", "echo"}, Answer(a), NoCrash PROVE Stages!StageNext
    <3>1. Stages!Other
      BY <2>0, <2>1, <2>2, OtherRequest DEF NoCrash
    <3> QED BY <1>0, <3>1
  <2>3. CASE ~streams /\ Crash
    <3>1. Stages!Die
      BY <2>0, <2>1, <2>3, ProcessEnds DEF Crash
    <3> QED BY <1>0, <3>1
  <2> QED BY <1>6, <2>2, <2>3 DEF SetupHybrid
<1>7. CASE InitialPlay
  <2>0. /\ receiving /\ ~crashed /\ Needs(streams)
        /\ UNCHANGED <<reading, urls, streams, title>>
    BY <1>7 DEF InitialPlay, Accept, contentVars
  <2>1. outOfOrder' \in {outOfOrder, TRUE} /\ (~streams => outOfOrder' = TRUE)
    <3>1. streams \in BOOLEAN
      BY DEF FlagType
    <3> QED BY <2>0, <3>1, NeedsSkips
  <2>2. CASE ~streams /\ Crash /\ UNCHANGED <<cached, plays>>
    <3>1. Stages!Die
      BY <2>0, <2>1, <2>2, ProcessEnds DEF Crash
    <3> QED BY <1>0, <3>1
  <2>3. ASSUME NEW a \in {"error", "echo"}, Answer(a), UNCHANGED <<crashed, cached, plays>>
        PROVE  Stages!StageNext
    <3>1. Stages!Other
      BY <2>0, <2>1, <2>3, OtherRequest
    <3> QED BY <1>0, <3>1
  <2>4. CASE title /\ cached' = TRUE /\ Answer("echo") /\ UNCHANGED <<crashed, plays>>
    <3>1. Stages!Request(TRUE)
      BY <2>0, <2>1, <2>4, RequestMade
    <3>2. CASE cached
      <4>1. Stage' = Stage
        BY <2>4, <3>2, StageIs, StageIsNext
      <4>2. Stages!Other
        BY <2>0, <2>4, <3>1, <4>1 DEF Stages!Other
      <4> QED BY <1>0, <4>2
    <3>3. CASE ~cached
      <4>1. Stage = "named" /\ Stage' = "open"
        BY <2>4, <3>3, StageIs, StageIsNext
      <4>2. Stages!Open
        BY <2>0, <2>4, <3>1, <4>1 DEF Stages!Open
      <4> QED BY <4>2 DEF Stages!StageNext
    <3> QED BY <3>2, <3>3
  <2>5. CASE title /\ cached' = TRUE /\ StartsLater /\ UNCHANGED crashed
    <3>1. Stages!Start
      <4>1. Stage \in {"named", "open"} /\ Stage' = "open"
        BY <2>5, StageIs, StageIsNext
      <4> QED BY <2>0, <2>1, <2>5, <4>1, Started
    <3> QED BY <3>1 DEF Stages!StageNext
  <2>6. \/ ~streams /\ Crash /\ UNCHANGED <<cached, plays>>
        \/ UNCHANGED crashed /\ (OpenContent \/ (StartsNot /\ UNCHANGED cached))
    BY <1>7 DEF InitialPlay, NoCrash
  <2>7. CASE OpenContent /\ UNCHANGED crashed
    BY <2>3, <2>4, <2>5, <2>7 DEF OpenContent
  <2>8. CASE StartsNot /\ UNCHANGED <<crashed, cached>>
    BY <2>3, <2>8 DEF StartsNot
  <2> QED BY <2>2, <2>6, <2>7, <2>8
<1>8. CASE Seek
  <2>0. /\ receiving /\ ~crashed /\ Needs(cached) /\ reading' = FALSE
        /\ UNCHANGED <<urls, streams, title, cached>>
    BY <1>8 DEF Seek, Accept, contentVars, preparedVars
  <2>1. outOfOrder' \in {outOfOrder, TRUE} /\ (~cached => outOfOrder' = TRUE)
    <3>1. cached \in BOOLEAN
      BY DEF FlagType
    <3> QED BY <2>0, <3>1, NeedsSkips
  <2>2. CASE ~streams /\ Crash /\ UNCHANGED plays
    <3>1. ~cached
      BY <2>2 DEF PreparedInv, Prepared
    <3>2. Stages!Die
      BY <2>0, <2>1, <2>2, <3>1, ProcessEnds DEF Crash
    <3> QED BY <1>0, <3>2
  <2>3. CASE title /\ StartsLater /\ UNCHANGED crashed
    <3>1. Stage' = Stage /\ (cached => Stage = "open")
      BY <2>0, StageStays, StageIs
    <3>2. Stages!Start
      BY <2>0, <2>1, <2>3, <3>1, Started
    <3> QED BY <3>2 DEF Stages!StageNext
  <2>4. ASSUME NEW a \in {"error", "echo"}, Answer(a), UNCHANGED <<crashed, plays>>
        PROVE  Stages!StageNext
    <3>1. Stages!Other
      BY <2>0, <2>1, <2>4, OtherRequest
    <3> QED BY <1>0, <3>1
  <2>5. \/ ~streams /\ Crash /\ UNCHANGED plays
        \/ UNCHANGED crashed /\ ((title /\ StartsLater) \/ StartsNot)
    BY <1>8 DEF Seek, NoCrash
  <2>6. CASE StartsNot /\ UNCHANGED crashed
    BY <2>4, <2>6 DEF StartsNot
  <2> QED BY <2>2, <2>3, <2>5, <2>6
<1>9. CASE SetCamera
  <2>0. /\ receiving /\ ~crashed /\ Needs(cached) /\ (CameraChanged \/ CameraRefused)
        /\ UNCHANGED <<urls, streams, title, cached, files, plays>>
    BY <1>9 DEF SetCamera, Accept, contentVars, preparedVars
  <2>1. outOfOrder' \in {outOfOrder, TRUE} /\ (~cached => outOfOrder' = TRUE)
    <3>1. cached \in BOOLEAN
      BY DEF FlagType
    <3> QED BY <2>0, <3>1, NeedsSkips
  <2>2. ASSUME NEW a \in {"error", "echo", "ok"}, Answer(a), UNCHANGED crashed,
               reading' \in {reading, FALSE}
        PROVE  Stages!StageNext
    <3>1. Stages!Other
      BY <2>0, <2>1, <2>2, OtherRequest
    <3> QED BY <1>0, <3>1
  <2>3. CASE Answer("ok") /\ UNCHANGED crashed /\ reading' = TRUE
    <3>1. Stages!Request(TRUE)
      BY <2>0, <2>1, <2>3, RequestMade
    <3>2. Stage' = Stage /\ (Stage = "open" \/ outOfOrder' = TRUE)
      BY <2>0, <2>1, StageStays, StageIs
    <3>3. Stages!Restart
      BY <2>0, <2>3, <3>1, <3>2, Zenon DEF Stages!Restart
    <3> QED BY <3>3 DEF Stages!StageNext
  <2>4. CASE ~(cached /\ files) /\ Crash /\ UNCHANGED reading
    <3>1. ~cached
      BY <2>4 DEF PreparedInv, Prepared
    <3>2. Stages!Die
      BY <2>0, <2>1, <2>4, <3>1, ProcessEnds DEF Crash
    <3> QED BY <1>0, <3>2
  <2>5. CASE CameraRefused
    <3>1. Answer("error") /\ UNCHANGED <<crashed, reading>>
      BY <2>5 DEF CameraRefused, NoCrash
    <3> QED BY <2>2, <3>1
  <2>6. CASE CameraChanged
    <3>1. \/ Answer("echo") /\ UNCHANGED <<crashed, reading>>
          \/ Answer("ok") /\ UNCHANGED crashed /\ reading' = FALSE
          \/ Answer("ok") /\ UNCHANGED crashed /\ reading' = TRUE
          \/ ~(cached /\ files) /\ Crash /\ UNCHANGED reading
      BY <2>6 DEF CameraChanged, NoCrash
    <3> QED BY <2>2, <2>3, <2>4, <3>1
  <2> QED BY <2>0, <2>5, <2>6
<1>10. CASE onPlayStart
  <2>1. Stage' = Stage
    BY <1>10, StageStays DEF onPlayStart, contentVars, preparedVars
  <2>2. Stages!Begin
    BY <1>10, <2>1 DEF onPlayStart, Stages!Begin, dialogueVars, faultVars
  <2> QED BY <2>2 DEF Stages!StageNext
<1>11. CASE ReadUncached
  <2>1. outOfOrder
    BY <1>11 DEF ReadUncached, PreparedInv, PreparedInOrder
  <2>2. /\ ~crashed /\ crashed' = TRUE
        /\ UNCHANGED <<streams, urls, title, cached, plays, receiving, reading, outOfOrder>>
    BY <1>11 DEF ReadUncached, dialogueVars, contentVars, preparedVars, playVars
  <2>3. Stages!Die
    BY <2>1, <2>2, ProcessEnds
  <2> QED BY <1>0, <2>3
<1>12. CASE updateIsInCamSwitching \/ UNCHANGED vars
  <2>1. UNCHANGED <<streams, urls, title, cached, plays, receiving, reading, outOfOrder, crashed>>
    BY <1>12 DEF updateIsInCamSwitching, vars, dialogueVars, contentVars, preparedVars, playVars,
       faultVars
  <2> QED BY <2>1, StageStays DEF Stages!stageVars
<1> QED BY <1>1, <1>2, <1>3, <1>4, <1>5, <1>6, <1>7, <1>8, <1>9, <1>10, <1>11, <1>12 DEF Next

\* The dialogue implements the stages of RtspStages.
THEOREM StagesRefined == Spec => ImplementsStages
<1>1. Init => Stages!StageInit
  BY StageIs DEF Init, Stages!StageInit
<1>2. Init => PreparedInv
  BY DEF Init, PreparedInv, Prepared, PreparedInOrder
<1>3. TypeInv /\ PreparedInv /\ [Next]_vars => TypeInv' /\ PreparedInv'
  BY StepCountType, StepAnswerType, StepFlagType, StepPreparedInv DEF TypeInv
<1>4. TypeInv /\ TypeInv' /\ PreparedInv /\ [Next]_vars
        => [Stages!StageNext]_(Stages!stageVars)
  BY StageStep DEF TypeInv
<1> QED BY <1>1, <1>2, <1>3, <1>4, InitTypeInv, PTL DEF Spec, ImplementsStages, Stages!StageSpec

\* The stages alone, whatever implements them, keep a client who leaves out none
\* from reading what is not open and from ending the process.
THEOREM StagesAreSafe == Stages!StageSpec => []Stages!StageSafe
<1>1. Stages!StageInit => Stages!StageSafe
  BY DEF Stages!StageInit, Stages!StageSafe
<1>2. Stages!StageSafe /\ [Stages!StageNext]_(Stages!stageVars) => Stages!StageSafe'
  <2> SUFFICES ASSUME Stages!StageSafe, [Stages!StageNext]_(Stages!stageVars), ~outOfOrder'
               PROVE  ~crashed' /\ (plays' > 0 \/ reading' => Stage' = "open")
    BY DEF Stages!StageSafe
  <2>1. CASE UNCHANGED Stages!stageVars
    BY <2>1 DEF Stages!stageVars, Stages!StageSafe
  <2>2. CASE Stages!Begin
    BY <2>2 DEF Stages!Begin, Stages!StageSafe
  <2>3. CASE Stages!Die
    BY <2>3 DEF Stages!Die
  <2>0. ASSUME NEW goesOn, Stages!Request(goesOn)
        PROVE  ~outOfOrder /\ ~crashed'
    <3>1. ~outOfOrder
      BY <2>0, Zenon DEF Stages!Request
    <3> QED BY <2>0, <3>1 DEF Stages!Request
  <2>4. CASE Stages!List \/ Stages!Tell \/ Stages!Name \/ Stages!Open
    <3>1. Stages!Request(TRUE) /\ plays' = plays /\ reading' = reading
          /\ (Stage' = Stage \/ Stage # "open")
      BY <2>4 DEF Stages!List, Stages!Tell, Stages!Name, Stages!Open
    <3>2. plays > 0 \/ reading => Stage = "open"
      BY <2>0, <3>1 DEF Stages!StageSafe
    <3>3. plays' > 0 \/ reading' => Stage' = "open"
      BY <3>1, <3>2
    <3> QED BY <2>0, <3>1, <3>3
  <2>5. CASE Stages!Start
    BY <2>5 DEF Stages!Start, Stages!Request, Stages!StageSafe
  <2>6. CASE Stages!Restart \/ Stages!Other
    <3>1. PICK goesOn : Stages!Request(goesOn)
      BY <2>6 DEF Stages!Restart, Stages!Other
    <3>2. CASE Stages!Restart
      <4>1. Stage = "open" /\ Stage' = Stage
        BY <3>2 DEF Stages!Restart
      <4> QED BY <2>0, <3>1, <4>1
    <3>3. CASE Stages!Other
      <4>1. reading' \in {reading, FALSE} /\ Stage' = Stage /\ plays' = plays
        BY <3>3 DEF Stages!Other
      <4>2. plays > 0 \/ reading => Stage = "open"
        BY <2>0, <3>1 DEF Stages!StageSafe
      <4>3. reading' => reading
        BY <4>1, Zenon
      <4> QED BY <2>0, <3>1, <4>1, <4>2, <4>3
    <3> QED BY <2>6, <3>2, <3>3
  <2> QED BY <2>1, <2>2, <2>3, <2>4, <2>5, <2>6 DEF Stages!StageNext
<1> QED BY <1>1, <1>2, PTL DEF Stages!StageSpec
=============================================================================
