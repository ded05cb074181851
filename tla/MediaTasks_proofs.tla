--------------------------- MODULE MediaTasks_proofs ---------------------------
(***************************************************************************)
(* Theorems about MediaTasks for every number of plays, camera switches and *)
(* fast reads: a periodic task that is stopped while its handler runs, and  *)
(* what becomes of it.                                                     *)
(***************************************************************************)
EXTENDS MediaTasks, FiniteSetTheorems, TLAPS

-----------------------------------------------------------------------------
(* What the strand does for whom *)

Steps == {"body", "read", "check", "rearm"}
RequestSteps == {"stopAudio", "reposition", "fast", "fastRead"}
PlayStates == {"unused", "delayed", "videoTimer", "audioFlag", "audioTimer", "done"}

\* The holder of the strand is at a step of its own; a camera switch has a number.
Holders ==
  /\ onStrand \in Tasks => step \in Steps
  /\ StrandFree => step = NoStep
  /\ onStrand = Request <=> request # "none"
  /\ request # "none" => step \in RequestSteps
  /\ request = "seek" => step \in {"stopAudio", "reposition"}
  /\ request \in {"switch", "switchBoth"} => switches >= 1

\* Plays are used in their order.
PlayOrder == \E k \in 0 .. MaxPlays : Used = 1 .. k

\* Without the history variables.
Types ==
  /\ TaskTypeOK({Request}, {"read", "stopAudio", "reposition", "fast", "fastRead"})
  /\ playPc \in [Plays -> PlayStates]
  /\ switches \in 0 .. MaxSwitches
  /\ request \in {"none", "seek", "switch", "switchBoth"}
  /\ fastLeft \in 0 .. FastReads
  /\ isPaused \in BOOLEAN
  /\ isToreDown \in BOOLEAN
  /\ tdPc \in {"none", "flagged", "videoStopped", "stopped", "closed"}
  /\ overlapped \in BOOLEAN

Shape == Types /\ Holders

\* The parts of a step that every action of a task leaves alone.
LEMMA TaskShape ==
  ASSUME Shape, NEW t \in Tasks,
         \/ TimerFires(t) \/ HandlerRuns(t) \/ HandlerEnds(t) \/ HandlerIsAborted(t)
         \/ TaskPasses(t) \/ TaskSkips(t) \/ TaskReads(t)
  PROVE  Shape'
<1> USE HolderAssumption DEF Shape, Types, Holders, TaskTypeOK, StrandFree, FreeStrand, Steps,
        RequestSteps, Elsewhere, clientVars, tdVars
<1>1. CASE TimerFires(t)
  BY <1>1 DEF TimerFires, TimerExpires
<1>2. CASE HandlerRuns(t)
  BY <1>2 DEF HandlerRuns, HandlerBegins
<1>3. CASE HandlerEnds(t)
  BY <1>3 DEF HandlerEnds, HandlerChecks, HandlerRearms
<1>4. CASE HandlerIsAborted(t)
  BY <1>4 DEF HandlerIsAborted, HandlerAborted
<1>5. CASE TaskPasses(t)
  BY <1>5 DEF TaskPasses
<1>6. CASE TaskSkips(t)
  BY <1>6 DEF TaskSkips
<1>7. CASE TaskReads(t)
  BY <1>7 DEF TaskReads
<1> QED
  BY <1>1, <1>2, <1>3, <1>4, <1>5, <1>6, <1>7

\* Stopping tasks keeps the types of flags and timers.
LEMMA StopType ==
  ASSUME Types, NEW S, StopTasks(S)
  PROVE  /\ running' \in [Tasks -> BOOLEAN]
         /\ wait' \in [Tasks -> {"none", "armed", "due", "aborted"}]
<1>1. running' \in [Tasks -> BOOLEAN]
  BY Zenon DEF StopTasks
<1>2. wait' \in [Tasks -> {"none", "armed", "due", "aborted"}]
  BY DEF StopTasks, Types, TaskTypeOK
<1> QED
  BY <1>1, <1>2

LEMMA RequestShape ==
  ASSUME Shape, Requests
  PROVE  Shape'
<1> USE MediaAssumption, HolderAssumption DEF Shape, Types, Holders, TaskTypeOK, StrandFree,
        FreeStrand, Steps, RequestSteps, clientVars, tdVars, taskVars, RequestArrives, PlayStates
<1>1. CASE InitialPlay
  <2>1. overlapped' \in BOOLEAN /\ isPaused' \in BOOLEAN
    BY <1>1, Zenon DEF InitialPlay
  <2> QED
    BY <1>1, <2>1 DEF InitialPlay
<1>2. CASE SeekBegins
  <2>1. overlapped' \in BOOLEAN /\ isPaused' \in BOOLEAN
    BY <1>2, Zenon DEF SeekBegins, StopVideo
  <2>2. /\ running' \in [Tasks -> BOOLEAN]
        /\ wait' \in [Tasks -> {"none", "armed", "due", "aborted"}]
    BY <1>2, StopType DEF SeekBegins, StopVideo
  <2> QED
    BY <1>2, <2>1, <2>2 DEF SeekBegins, StopVideo
<1>3. CASE SwitchBegins
  <2>1. overlapped' \in BOOLEAN
    BY <1>3, Zenon DEF SwitchBegins, StopVideo
  <2>2. /\ running' \in [Tasks -> BOOLEAN]
        /\ wait' \in [Tasks -> {"none", "armed", "due", "aborted"}]
    BY <1>3, StopType DEF SwitchBegins, StopVideo
  <2>3. switches' \in 0 .. MaxSwitches /\ switches' >= 1
    BY <1>3 DEF SwitchBegins
  <2> QED
    BY <1>3, <2>1, <2>2, <2>3 DEF SwitchBegins, StopVideo
<1>4. CASE StopAudio
  <2>1. /\ running' \in [Tasks -> BOOLEAN]
        /\ wait' \in [Tasks -> {"none", "armed", "due", "aborted"}]
    BY <1>4, StopType DEF StopAudio
  <2> QED
    BY <1>4, <2>1 DEF StopAudio
<1>5. CASE SeekEnds
  BY <1>5 DEF SeekEnds
<1>6. CASE SwitchRepositions
  BY <1>6 DEF SwitchRepositions
<1>7. CASE FastGuard
  BY <1>7 DEF FastGuard
<1>8. CASE FastRead
  BY <1>8 DEF FastRead
<1>12. CASE SwitchThrows
  BY <1>12 DEF SwitchThrows
<1>9. CASE SwitchEnds
  <2>1. running' \in [Tasks -> BOOLEAN] /\ wait' \in [Tasks -> {"none", "armed", "due", "aborted"}]
    BY <1>9 DEF SwitchEnds
  <2> QED
    BY <1>9, <2>1 DEF SwitchEnds
<1>10. CASE Pause
  <2>1. isPaused' \in BOOLEAN
    BY <1>10, Zenon DEF Pause
  <2> QED
    BY <1>10, <2>1 DEF Pause
<1>11. CASE Resume
  <2>1. isPaused' \in BOOLEAN
    BY <1>11, Zenon DEF Resume
  <2> QED
    BY <1>11, <2>1 DEF Resume
<1> QED
  BY <1>1, <1>2, <1>3, <1>4, <1>5, <1>6, <1>7, <1>8, <1>9, <1>10, <1>11, <1>12 DEF Requests

LEMMA ShapeStep == Shape /\ [Next]_vars => Shape'
<1> SUFFICES ASSUME Shape, [Next]_vars PROVE Shape'
  OBVIOUS
<1> USE HolderAssumption DEF Shape, Types, Holders, TaskTypeOK, StrandFree, Steps, RequestSteps,
        clientVars, tdVars, taskVars, PlayStates
<1>1. CASE UNCHANGED vars
  BY <1>1 DEF vars
<1>2. ASSUME NEW p \in Plays, onPlayStart(p) PROVE Shape'
  <2>1. playPc' \in [Plays -> PlayStates] /\ UNCHANGED <<onStrand, step, clientVars, tdVars, overlapped>>
    BY <1>2 DEF onPlayStart, PlayStep, SetRunning, ArmTimer
  <2>2. running' \in [Tasks -> BOOLEAN]
    BY <1>2 DEF onPlayStart, SetRunning, ArmTimer
  <2>3. wait' \in [Tasks -> {"none", "armed", "due", "aborted"}]
    BY <1>2 DEF onPlayStart, SetRunning, ArmTimer
  <2> QED
    BY <2>1, <2>2, <2>3
<1>3. CASE TdFlag
  <2>1. isToreDown' \in BOOLEAN
    BY <1>3, Zenon DEF TdFlag
  <2> QED
    BY <1>3, <2>1 DEF TdFlag
<1>4. CASE stopAllPeriodicTasks
  <2>1. /\ running' \in [Tasks -> BOOLEAN]
        /\ wait' \in [Tasks -> {"none", "armed", "due", "aborted"}]
    BY <1>4, StopType DEF stopAllPeriodicTasks
  <2> QED
    BY <1>4, <2>1 DEF stopAllPeriodicTasks
<1>5. CASE closeSocket
  BY <1>5 DEF closeSocket
<1> QED
  BY <1>1, <1>2, <1>3, <1>4, <1>5, TaskShape, RequestShape DEF Next

-----------------------------------------------------------------------------
(* Plays are used one after the other *)

\* A play that is about to be used is an unused one.
LEMMA NextPlayUnused ==
  ASSUME Shape, PlayOrder
  PROVE  NextPlay \in Nat /\ (NextPlay \in Plays => playPc[NextPlay] = "unused")
<1>1. PICK k \in 0 .. MaxPlays : Used = 1 .. k
  BY DEF PlayOrder
<1>2. k \in Nat /\ MaxPlays \in Nat
  BY MediaAssumption
<1>3. Cardinality(1 .. k) = k
  BY <1>2, FS_Interval
<1>4. NextPlay = k + 1
  BY <1>1, <1>3 DEF NextPlay
<1>5. NextPlay \notin Used
  BY <1>1, <1>2, <1>4
<1> QED
  BY <1>2, <1>4, <1>5 DEF Used

LEMMA PlayOrderKept ==
  ASSUME Shape, PlayOrder, Used' = Used
  PROVE  PlayOrder'
BY DEF PlayOrder

LEMMA PlayOrderGrows ==
  ASSUME Shape, PlayOrder, playPc' = [playPc EXCEPT ![NextPlay] = "delayed"]
  PROVE  PlayOrder'
<1>1. PICK k \in 0 .. MaxPlays : Used = 1 .. k
  BY DEF PlayOrder
<1>2. k \in Nat /\ MaxPlays \in Nat /\ Plays = 1 .. MaxPlays
  BY MediaAssumption DEF Plays
<1>3. Cardinality(1 .. k) = k
  BY <1>2, FS_Interval
<1>4. NextPlay = k + 1
  BY <1>1, <1>3 DEF NextPlay
<1>5. playPc \in [Plays -> PlayStates]
  BY DEF Shape, Types
<1>6. CASE k + 1 <= MaxPlays
  <2>1. Used' = Used \cup {k + 1}
    BY <1>2, <1>4, <1>5, <1>6 DEF Used
  <2>2. Used' = 1 .. (k + 1)
    BY <1>1, <1>2, <2>1
  <2> QED
    BY <1>2, <1>6, <2>2 DEF PlayOrder
<1>7. CASE ~(k + 1 <= MaxPlays)
  <2>1. playPc' = playPc
    BY <1>2, <1>4, <1>5, <1>7
  <2> QED
    BY <2>1, PlayOrderKept DEF Used
<1> QED
  BY <1>6, <1>7

LEMMA PlayOrderStep == Shape /\ PlayOrder /\ [Next]_vars => PlayOrder'
<1> SUFFICES ASSUME Shape, PlayOrder, [Next]_vars PROVE PlayOrder'
  OBVIOUS
<1>1. ASSUME UNCHANGED playPc PROVE PlayOrder'
  BY <1>1, PlayOrderKept DEF Used
<1>2. ASSUME NEW p \in Plays, onPlayStart(p) PROVE PlayOrder'
  <2>1. playPc \in [Plays -> PlayStates]
    BY DEF Shape, Types
  <2>2. Used' = Used
    BY <1>2, <2>1 DEF onPlayStart, PlayStep, Used
  <2> QED
    BY <2>2, PlayOrderKept
<1>3. ASSUME NEW t \in Tasks,
             \/ TimerFires(t) \/ HandlerRuns(t) \/ HandlerEnds(t) \/ HandlerIsAborted(t)
             \/ TaskPasses(t) \/ TaskSkips(t) \/ TaskReads(t)
      PROVE  UNCHANGED playPc
  BY <1>3 DEF TimerFires, HandlerRuns, HandlerEnds, HandlerIsAborted, TaskPasses, TaskSkips,
              TaskReads, Elsewhere
<1>4. CASE InitialPlay \/ SeekEnds
  BY <1>1, <1>4, PlayOrderGrows DEF InitialPlay, SeekEnds
<1>5. ASSUME \/ SeekBegins \/ SwitchBegins \/ StopAudio \/ SwitchRepositions \/ FastGuard
             \/ FastRead \/ SwitchThrows \/ SwitchEnds \/ Pause \/ Resume
      PROVE  UNCHANGED playPc
  BY <1>5 DEF SeekBegins, SwitchBegins, StopAudio, SwitchRepositions, FastGuard, FastRead,
              SwitchThrows, SwitchEnds, Pause, Resume
<1>6. ASSUME TdFlag \/ stopAllPeriodicTasks \/ closeSocket \/ UNCHANGED vars
      PROVE  UNCHANGED playPc
  BY <1>6 DEF TdFlag, stopAllPeriodicTasks, closeSocket, vars
<1> QED
  BY <1>1, <1>2, <1>3, <1>4, <1>5, <1>6 DEF Next, Requests

-----------------------------------------------------------------------------
(* The life of a task *)

\* t was never started.
Fresh(t) ==
  \/ \E p \in Plays : t = <<"video", p>> /\ playPc[p] \in {"unused", "delayed"}
  \/ \E p \in Plays : /\ t = <<"audio", p>>
                      /\ playPc[p] \in {"unused", "delayed", "videoTimer", "audioFlag"}
  \/ \E i \in 1 .. MaxSwitches :
       t = <<"cam", i>> /\ (i > switches \/ (i = switches /\ request \in {"switch", "switchBoth"}))

\* A task is started once, and has one handler: its timer is armed by its start
\* and then by its handler alone, which looks at the flag before.
Chain(t) ==
  /\ Fresh(t) \/ Arming(t) => wait[t] = "none" /\ onStrand # t /\ late[t] = 0
  /\ Fresh(t) => ~running[t]
  /\ onStrand = t => wait[t] = "none"
  /\ late[t] = 0 \/ (late[t] = 1 /\ ~running[t] /\ wait[t] = "none" /\ (onStrand = t => step # "rearm"))
  /\ running[t] => wait[t] \in {"armed", "due"} \/ onStrand = t \/ Arming(t)

Chains == late \in [Tasks -> 0 .. 2] /\ \A t \in Tasks : Chain(t)

\* What tells tasks apart.
LEMMA TaskForms ==
  /\ \A p \in Plays : <<"video", p>> \in Tasks /\ <<"audio", p>> \in Tasks
  /\ \A i \in 1 .. MaxSwitches : <<"cam", i>> \in Tasks
  /\ \A p, q : /\ <<"video", p>> # <<"audio", q>>
               /\ <<"video", p>> # <<"cam", q>>
               /\ <<"audio", p>> # <<"cam", q>>
               /\ <<"video", p>> = <<"video", q>> => p = q
               /\ <<"audio", p>> = <<"audio", q>> => p = q
               /\ <<"cam", p>> = <<"cam", q>> => p = q
<1>1. \A p \in Plays : <<"video", p>> \in Tasks /\ <<"audio", p>> \in Tasks
  BY DEF Tasks, VideoTasks, AudioTasks
<1>2. \A i \in 1 .. MaxSwitches : <<"cam", i>> \in Tasks
  BY DEF Tasks, VideoTasks
<1> QED
  BY <1>1, <1>2

LEMMA Settled ==
  ASSUME NEW t, UNCHANGED <<playPc, switches, request>>
  PROVE  (Fresh(t)' <=> Fresh(t)) /\ (Arming(t)' <=> Arming(t))
BY DEF Fresh, Arming

\* Every step of a task keeps its own chain and those of the others.
LEMMA TaskChain ==
  ASSUME Shape, Chains, NEW t \in Tasks,
         \/ TimerFires(t) \/ HandlerRuns(t) \/ HandlerEnds(t) \/ HandlerIsAborted(t)
         \/ TaskPasses(t) \/ TaskSkips(t) \/ TaskReads(t)
  PROVE  Chains'
<1>1. UNCHANGED <<playPc, switches, request>>
  BY DEF TimerFires, HandlerRuns, HandlerEnds, HandlerIsAborted, TaskPasses, TaskSkips,
         TaskReads, Elsewhere, clientVars
<1>2. wait \in [Tasks -> {"none", "armed", "due", "aborted"}] /\ late \in [Tasks -> 0 .. 2]
      /\ Nobody \notin Tasks
  BY HolderAssumption DEF Shape, Types, TaskTypeOK, Chains
<1>3. ASSUME NEW o \in Tasks
      PROVE  Chain(o)' /\ late' \in [Tasks -> 0 .. 2]
  <2>1. (Fresh(o)' <=> Fresh(o)) /\ (Arming(o)' <=> Arming(o))
    BY <1>1, Settled
  <2>2. Chain(o) /\ Chain(t)
    BY DEF Chains
  <2> USE DEF Chain, StrandFree, FreeStrand
  <2>3. CASE TimerFires(t)
    BY <1>2, <2>1, <2>2, <2>3 DEF TimerFires, TimerExpires, Elsewhere
  <2>4. CASE HandlerRuns(t)
    <3>1. late[t] = 0 \/ running[t]
      BY <2>2, <2>4 DEF HandlerRuns, HandlerBegins
    <3>2. CASE o = t
      BY <1>2, <2>1, <2>2, <2>4, <3>1, <3>2 DEF HandlerRuns, HandlerBegins, Elsewhere
    <3>3. CASE o # t
      BY <1>2, <2>1, <2>2, <2>4, <3>1, <3>3 DEF HandlerRuns, HandlerBegins, Elsewhere
    <3> QED
      BY <3>2, <3>3
  <2>5. CASE HandlerEnds(t)
    BY <1>2, <2>1, <2>2, <2>5 DEF HandlerEnds, HandlerChecks, HandlerRearms, Elsewhere
  <2>6. CASE HandlerIsAborted(t)
    BY <1>2, <2>1, <2>2, <2>6 DEF HandlerIsAborted, HandlerAborted, Elsewhere
  <2>7. CASE TaskPasses(t) \/ TaskSkips(t) \/ TaskReads(t)
    BY <1>2, <2>1, <2>2, <2>7 DEF TaskPasses, TaskSkips, TaskReads
  <2> QED
    BY <2>3, <2>4, <2>5, <2>6, <2>7
<1>4. late' \in [Tasks -> 0 .. 2]
  BY <1>3
<1> QED
  BY <1>3, <1>4 DEF Chains

\* The guard of a chain that no step of the task itself is needed for: stopped
\* tasks are aborted or left alone, and the strand is not taken by a task.
LEMMA StopChain ==
  ASSUME Shape, Chains, NEW S, StopTasks(S), UNCHANGED late,
         NEW o \in Tasks, onStrand' = o <=> onStrand = o, onStrand = o => step' = step,
         Fresh(o)' => Fresh(o), Arming(o)' <=> Arming(o)
  PROVE  Chain(o)'
<1>1. /\ wait \in [Tasks -> {"none", "armed", "due", "aborted"}]
      /\ running \in [Tasks -> BOOLEAN]
      /\ Chain(o)
  BY DEF Shape, Types, TaskTypeOK, Chains
<1>2. running'[o] => running[o] /\ o \notin S
  BY DEF StopTasks
<1>3. wait'[o] = IF o \in S /\ running[o] /\ wait[o] = "armed" THEN "aborted" ELSE wait[o]
  BY DEF StopTasks
<1> QED
  BY <1>1, <1>2, <1>3 DEF Chain

\* Requests start a task of a camera switch, and stop others.
LEMMA RequestChain ==
  ASSUME Shape, Chains, PlayOrder, Requests
  PROVE  Chains'
<1>1. /\ wait \in [Tasks -> {"none", "armed", "due", "aborted"}]
      /\ running \in [Tasks -> BOOLEAN]
      /\ late \in [Tasks -> 0 .. 2]
      /\ playPc \in [Plays -> PlayStates]
      /\ Nobody \notin Tasks /\ Request \notin Tasks
      /\ \A t \in Tasks : Chain(t)
      /\ switches \in 0 .. MaxSwitches
  BY HolderAssumption DEF Shape, Types, TaskTypeOK, Chains
<1>2. late' \in [Tasks -> 0 .. 2] /\ UNCHANGED late
  BY <1>1 DEF Requests, InitialPlay, SeekBegins, SwitchBegins, StopAudio, SeekEnds,
              SwitchRepositions, FastGuard, FastRead, SwitchThrows, SwitchEnds, Pause, Resume
<1>3. ASSUME NEW o \in Tasks PROVE Chain(o)'
  <2>1. Chain(o) /\ o # Nobody /\ o # Request
    BY <1>1
  <2>2. ASSUME playPc' = [playPc EXCEPT ![NextPlay] = "delayed"],
               request' \notin {"switch", "switchBoth"}, UNCHANGED switches
        PROVE  (Fresh(o)' => Fresh(o)) /\ (Arming(o)' <=> Arming(o))
    BY <1>1, <2>2, NextPlayUnused DEF Fresh, Arming
  <2>3. ASSUME UNCHANGED <<playPc, switches>>, request' \notin {"switch", "switchBoth"}
        PROVE  (Fresh(o)' => Fresh(o)) /\ (Arming(o)' <=> Arming(o))
    BY <2>3 DEF Fresh, Arming
  <2>4. CASE InitialPlay
    <3>1. (Fresh(o)' => Fresh(o)) /\ (Arming(o)' <=> Arming(o))
      <4>1. request' \notin {"switch", "switchBoth"}
        BY <2>4, HolderAssumption DEF InitialPlay, RequestArrives, StrandFree, Shape, Holders
      <4> QED
        BY <2>2, <2>4, <4>1 DEF InitialPlay
    <3> QED
      BY <1>2, <2>1, <2>4, <3>1 DEF InitialPlay, Chain, taskVars
  <2>5. CASE SeekBegins
    <3>1. (Fresh(o)' => Fresh(o)) /\ (Arming(o)' <=> Arming(o))
      BY <2>3, <2>5 DEF SeekBegins
    <3>2. StopTasks(VideoTasks) /\ onStrand = Nobody /\ onStrand' = Request
      BY <2>5 DEF SeekBegins, StopVideo, RequestArrives, StrandFree
    <3> QED
      BY <1>2, <2>1, <3>1, <3>2, StopChain
  <2>6. CASE SwitchBegins
    <3>1. /\ Fresh(o)' => Fresh(o)
          /\ Arming(o)' <=> Arming(o)
      BY <1>1, <2>6, MediaAssumption DEF SwitchBegins, Fresh, Arming
    <3>2. StopTasks(VideoTasks) /\ onStrand = Nobody /\ onStrand' = Request
      BY <2>6 DEF SwitchBegins, StopVideo, RequestArrives, StrandFree
    <3> QED
      BY <1>2, <2>1, <3>1, <3>2, StopChain
  <2>7. CASE StopAudio
    <3>1. (Fresh(o)' <=> Fresh(o)) /\ (Arming(o)' <=> Arming(o))
      BY <2>7, Settled DEF StopAudio, clientVars
    <3>2. StopTasks(AudioTasks) /\ onStrand = Request /\ onStrand' = Request
      BY <2>7 DEF StopAudio
    <3> QED
      BY <1>2, <2>1, <3>1, <3>2, StopChain
  <2>8. CASE SeekEnds
    <3>1. (Fresh(o)' => Fresh(o)) /\ (Arming(o)' <=> Arming(o))
      BY <2>2, <2>3, <2>8 DEF SeekEnds
    <3> QED
      BY <1>2, <2>1, <2>8, <3>1 DEF SeekEnds, Chain, FreeStrand
  <2>9. CASE SwitchRepositions \/ FastGuard \/ FastRead
    <3>1. (Fresh(o)' <=> Fresh(o)) /\ (Arming(o)' <=> Arming(o))
      BY <2>9, Settled DEF SwitchRepositions, FastGuard, FastRead, clientVars
    <3> QED
      BY <1>2, <2>1, <2>9, <3>1 DEF SwitchRepositions, FastGuard, FastRead, Chain
  <2>12. CASE SwitchThrows
    <3>1. (Fresh(o)' => Fresh(o)) /\ (Arming(o)' <=> Arming(o))
      BY <2>3, <2>12 DEF SwitchThrows
    <3> QED
      BY <1>2, <2>1, <2>12, <3>1 DEF SwitchThrows, Chain, FreeStrand
  <2>10. CASE SwitchEnds
    <3>0. PICK i \in 1 .. MaxSwitches : i = switches
      BY <1>1, <2>10, MediaAssumption DEF SwitchEnds, Shape, Types, Holders, RequestSteps
    <3> DEFINE t == <<"cam", i>>
    <3>1. /\ onStrand = Request /\ request \in {"switch", "switchBoth"}
          /\ running' = [running EXCEPT ![t] = TRUE]
          /\ wait' = [wait EXCEPT ![t] = "armed"]
          /\ request' = "none" /\ onStrand' = Nobody /\ UNCHANGED <<playPc, switches>>
      BY <1>1, <2>10, <3>0 DEF SwitchEnds, Shape, Types, Holders, FreeStrand, RequestSteps
    <3>2. t \in Tasks /\ Fresh(t)
      BY <3>0, <3>1, TaskForms DEF Fresh
    <3>3. ~Fresh(t)' /\ ~Arming(t)'
      BY <3>0, <3>1, TaskForms DEF Fresh, Arming
    <3>4. (Fresh(o)' => Fresh(o)) /\ (Arming(o)' <=> Arming(o))
      BY <2>3, <3>1
    <3> HIDE DEF t
    <3>5. CASE o = t
      <4>1. running'[o] /\ wait'[o] = "armed"
        BY <1>1, <3>1, <3>2, <3>5
      <4>2. late[o] = 0
        BY <2>1, <3>2, <3>5 DEF Chain
      <4> QED
        BY <1>2, <2>1, <3>1, <3>3, <3>5, <4>1, <4>2 DEF Chain
    <3>6. CASE o # t
      <4>1. running'[o] = running[o] /\ wait'[o] = wait[o]
        BY <1>1, <3>1, <3>6
      <4> QED
        BY <1>2, <2>1, <3>1, <3>4, <4>1 DEF Chain
    <3> QED
      BY <3>5, <3>6
  <2>11. CASE Pause \/ Resume
    <3>1. (Fresh(o)' <=> Fresh(o)) /\ (Arming(o)' <=> Arming(o))
      BY <2>11, Settled DEF Pause, Resume
    <3> QED
      BY <1>2, <2>1, <2>11, <3>1 DEF Pause, Resume, Chain, taskVars
  <2> QED
    BY <2>4, <2>5, <2>6, <2>7, <2>8, <2>9, <2>10, <2>11, <2>12 DEF Requests
<1> QED
  BY <1>2, <1>3 DEF Chains

\* onPlayStart starts tasks that were never started.
LEMMA PlayStartChain ==
  ASSUME Shape, Chains, NEW p \in Plays, onPlayStart(p)
  PROVE  Chains'
<1> DEFINE v == <<"video", p>>
           a == <<"audio", p>>
<1>1. /\ wait \in [Tasks -> {"none", "armed", "due", "aborted"}]
      /\ running \in [Tasks -> BOOLEAN]
      /\ playPc \in [Plays -> PlayStates]
      /\ v \in Tasks /\ a \in Tasks
  BY TaskForms DEF Shape, Types, TaskTypeOK
<1>2. UNCHANGED <<late, onStrand, step, switches, request>>
  BY DEF onPlayStart, PlayStep, SetRunning, ArmTimer, clientVars
<1>3. /\ Fresh(v) <=> playPc[p] \in {"unused", "delayed"}
      /\ Arming(v) <=> playPc[p] = "videoTimer"
      /\ Fresh(a) <=> playPc[p] \in {"unused", "delayed", "videoTimer", "audioFlag"}
      /\ Arming(a) <=> playPc[p] = "audioTimer"
  BY TaskForms DEF Fresh, Arming
<1>4. /\ Fresh(v)' <=> playPc'[p] \in {"unused", "delayed"}
      /\ Arming(v)' <=> playPc'[p] = "videoTimer"
      /\ Fresh(a)' <=> playPc'[p] \in {"unused", "delayed", "videoTimer", "audioFlag"}
      /\ Arming(a)' <=> playPc'[p] = "audioTimer"
  BY TaskForms DEF Fresh, Arming
<1>5. ASSUME NEW o \in Tasks PROVE Chain(o)'
  <2>1. Chain(o)
    BY DEF Chains
  <2>2. CASE o # v /\ o # a
    <3>1. \A q \in Plays : q # p => playPc'[q] = playPc[q]
      BY <1>1 DEF onPlayStart, PlayStep
    <3>2. (Fresh(o)' <=> Fresh(o)) /\ (Arming(o)' <=> Arming(o))
      BY <1>2, <2>2, <3>1 DEF Fresh, Arming
    <3>3. running'[o] = running[o] /\ wait'[o] = wait[o]
      BY <1>1, <2>2 DEF onPlayStart, SetRunning, ArmTimer
    <3> QED
      BY <1>2, <2>1, <3>2, <3>3 DEF Chain
  <2>3. CASE o = v
    <3> HIDE DEF v, a
    <3>1. CASE playPc[p] = "delayed" /\ playPc'[p] = "videoTimer"
               /\ running' = [running EXCEPT ![v] = TRUE] /\ UNCHANGED wait
      BY <1>1, <1>2, <1>3, <1>4, <2>1, <2>3, <3>1 DEF Chain
    <3>2. CASE playPc[p] = "videoTimer" /\ playPc'[p] = "audioFlag"
               /\ wait' = [wait EXCEPT ![v] = "armed"] /\ UNCHANGED running
      BY <1>1, <1>2, <1>3, <1>4, <2>1, <2>3, <3>2 DEF Chain
    <3>3. CASE playPc[p] \in {"audioFlag", "audioTimer"} /\ playPc'[p] \in {"audioTimer", "done"}
               /\ running'[v] = running[v] /\ wait'[v] = wait[v]
      BY <1>1, <1>2, <1>3, <1>4, <2>1, <2>3, <3>3 DEF Chain
    <3>4. v # a
      BY TaskForms DEF v, a
    <3> QED
      BY <1>1, <3>1, <3>2, <3>3, <3>4 DEF onPlayStart, PlayStep, SetRunning, ArmTimer, v, a
  <2>4. CASE o = a
    <3> HIDE DEF v, a
    <3>1. CASE playPc[p] = "audioFlag" /\ playPc'[p] = "audioTimer"
               /\ running' = [running EXCEPT ![a] = TRUE] /\ UNCHANGED wait
      BY <1>1, <1>2, <1>3, <1>4, <2>1, <2>4, <3>1 DEF Chain
    <3>2. CASE playPc[p] = "audioTimer" /\ playPc'[p] = "done"
               /\ wait' = [wait EXCEPT ![a] = "armed"] /\ UNCHANGED running
      BY <1>1, <1>2, <1>3, <1>4, <2>1, <2>4, <3>2 DEF Chain
    <3>3. CASE playPc[p] \in {"delayed", "videoTimer"} /\ playPc'[p] \in {"videoTimer", "audioFlag"}
               /\ running'[a] = running[a] /\ wait'[a] = wait[a]
      BY <1>1, <1>2, <1>3, <1>4, <2>1, <2>4, <3>3 DEF Chain
    <3>4. v # a
      BY TaskForms DEF v, a
    <3> QED
      BY <1>1, <3>1, <3>2, <3>3, <3>4 DEF onPlayStart, PlayStep, SetRunning, ArmTimer, v, a
  <2> QED
    BY <2>2, <2>3, <2>4
<1> QED
  BY <1>2, <1>5 DEF Chains

LEMMA ChainStep == Shape /\ PlayOrder /\ Chains /\ [Next]_vars => Chains'
<1> SUFFICES ASSUME Shape, PlayOrder, Chains, [Next]_vars PROVE Chains'
  OBVIOUS
<1>1. CASE TdFlag \/ closeSocket \/ UNCHANGED vars
  <2>1. UNCHANGED <<running, wait, onStrand, step, late, playPc, switches, request>>
    BY <1>1 DEF TdFlag, closeSocket, vars, taskVars, clientVars
  <2>2. ASSUME NEW o \in Tasks PROVE Chain(o)'
    <3>1. (Fresh(o)' <=> Fresh(o)) /\ (Arming(o)' <=> Arming(o))
      BY <2>1, Settled
    <3> QED
      BY <2>1, <3>1 DEF Chains, Chain
  <2> QED
    BY <2>1, <2>2 DEF Chains
<1>2. CASE stopAllPeriodicTasks
  <2>1. UNCHANGED <<onStrand, step, late, playPc, switches, request>>
    BY <1>2 DEF stopAllPeriodicTasks, clientVars
  <2>2. PICK S : StopTasks(S)
    BY <1>2 DEF stopAllPeriodicTasks
  <2>3. ASSUME NEW o \in Tasks PROVE Chain(o)'
    <3>1. (Fresh(o)' <=> Fresh(o)) /\ (Arming(o)' <=> Arming(o))
      BY <2>1, Settled
    <3> QED
      BY <2>1, <2>2, <3>1, StopChain
  <2> QED
    BY <2>1, <2>3 DEF Chains
<1> QED
  BY <1>1, <1>2, TaskChain, RequestChain, PlayStartChain DEF Next

-----------------------------------------------------------------------------
(* Reads after a teardown *)

\* A reader that had passed its guard before isToreDown was set has the strand.
LateReads ==
  /\ lateReads \in 0 .. 1
  /\ ~isToreDown => lateReads = 0
  /\ step \in {"read", "fastRead"} => lateReads = 0

LEMMA LateReadsStep == Shape /\ LateReads /\ [Next]_vars => LateReads'
<1> SUFFICES ASSUME Shape, LateReads, [Next]_vars PROVE LateReads'
  OBVIOUS
<1> USE HolderAssumption DEF LateReads
<1>1. CASE UNCHANGED vars
  BY <1>1 DEF vars, taskVars, tdVars
<1>2. ASSUME NEW t \in Tasks, TaskReads(t) PROVE LateReads'
  BY <1>2 DEF TaskReads, NextSample, tdVars
<1>3. ASSUME NEW t \in Tasks, TaskPasses(t) PROVE LateReads'
  BY <1>3 DEF TaskPasses, MayRead, tdVars
<1>4. ASSUME NEW t \in Tasks, \/ TimerFires(t) \/ HandlerRuns(t) \/ HandlerEnds(t)
                              \/ HandlerIsAborted(t) \/ TaskSkips(t)
      PROVE  LateReads'
  BY <1>4 DEF TimerFires, TimerExpires, HandlerRuns, HandlerBegins, HandlerEnds, HandlerChecks,
              HandlerRearms, HandlerIsAborted, HandlerAborted, TaskSkips, Elsewhere, FreeStrand,
              tdVars
<1>5. CASE FastRead
  BY <1>5 DEF FastRead, NextSample, tdVars
<1>10. CASE SwitchThrows
  BY <1>10 DEF SwitchThrows, NextSample, FreeStrand, tdVars
<1>6. CASE FastGuard
  BY <1>6 DEF FastGuard, MayRead, tdVars
<1>7. CASE \/ InitialPlay \/ SeekBegins \/ SwitchBegins \/ StopAudio \/ SeekEnds
           \/ SwitchRepositions \/ SwitchEnds \/ Pause \/ Resume
  BY <1>7 DEF InitialPlay, SeekBegins, SwitchBegins, StopAudio, SeekEnds, SwitchRepositions,
              SwitchEnds, Pause, Resume, FreeStrand, taskVars, tdVars
<1>8. ASSUME NEW p \in Plays, onPlayStart(p) PROVE LateReads'
  BY <1>8 DEF onPlayStart, PlayStep, SetRunning, ArmTimer, tdVars
<1>9. CASE TdFlag \/ stopAllPeriodicTasks \/ closeSocket
  BY <1>9 DEF TdFlag, stopAllPeriodicTasks, closeSocket, taskVars
<1> QED
  BY <1>1, <1>2, <1>3, <1>4, <1>5, <1>6, <1>7, <1>8, <1>9, <1>10 DEF Next, Requests

-----------------------------------------------------------------------------
(* One reader per stream *)

Sole(S) == \A t, u \in S : running[t] /\ running[u] => t = u
Silent(S) == \A t \in S : ~running[t]

\* Unless requests overlapped, at most one play is about to start, after the
\* readers that it replaces were stopped; a request that moves the cursors finds
\* no play about to start and no video reader.  Nothing reads before the first
\* play or switch.
Readers ==
  /\ Used = {} /\ switches = 0 => Silent(Tasks)
  /\ ~overlapped =>
       /\ \A p, q \in Starting : p = q
       /\ \A p \in Starting : /\ playPc[p] = "delayed" => Silent(VideoTasks)
                              /\ playPc[p] # "audioTimer" => Silent(AudioTasks)
       /\ request # "none" => Starting = {} /\ Silent(VideoTasks)
       /\ request = "seek" /\ step = "reposition" => Silent(AudioTasks)
       /\ Sole(VideoTasks) /\ Sole(AudioTasks)

LEMMA TaskKinds ==
  /\ Tasks = VideoTasks \cup AudioTasks
  /\ VideoTasks \cap AudioTasks = {}
  /\ \A p \in Plays : <<"video", p>> \in VideoTasks /\ <<"audio", p>> \in AudioTasks
  /\ \A i \in 1 .. MaxSwitches : <<"cam", i>> \in VideoTasks
<1>1. Tasks = VideoTasks \cup AudioTasks
  BY DEF Tasks
<1>2. VideoTasks \cap AudioTasks = {}
  BY DEF VideoTasks, AudioTasks
<1>3. \A p \in Plays : <<"video", p>> \in VideoTasks /\ <<"audio", p>> \in AudioTasks
  BY DEF VideoTasks, AudioTasks
<1>4. \A i \in 1 .. MaxSwitches : <<"cam", i>> \in VideoTasks
  BY DEF VideoTasks
<1> QED
  BY <1>1, <1>2, <1>3, <1>4

\* A step that starts no task and moves no play keeps the readers.
LEMMA NoMoreReaders ==
  ASSUME Shape, Readers, UNCHANGED <<playPc, switches, overlapped>>,
         request' \in {request, "none"},
         \A t \in Tasks : running'[t] => running[t],
         request = "seek" /\ step' = "reposition" => step = "reposition"
  PROVE  Readers'
<1>1. Used' = Used /\ Starting' = Starting
  BY DEF Used, Starting
<1>2. \A S \in {Tasks, VideoTasks, AudioTasks} : S \subseteq Tasks
  BY TaskKinds
<1>3. \A t \in VideoTasks \cup AudioTasks : running'[t] => running[t]
  BY TaskKinds
<1> QED
  BY <1>1, <1>2, <1>3 DEF Readers, Sole, Silent

\* Stopping leaves silence.
LEMMA StopSilence ==
  ASSUME NEW S, StopTasks(S), S \subseteq Tasks
  PROVE  /\ \A t \in Tasks : running'[t] => running[t]
         /\ Silent(S)'
BY DEF StopTasks, Silent

LEMMA PlayReaders ==
  ASSUME Shape, PlayOrder, Readers, InitialPlay \/ SeekEnds
  PROVE  Readers'
<1>1. playPc \in [Plays -> PlayStates] /\ UNCHANGED running
  BY DEF Shape, Types, InitialPlay, SeekEnds, taskVars
<1>2. CASE InitialPlay
  <2>1. /\ playPc' = [playPc EXCEPT ![NextPlay] = "delayed"]
        /\ NextPlay \in Plays
        /\ overlapped' = (overlapped \/ Used # {} \/ switches > 0)
        /\ UNCHANGED <<request, step, switches>>
    BY <1>2 DEF InitialPlay, taskVars
  <2>2. NextPlay \in Used'
    BY <1>1, <2>1 DEF Used
  <2>3. request = "none"
    BY <1>2, HolderAssumption DEF InitialPlay, RequestArrives, StrandFree, Shape, Holders
  <2>4. ASSUME ~overlapped'
        PROVE  Silent(Tasks)' /\ \A p \in Starting' : p = NextPlay
    <3>0. Used = {} /\ ~(switches > 0) /\ ~overlapped
      BY <2>1, <2>4, Zenon
    <3>1. Used = {} /\ switches = 0 /\ ~overlapped
      BY <3>0, MediaAssumption DEF Shape, Types
    <3> QED
      BY <1>1, <2>1, <3>1 DEF Readers, Silent, Used, Starting
  <2>5. ASSUME ~overlapped'
        PROVE  /\ Silent(VideoTasks)' /\ Silent(AudioTasks)'
               /\ Sole(VideoTasks)' /\ Sole(AudioTasks)'
    BY <2>4, <2>5, TaskKinds DEF Silent, Sole
  <2> QED
    BY <2>1, <2>2, <2>3, <2>4, <2>5 DEF Readers
<1>3. CASE SeekEnds
  <2>1. /\ request = "seek" /\ step = "reposition"
        /\ request' = "none" /\ UNCHANGED <<overlapped, switches>>
        /\ playPc' = [playPc EXCEPT ![NextPlay] = "delayed"] \/ playPc' = playPc
    BY <1>3 DEF SeekEnds
  <2>2. Used' = {} => Used = {}
    BY <1>1, <2>1 DEF Used
  <2>4. Silent(Tasks) => Silent(Tasks)'
    BY <1>1 DEF Silent
  <2>3. ASSUME ~overlapped
        PROVE  /\ Silent(VideoTasks)' /\ Silent(AudioTasks)'
               /\ Sole(VideoTasks)' /\ Sole(AudioTasks)'
               /\ \A p \in Starting' : p = NextPlay
    <3>1. Starting = {} /\ Silent(VideoTasks) /\ Silent(AudioTasks)
      BY <2>1, <2>3 DEF Readers
    <3>2. \A p \in Starting' : p = NextPlay
      BY <1>1, <2>1, <3>1 DEF Starting, Used
    <3> QED
      BY <1>1, <3>1, <3>2 DEF Silent, Sole
  <2> QED
    BY <2>1, <2>2, <2>3, <2>4 DEF Readers
<1> QED
  BY <1>2, <1>3

LEMMA StopReaders ==
  ASSUME Shape, Readers, SeekBegins \/ SwitchBegins \/ StopAudio
  PROVE  Readers'
<1>1. CASE SeekBegins \/ SwitchBegins
  <2>1. /\ StopTasks(VideoTasks)
        /\ switches' = 0 => switches = 0
        /\ overlapped' = (overlapped \/ Starting # {})
        /\ UNCHANGED playPc
        /\ request' = "seek" => step' # "reposition"
    BY <1>1 DEF SeekBegins, SwitchBegins, StopVideo, Shape, Types
  <2>2. (\A t \in Tasks : running'[t] => running[t]) /\ Silent(VideoTasks)'
    BY <2>1, TaskKinds, StopSilence
  <2>3. Used' = Used /\ Starting' = Starting
    BY <2>1 DEF Used, Starting
  <2>4. Sole(AudioTasks) => Sole(AudioTasks)'
    BY <2>2, TaskKinds DEF Sole
  <2>5. Sole(VideoTasks)'
    BY <2>2 DEF Sole, Silent
  <2>6. Silent(Tasks) => Silent(Tasks)'
    BY <2>2 DEF Silent
  <2> QED
    BY <2>1, <2>2, <2>3, <2>4, <2>5, <2>6 DEF Readers
<1>2. CASE StopAudio
  <2>1. StopTasks(AudioTasks) /\ UNCHANGED <<playPc, switches, request, overlapped>>
    BY <1>2 DEF StopAudio, clientVars
  <2>2. (\A t \in Tasks : running'[t] => running[t]) /\ Silent(AudioTasks)'
    BY <2>1, TaskKinds, StopSilence
  <2>3. Used' = Used /\ Starting' = Starting
    BY <2>1 DEF Used, Starting
  <2>4. \A S \in {Tasks, VideoTasks, AudioTasks} :
          (Sole(S) => Sole(S)') /\ (Silent(S) => Silent(S)')
    BY <2>2, TaskKinds DEF Sole, Silent
  <2> QED
    BY <2>1, <2>2, <2>3, <2>4 DEF Readers
<1> QED
  BY <1>1, <1>2

LEMMA SwitchReaders ==
  ASSUME Shape, Readers, SwitchEnds
  PROVE  Readers'
<1>1. PICK i \in 1 .. MaxSwitches : i = switches
  BY MediaAssumption DEF SwitchEnds, Shape, Types, Holders, RequestSteps
<1> DEFINE t == <<"cam", i>>
<1>2. /\ request # "none" /\ request' = "none"
      /\ running' = [running EXCEPT ![t] = TRUE]
      /\ UNCHANGED <<playPc, switches, overlapped>>
  BY <1>1 DEF SwitchEnds, Shape, Holders
<1>3. running \in [Tasks -> BOOLEAN] /\ t \in VideoTasks /\ t \notin AudioTasks
  BY TaskKinds DEF Shape, Types, TaskTypeOK
<1> HIDE DEF t
<1>4. \A u \in Tasks : u # t => running'[u] = running[u]
  BY <1>2, <1>3
<1>5. switches' # 0 /\ Used' = Used /\ Starting' = Starting
  BY <1>1, <1>2 DEF Used, Starting
<1>6. ASSUME ~overlapped
      PROVE  Starting = {} /\ Sole(VideoTasks)' /\ Sole(AudioTasks)'
  <2>1. Starting = {} /\ Silent(VideoTasks) /\ Sole(AudioTasks)
    BY <1>2, <1>6 DEF Readers
  <2>2. Sole(VideoTasks)'
    BY <1>4, <2>1, TaskKinds DEF Sole, Silent
  <2>3. Sole(AudioTasks)'
    BY <1>3, <1>4, <2>1, TaskKinds DEF Sole
  <2> QED
    BY <2>1, <2>2, <2>3
<1> QED
  BY <1>2, <1>5, <1>6 DEF Readers

LEMMA StartReaders ==
  ASSUME Shape, Readers, NEW p \in Plays, onPlayStart(p)
  PROVE  Readers'
<1> DEFINE v == <<"video", p>>
           a == <<"audio", p>>
<1>1. /\ running \in [Tasks -> BOOLEAN] /\ playPc \in [Plays -> PlayStates]
      /\ v \in VideoTasks /\ a \in AudioTasks /\ v \notin AudioTasks /\ a \notin VideoTasks
  BY TaskKinds DEF Shape, Types, TaskTypeOK
<1>2. UNCHANGED <<request, step, overlapped>> /\ p \in Starting /\ Used # {}
  BY DEF onPlayStart, PlayStep, SetRunning, ArmTimer, clientVars, Starting, Used
<1>3. /\ Used' = Used
      /\ Starting' \subseteq Starting
      /\ \A q \in Plays : q # p => playPc'[q] = playPc[q]
  BY <1>1 DEF onPlayStart, PlayStep, Starting, Used
<1> HIDE DEF v, a
<1>4. CASE playPc[p] = "delayed" /\ playPc'[p] = "videoTimer" /\ running' = [running EXCEPT ![v] = TRUE]
  <2>1. \A u \in Tasks : u # v => running'[u] = running[u]
    BY <1>1, <1>4
  <2>2. ASSUME ~overlapped
        PROVE  Sole(VideoTasks)' /\ Sole(AudioTasks)' /\ Silent(AudioTasks)' /\ request = "none"
    <3>1. Silent(VideoTasks) /\ Silent(AudioTasks) /\ request = "none"
      BY <1>2, <1>4, <2>2 DEF Readers
    <3> QED
      BY <1>1, <2>1, <3>1, TaskKinds DEF Sole, Silent
  <2> QED
    BY <1>2, <1>3, <1>4, <2>2 DEF Readers
<1>5. CASE playPc[p] = "videoTimer" /\ playPc'[p] = "audioFlag" /\ UNCHANGED running
  BY <1>2, <1>3, <1>5 DEF Readers, Sole, Silent
<1>6. CASE playPc[p] = "audioFlag" /\ playPc'[p] = "audioTimer" /\ running' = [running EXCEPT ![a] = TRUE]
  <2>1. \A u \in Tasks : u # a => running'[u] = running[u]
    BY <1>1, <1>6
  <2>2. ASSUME ~overlapped
        PROVE  Sole(VideoTasks)' /\ Sole(AudioTasks)' /\ request = "none"
    <3>1. Sole(VideoTasks) /\ Silent(AudioTasks) /\ request = "none"
      BY <1>2, <1>6, <2>2 DEF Readers
    <3> QED
      BY <1>1, <2>1, <3>1, TaskKinds DEF Sole, Silent
  <2> QED
    BY <1>2, <1>3, <1>6, <2>2 DEF Readers
<1>7. CASE playPc[p] = "audioTimer" /\ playPc'[p] = "done" /\ UNCHANGED running
  <2>1. p \notin Starting'
    BY <1>7 DEF Starting
  <2> QED
    BY <1>2, <1>3, <1>7, <2>1 DEF Readers, Sole, Silent
<1> QED
  BY <1>1, <1>4, <1>5, <1>6, <1>7 DEF onPlayStart, PlayStep, SetRunning, ArmTimer, v, a

LEMMA ReadersStep == Shape /\ PlayOrder /\ Readers /\ [Next]_vars => Readers'
<1> SUFFICES ASSUME Shape, PlayOrder, Readers, [Next]_vars PROVE Readers'
  OBVIOUS
<1>1. CASE UNCHANGED vars
  BY <1>1, NoMoreReaders DEF vars, taskVars, clientVars
<1>2. ASSUME NEW t \in Tasks,
             \/ TimerFires(t) \/ HandlerRuns(t) \/ HandlerEnds(t) \/ HandlerIsAborted(t)
             \/ TaskPasses(t) \/ TaskSkips(t) \/ TaskReads(t)
      PROVE  Readers'
  <2>1. UNCHANGED <<running, playPc, switches, request, overlapped>>
    BY <1>2 DEF TimerFires, TimerExpires, HandlerRuns, HandlerBegins, HandlerEnds, HandlerChecks,
                HandlerRearms, HandlerIsAborted, HandlerAborted, TaskPasses, TaskSkips, TaskReads,
                Elsewhere, clientVars
  <2>2. request = "seek" /\ step' = "reposition" => step = "reposition"
    <3>1. CASE onStrand = t
      BY <3>1, HolderAssumption DEF Shape, Holders
    <3>2. CASE onStrand # t
      BY <1>2, <3>2, HolderAssumption DEF TimerFires, TimerExpires, HandlerRuns, HandlerBegins, HandlerEnds,
         HandlerChecks, HandlerRearms, HandlerIsAborted, HandlerAborted, TaskPasses, TaskSkips,
         TaskReads
    <3> QED
      BY <3>1, <3>2
  <2> QED
    BY <2>1, <2>2, NoMoreReaders
<1>3. CASE SwitchRepositions \/ FastGuard \/ FastRead \/ Pause \/ Resume
  BY <1>3, NoMoreReaders DEF SwitchRepositions, FastGuard, FastRead, Pause, Resume, taskVars, clientVars
<1>6. CASE SwitchThrows
  BY <1>6, HolderAssumption, NoMoreReaders DEF SwitchThrows, FreeStrand
<1>4. CASE TdFlag \/ closeSocket
  BY <1>4, NoMoreReaders DEF TdFlag, closeSocket, taskVars, clientVars
<1>5. CASE stopAllPeriodicTasks
  <2>1. PICK S : StopTasks(S) /\ S \subseteq Tasks
    BY <1>5, TaskKinds DEF stopAllPeriodicTasks
  <2>2. \A t \in Tasks : running'[t] => running[t]
    BY <2>1, StopSilence
  <2> QED
    BY <1>5, <2>2, NoMoreReaders DEF stopAllPeriodicTasks, clientVars
<1> QED
  BY <1>1, <1>2, <1>3, <1>4, <1>5, <1>6, PlayReaders, StopReaders, SwitchReaders, StartReaders
     DEF Next, Requests

-----------------------------------------------------------------------------
(* Rest is for good *)

\* t was started once, was stopped, and nothing of it is left.
AtRest(t) == ~running[t] /\ Quiet(t) /\ ~Fresh(t) /\ ~Arming(t)

RestIsFinal == [][\A t \in Tasks : AtRest(t) => AtRest(t)']_vars

\* What does not start a task and does not give it the strand leaves it at rest.
LEMMA RestKept ==
  ASSUME Shape, NEW o \in Tasks, AtRest(o),
         ~Fresh(o)' /\ ~Arming(o)', onStrand' # o,
         \/ UNCHANGED <<running, wait>>
         \/ \E S : StopTasks(S)
         \/ \E u \in Tasks, w \in {"none", "armed", "due", "aborted"} :
              /\ u # o
              /\ wait' = [wait EXCEPT ![u] = w]
              /\ \/ UNCHANGED running
                 \/ running' = [running EXCEPT ![u] = TRUE]
         \/ \E u \in Tasks : u # o /\ running' = [running EXCEPT ![u] = TRUE] /\ UNCHANGED wait
  PROVE  AtRest(o)'
<1>1. /\ wait \in [Tasks -> {"none", "armed", "due", "aborted"}]
      /\ running \in [Tasks -> BOOLEAN]
  BY DEF Shape, Types, TaskTypeOK
<1>2. ~running[o] /\ wait[o] = "none"
  BY DEF AtRest, Quiet
<1>3. ~running'[o] /\ wait'[o] = "none"
  <2>1. CASE \E S : StopTasks(S)
    BY <1>1, <1>2, <2>1 DEF StopTasks
  <2>2. CASE ~\E S : StopTasks(S)
    BY <1>1, <1>2, <2>2
  <2> QED
    BY <2>1, <2>2
<1> QED
  BY <1>3 DEF AtRest, Quiet

LEMMA RestStep ==
  ASSUME Shape, PlayOrder, [Next]_vars, NEW o \in Tasks, AtRest(o)
  PROVE  AtRest(o)'
<1>1. /\ wait \in [Tasks -> {"none", "armed", "due", "aborted"}]
      /\ running \in [Tasks -> BOOLEAN]
      /\ playPc \in [Plays -> PlayStates]
      /\ switches \in 0 .. MaxSwitches
      /\ o # Nobody /\ o # Request
      /\ wait[o] = "none" /\ onStrand # o /\ ~Fresh(o) /\ ~Arming(o)
  BY HolderAssumption DEF Shape, Types, TaskTypeOK, AtRest, Quiet
<1>2. ASSUME UNCHANGED <<playPc, switches, request>>
      PROVE  ~Fresh(o)' /\ ~Arming(o)'
  BY <1>1, <1>2, Settled
<1>3. ASSUME NEW t \in Tasks,
             \/ TimerFires(t) \/ HandlerRuns(t) \/ HandlerEnds(t) \/ HandlerIsAborted(t)
             \/ TaskPasses(t) \/ TaskSkips(t) \/ TaskReads(t)
      PROVE  AtRest(o)'
  <2>1. ~Fresh(o)' /\ ~Arming(o)'
    BY <1>2, <1>3 DEF TimerFires, HandlerRuns, HandlerEnds, HandlerIsAborted, TaskPasses,
                      TaskSkips, TaskReads, Elsewhere, clientVars
  <2>2. t # o
    BY <1>1, <1>3 DEF TimerFires, TimerExpires, HandlerRuns, HandlerBegins, HandlerEnds,
                      HandlerChecks, HandlerRearms, HandlerIsAborted, HandlerAborted,
                      TaskPasses, TaskSkips, TaskReads
  <2>3. onStrand' # o
    BY <1>1, <1>3, <2>2 DEF TimerFires, TimerExpires, HandlerRuns, HandlerBegins, HandlerEnds,
                            HandlerChecks, HandlerRearms, HandlerIsAborted, HandlerAborted,
                            TaskPasses, TaskSkips, TaskReads, FreeStrand, taskVars
  <2>4. \/ UNCHANGED <<running, wait>>
        \/ \E w \in {"none", "armed", "due", "aborted"} :
              wait' = [wait EXCEPT ![t] = w] /\ UNCHANGED running
    BY <1>3 DEF TimerFires, TimerExpires, HandlerRuns, HandlerBegins, HandlerEnds,
                HandlerChecks, HandlerRearms, HandlerIsAborted, HandlerAborted,
                TaskPasses, TaskSkips, TaskReads
  <2> QED
    BY <2>1, <2>2, <2>3, <2>4, RestKept
<1>4. CASE InitialPlay \/ SeekEnds
  <2>1. request' \notin {"switch", "switchBoth"} /\ UNCHANGED switches
    BY <1>4, HolderAssumption
       DEF InitialPlay, SeekEnds, RequestArrives, StrandFree, Shape, Holders
  <2>2. playPc' = [playPc EXCEPT ![NextPlay] = "delayed"] \/ UNCHANGED playPc
    BY <1>4 DEF InitialPlay, SeekEnds
  <2>3. ~Fresh(o)' /\ ~Arming(o)'
    BY <1>1, <2>1, <2>2, NextPlayUnused DEF Fresh, Arming
  <2>4. onStrand' # o /\ UNCHANGED <<running, wait>>
    BY <1>1, <1>4 DEF InitialPlay, SeekEnds, FreeStrand, taskVars
  <2> QED
    BY <2>3, <2>4, RestKept
<1>5. CASE SeekBegins \/ SwitchBegins \/ StopAudio
  <2>1. onStrand' # o /\ \E S : StopTasks(S)
    BY <1>1, <1>5 DEF SeekBegins, SwitchBegins, StopAudio, StopVideo
  <2>2. ~Fresh(o)' /\ ~Arming(o)'
    BY <1>1, <1>5, MediaAssumption DEF SeekBegins, SwitchBegins, StopAudio, clientVars, Fresh, Arming
  <2> QED
    BY <2>1, <2>2, RestKept
<1>6. CASE SwitchRepositions \/ FastGuard \/ FastRead \/ Pause \/ Resume
  <2>1. UNCHANGED <<playPc, switches, request, running, wait, onStrand>>
    BY <1>6 DEF SwitchRepositions, FastGuard, FastRead, Pause, Resume, taskVars, clientVars
  <2> QED
    BY <1>1, <1>2, <2>1, RestKept
<1>11. CASE SwitchThrows
  <2>1. /\ UNCHANGED <<playPc, switches, running, wait>>
        /\ request' = "none" /\ onStrand' = Nobody
    BY <1>11 DEF SwitchThrows, FreeStrand
  <2>2. ~Fresh(o)' /\ ~Arming(o)'
    BY <1>1, <2>1 DEF Fresh, Arming
  <2> QED
    BY <1>1, <2>1, <2>2, RestKept
<1>7. CASE SwitchEnds
  <2>1. PICK i \in 1 .. MaxSwitches : i = switches
    BY <1>1, <1>7, MediaAssumption DEF SwitchEnds, Shape, Types, Holders, RequestSteps
  <2> DEFINE u == <<"cam", i>>
  <2>2. /\ request \in {"switch", "switchBoth"} /\ request' = "none"
        /\ running' = [running EXCEPT ![u] = TRUE]
        /\ wait' = [wait EXCEPT ![u] = "armed"]
        /\ onStrand' = Nobody /\ UNCHANGED <<playPc, switches>>
    BY <1>1, <1>7, <2>1 DEF SwitchEnds, Shape, Types, Holders, FreeStrand, RequestSteps
  <2>3. u \in Tasks /\ Fresh(u)
    BY <2>1, <2>2, TaskForms DEF Fresh
  <2>4. ~Fresh(o)' /\ ~Arming(o)'
    BY <1>1, <2>2 DEF Fresh, Arming
  <2> HIDE DEF u
  <2>5. u # o
    BY <1>1, <2>3
  <2> QED
    BY <1>1, <2>2, <2>3, <2>4, <2>5, RestKept
<1>8. ASSUME NEW p \in Plays, onPlayStart(p)
      PROVE  AtRest(o)'
  <2> DEFINE v == <<"video", p>>
             a == <<"audio", p>>
  <2>1. v \in Tasks /\ a \in Tasks
    BY TaskForms
  <2>2. /\ Fresh(v) <=> playPc[p] \in {"unused", "delayed"}
        /\ Arming(v) <=> playPc[p] = "videoTimer"
        /\ Fresh(a) <=> playPc[p] \in {"unused", "delayed", "videoTimer", "audioFlag"}
        /\ Arming(a) <=> playPc[p] = "audioTimer"
    BY TaskForms DEF Fresh, Arming
  <2>3. UNCHANGED <<onStrand, switches, request>>
    BY <1>8 DEF onPlayStart, PlayStep, SetRunning, ArmTimer, clientVars
  <2>4. ~Fresh(o)' /\ ~Arming(o)'
    <3>1. \A q \in Plays : playPc'[q] = playPc[q] \/ q = p
      BY <1>1, <1>8 DEF onPlayStart, PlayStep
    <3>2. CASE playPc[p] = "delayed" /\ playPc'[p] = "videoTimer"
      BY <1>1, <2>3, <3>1, <3>2 DEF Fresh, Arming
    <3>3. CASE playPc[p] = "videoTimer" /\ playPc'[p] = "audioFlag"
      BY <1>1, <2>3, <3>1, <3>3 DEF Fresh, Arming
    <3>4. CASE playPc[p] = "audioFlag" /\ playPc'[p] = "audioTimer"
      BY <1>1, <2>3, <3>1, <3>4 DEF Fresh, Arming
    <3>5. CASE playPc[p] = "audioTimer" /\ playPc'[p] = "done"
      BY <1>1, <2>3, <3>1, <3>5 DEF Fresh, Arming
    <3> QED
      BY <1>1, <1>8, <3>2, <3>3, <3>4, <3>5 DEF onPlayStart, PlayStep
  <2> HIDE DEF v, a
  <2>5. CASE playPc[p] \in {"delayed", "videoTimer"}
    <3>1. v # o
      BY <1>1, <2>2, <2>5
    <3>2. \/ running' = [running EXCEPT ![v] = TRUE] /\ UNCHANGED wait
          \/ wait' = [wait EXCEPT ![v] = "armed"] /\ UNCHANGED running
      BY <1>8, <2>5 DEF onPlayStart, PlayStep, SetRunning, ArmTimer, v
    <3> QED
      BY <1>1, <2>1, <2>3, <2>4, <3>1, <3>2, RestKept
  <2>6. CASE playPc[p] \in {"audioFlag", "audioTimer"}
    <3>1. a # o
      BY <1>1, <2>2, <2>6
    <3>2. \/ running' = [running EXCEPT ![a] = TRUE] /\ UNCHANGED wait
          \/ wait' = [wait EXCEPT ![a] = "armed"] /\ UNCHANGED running
      BY <1>8, <2>6 DEF onPlayStart, PlayStep, SetRunning, ArmTimer, a
    <3> QED
      BY <1>1, <2>1, <2>3, <2>4, <3>1, <3>2, RestKept
  <2> QED
    BY <1>8, <2>5, <2>6 DEF onPlayStart, PlayStep
<1>9. CASE stopAllPeriodicTasks
  <2>1. UNCHANGED <<playPc, switches, request, onStrand>> /\ \E S : StopTasks(S)
    BY <1>9 DEF stopAllPeriodicTasks, clientVars
  <2> QED
    BY <1>1, <1>2, <2>1, RestKept
<1>10. CASE TdFlag \/ closeSocket \/ UNCHANGED vars
  <2>1. UNCHANGED <<playPc, switches, request, running, wait, onStrand>>
    BY <1>10 DEF TdFlag, closeSocket, vars, taskVars, clientVars
  <2> QED
    BY <1>1, <1>2, <2>1, RestKept
<1> QED
  BY <1>3, <1>4, <1>5, <1>6, <1>7, <1>8, <1>9, <1>10, <1>11 DEF Next, Requests

-----------------------------------------------------------------------------
(* The theorems *)

IInv == Shape /\ PlayOrder /\ Chains /\ LateReads /\ Readers

LEMMA InitHolds == Init => IInv
<1> SUFFICES ASSUME Init PROVE IInv
  OBVIOUS
<1> USE MediaAssumption, HolderAssumption DEF Init, TaskInit
<1>1. Shape
  <2>1. running \in [Tasks -> BOOLEAN] /\ isPaused \in BOOLEAN /\ isToreDown \in BOOLEAN
        /\ overlapped \in BOOLEAN
    BY Zenon
  <2>2. switches \in 0 .. MaxSwitches /\ fastLeft \in 0 .. FastReads
    OBVIOUS
  <2>3. wait \in [Tasks -> {"none", "armed", "due", "aborted"}] /\ playPc \in [Plays -> PlayStates]
    BY DEF PlayStates
  <2>4. Holders
    BY DEF Holders, StrandFree
  <2> QED
    BY <2>1, <2>2, <2>3, <2>4 DEF Shape, Types, TaskTypeOK
<1>2. Used = {}
  BY DEF Used
<1>3. PlayOrder
  BY <1>2 DEF PlayOrder
<1>4. Chains
  <2>1. \A t \in Tasks : Chain(t)
    BY DEF Chain
  <2>2. late \in [Tasks -> 0 .. 2]
    OBVIOUS
  <2> QED
    BY <2>1, <2>2 DEF Chains
<1>5. LateReads
  BY DEF LateReads
<1>6. Readers
  BY <1>2, TaskKinds DEF Readers, Starting, Silent, Sole
<1> QED
  BY <1>1, <1>3, <1>4, <1>5, <1>6 DEF IInv

THEOREM Invariance == Spec => []IInv
<1>1. IInv /\ [Next]_vars => IInv'
  BY ShapeStep, PlayOrderStep, ChainStep, LateReadsStep, ReadersStep DEF IInv
<1> QED
  BY <1>1, InitHolds, PTL DEF Spec

\* Every variable has its type.
THEOREM TasksTyped == Spec => []TypeOK
<1>1. IInv => TypeOK
  <2> SUFFICES ASSUME IInv PROVE TypeOK
    OBVIOUS
  <2>1. Types /\ late \in [Tasks -> 0 .. 2] /\ lateReads \in Nat
    BY DEF IInv, Shape, Chains, LateReads
  <2> QED
    BY <2>1 DEF Types, TypeOK, PlayStates
<1> QED
  BY <1>1, Invariance, PTL

\* A running task's timer is armed or its handler queued or running, whatever
\* races with it (PeriodicTask::scheduleTask).
THEOREM NeverAsleep == Spec => []RunningIsScheduled
<1>1. IInv => RunningIsScheduled
  BY DEF IInv, Chains, Chain, RunningIsScheduled
<1> QED
  BY <1>1, Invariance, PTL

\* A stopped task fires at most once more (PeriodicTask::stop).
THEOREM OneLateFiring == Spec => []LateAtMostOnce
<1>1. IInv => LateAtMostOnce
  BY DEF IInv, Chains, Chain, LateAtMostOnce
<1> QED
  BY <1>1, Invariance, PTL

\* At most one sample is read after onTeardown has set isToreDown.
THEOREM OneLateRead == Spec => []LateReadAtMostOne
<1>1. IInv => LateReadAtMostOne
  BY DEF IInv, LateReads, LateReadAtMostOne
<1> QED
  BY <1>1, Invariance, PTL

\* Seeks and camera switches replace the readers of a stream, unless a PLAY is
\* repeated or comes behind a switch, or tasks are stopped while a play has yet to
\* start (Session::onPlayStart, onCameraChange; RtspHandler's PLAY).
THEOREM OneReader == Spec => []SoleReaders
<1>1. ASSUME NEW S, Sole(S)
      PROVE  Cardinality(Running(S)) <= 1
  <2>1. CASE Running(S) = {}
    BY <2>1, FS_EmptySet
  <2>2. CASE Running(S) # {}
    <3>1. PICK t : t \in Running(S)
      BY <2>2
    <3>2. Running(S) = {t}
      BY <1>1, <3>1 DEF Running, Sole
    <3> QED
      BY <3>2, FS_Singleton
  <2> QED
    BY <2>1, <2>2
<1>2. IInv => SoleReaders
  BY <1>1 DEF IInv, Readers, SoleReaders
<1> QED
  BY <1>2, Invariance, PTL

\* A stopped task that has come to rest stays there, whatever requests, plays and
\* handlers follow (PeriodicTask::stop, with the one start of each task).
THEOREM RestForGood == Spec => RestIsFinal
<1>1. IInv /\ [Next]_vars => [\A t \in Tasks : AtRest(t) => AtRest(t)']_vars
  BY RestStep DEF IInv
<1> QED
  BY <1>1, Invariance, PTL DEF Spec, RestIsFinal
=============================================================================
