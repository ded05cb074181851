------------------------ MODULE SessionLifecycle_proofs ------------------------
(***************************************************************************)
(* Theorems about SessionLifecycle for every number of onTeardown threads:   *)
(* its types, that a session has an owner until it is closed, that a client  *)
(* is watched until a teardown, and that sessions is left empty behind it.   *)
(***************************************************************************)
EXTENDS SessionLifecycle, TLAPS

USE DEF Tasks, Entries, StrandFree, FreeStrand, Alive

-----------------------------------------------------------------------------
(* Types *)

\* Among the threads only an unused one is given a delay.
LEMMA SpawnedType ==
  ASSUME TypeOK
  PROVE  /\ Spawned \in [Threads -> {"unused", "delayed", "timers", "socket", "record", "find",
                                     "copy", "erase", "insert", "done"}]
         /\ \A t \in Threads : \/ Spawned[t] = td[t]
                               \/ td[t] = "unused" /\ Spawned[t] = "delayed"
<1> DEFINE free == {t \in Threads : td[t] = "unused"}
           next == CHOOSE t \in free : TRUE
<1>1. CASE free = {}
  BY <1>1 DEF Spawned, TypeOK
<1>2. CASE free # {}
  <2>1. next \in free
    BY <1>2
  <2>2. next \in Threads /\ td[next] = "unused"
    BY <2>1
  <2>3. Spawned = [td EXCEPT ![next] = "delayed"]
    BY <1>2 DEF Spawned
  <2> HIDE DEF next, free
  <2> QED
    BY <2>2, <2>3 DEF TypeOK
<1> QED
  BY <1>1, <1>2

\* Every step keeps the types, and with them that a thread holds a local pointer
\* just between copy and insert of afterTerminatingSession.
LEMMA TypeStep == TypeOK /\ [Next]_vars => TypeOK'
<1> SUFFICES ASSUME TypeOK, [Next]_vars
             PROVE  TypeOK'
  OBVIOUS
<1> USE DEF TypeOK, TaskTypeOK, taskVars, serverVars, clientVars, flagVars, tdVars
<1>1. CASE Tick
  BY <1>1, SpawnedType DEF Tick
<1>2. CASE TimerStep
  BY <1>2 DEF TimerStep, TimerExpires, HandlerChecks, HandlerRearms
<1>3. CASE TimerHandler
  BY <1>3 DEF TimerHandler, HandlerBegins, HandlerAborted
<1>4. CASE ClientSilent
  BY <1>4 DEF ClientSilent
<1>5. CASE ReadCompletes
  BY <1>5 DEF ReadCompletes
<1>6. CASE ReadLastSamples
  BY <1>6 DEF ReadLastSamples
<1>7. CASE Receive
  BY <1>7, SpawnedType DEF Receive
<1>8. CASE ReceiveFails
  BY <1>8 DEF ReceiveFails
<1>9. CASE asyncReceive
  BY <1>9 DEF asyncReceive
<1>10. CASE onPlayStart
  BY <1>10 DEF onPlayStart
<1>11. ASSUME NEW t \in Threads, onTeardown(t)
       PROVE  TypeOK'
  <2> USE DEF TdStep
  <2>1. CASE TdFlag(t)
    BY <2>1 DEF TdFlag
  <2>2. CASE stopAllPeriodicTasks(t)
    BY <2>2 DEF stopAllPeriodicTasks, StopTasks
  <2>3. CASE closeSocket(t)
    <3>1. socketOpen' \in BOOLEAN /\ isToreDown' \in BOOLEAN /\ isRecordSaved' \in BOOLEAN
      BY <2>3, Zenon DEF closeSocket
    <3> QED
      BY <2>3, <3>1 DEF closeSocket
  <2>4. CASE recordBitrateTestResult(t)
    <3>1. isRecordSaved' \in BOOLEAN
      BY <2>4, Zenon DEF recordBitrateTestResult
    <3> QED
      BY <2>4, <3>1 DEF recordBitrateTestResult
  <2>5. CASE MapFind(t)
    BY <2>5 DEF MapFind
  <2>6. CASE MapCopy(t)
    BY <2>6 DEF MapCopy
  <2>7. CASE MapErase(t)
    BY <2>7 DEF MapErase
  <2>8. CASE MapInsert(t)
    BY <2>8 DEF MapInsert
  <2> QED
    BY <1>11, <2>1, <2>2, <2>3, <2>4, <2>5, <2>6, <2>7, <2>8 DEF onTeardown
<1>12. CASE Reap
  BY <1>12 DEF Reap
<1>13. CASE Destroy
  <2>1. socketOpen' \in BOOLEAN /\ isRecordSaved' \in BOOLEAN /\ running' \in [Tasks -> BOOLEAN]
    BY <1>13, Zenon DEF Destroy
  <2>2. wait' \in [Tasks -> {"none", "armed", "due", "aborted"}]
    BY <1>13 DEF Destroy
  <2> QED
    BY <1>13, <2>1, <2>2 DEF Destroy
<1>14. CASE RtpThreadEnds
  <2>1. rtpThread' \in BOOLEAN
    BY <1>14, Zenon DEF RtpThreadEnds
  <2> QED
    BY <1>14, <2>1 DEF RtpThreadEnds
<1>15. CASE UseDestroyed
  <2>1. rtpThread' \in BOOLEAN
    BY <1>15, Zenon DEF UseDestroyed
  <2>2. UNCHANGED <<clientVars, flagVars, serverVars, life>>
    BY <1>15 DEF UseDestroyed
  <2>3. TaskTypeOK({}, {})'
    BY <1>15 DEF UseDestroyed
  <2>4. /\ td' \in [Threads -> {"unused", "delayed", "timers", "socket", "record", "find", "copy",
                               "erase", "insert", "done"}]
        /\ local' \in [Threads -> Entries]
        /\ \A t \in Threads : local'[t] # "none" <=> td'[t] \in {"erase", "insert"}
    BY <1>15 DEF UseDestroyed
  <2>5. dangling' \in {"none", "rtp", "timer", "thread"}
    BY <1>15 DEF UseDestroyed
  <2> QED
    BY <2>1, <2>2, <2>3, <2>4, <2>5
<1>16. CASE UNCHANGED vars
  BY <1>16 DEF vars
<1> QED
  BY <1>1, <1>2, <1>3, <1>4, <1>5, <1>6, <1>7, <1>8, <1>9, <1>10, <1>11, <1>12, <1>13, <1>14,
     <1>15, <1>16 DEF Next

\* Types of the session for any number of delayed onTeardown threads.
THEOREM SessionTyped == Spec => []TypeOK
<1>1. Init => TypeOK
  BY DEF Init, TypeOK, TaskTypeOK
<1> QED
  BY <1>1, TypeStep, PTL DEF Spec

-----------------------------------------------------------------------------
(* Owners *)

\* What a thread has done before it comes to where it is; and the session leaves
\* the map sessions only by a thread that has copied the pointer before.
Undone == {"unused", "delayed"}
Progress ==
  /\ \A t \in Threads :
       /\ td[t] \notin Undone => isToreDown
       /\ td[t] \notin Undone \cup {"timers"} => ~running[Bitrate]
       /\ td[t] \notin Undone \cup {"timers", "socket"} => ~socketOpen
  /\ sessions = "session" \/ \E t \in Threads : td[t] \in {"insert", "done"}

IInv == Alive => Progress

\* A thread that is only delayed has done nothing yet.
LEMMA SpawnedKeeps ==
  ASSUME TypeOK, Progress, td' = Spawned,
         UNCHANGED <<isToreDown, running, socketOpen, sessions>>
  PROVE  Progress'
<1>1. \A t \in Threads : td'[t] = td[t] \/ (td'[t] \in Undone /\ td[t] \in Undone)
  <2>1. \A t \in Threads : Spawned[t] = td[t] \/ (td[t] = "unused" /\ Spawned[t] = "delayed")
    BY SpawnedType
  <2> QED
    BY <2>1 DEF Undone
<1>2. \A t \in Threads : td'[t] \in {"insert", "done"} <=> td[t] \in {"insert", "done"}
  BY <1>1 DEF Undone
<1> QED
  BY <1>1, <1>2 DEF Progress

LEMMA ProgressStep == TypeOK /\ IInv /\ [Next]_vars => IInv'
<1> SUFFICES ASSUME TypeOK, IInv, [Next]_vars, Alive'
             PROVE  Progress'
  BY DEF IInv
<1> USE DEF taskVars, serverVars, clientVars, flagVars, tdVars
<1>0. Alive
  BY DEF Next, vars, Tick, TimerStep, TimerHandler, ClientSilent, ReadCompletes, ReadLastSamples,
     Receive, ReceiveFails, asyncReceive, onPlayStart, onTeardown, TdFlag, TdStep,
     stopAllPeriodicTasks, closeSocket, recordBitrateTestResult, MapFind, MapCopy, MapErase,
     MapInsert, Reap, Destroy, RtpThreadEnds, UseDestroyed
<1>P. Progress
  BY <1>0 DEF IInv
<1>1. CASE Tick
  <2>1. td' = Spawned \/ td' = td
    BY <1>1 DEF Tick
  <2>2. UNCHANGED <<isToreDown, running, socketOpen, sessions>>
    BY <1>1 DEF Tick
  <2> QED
    BY <1>P, <2>1, <2>2, SpawnedKeeps DEF Progress
<1>2. CASE Receive
  <2>1. td' = Spawned \/ td' = td
    BY <1>2 DEF Receive
  <2>2. UNCHANGED <<isToreDown, running, socketOpen, sessions>>
    BY <1>2 DEF Receive
  <2> QED
    BY <1>P, <2>1, <2>2, SpawnedKeeps DEF Progress
<1>3. CASE \/ TimerStep \/ TimerHandler \/ ClientSilent \/ ReadCompletes \/ ReadLastSamples
           \/ ReceiveFails \/ asyncReceive \/ onPlayStart \/ Reap \/ RtpThreadEnds
           \/ UNCHANGED vars
  <2>1. UNCHANGED <<isToreDown, running, socketOpen, sessions, td>>
    BY <1>3 DEF vars, TimerStep, TimerExpires, HandlerChecks, HandlerRearms, TimerHandler,
       HandlerBegins, HandlerAborted, ClientSilent, ReadCompletes, ReadLastSamples, ReceiveFails,
       asyncReceive, onPlayStart, Reap, RtpThreadEnds
  <2> QED
    BY <1>P, <2>1 DEF Progress
<1>4. CASE Destroy \/ UseDestroyed
  BY <1>0, <1>4 DEF Destroy, UseDestroyed
<1>5. ASSUME NEW t \in Threads, onTeardown(t)
      PROVE  Progress'
  <2> USE <1>P DEF Progress, Undone, TdStep, TypeOK, TaskTypeOK
  <2>1. CASE TdFlag(t)
    BY <2>1 DEF TdFlag
  <2>2. CASE stopAllPeriodicTasks(t)
    BY <2>2 DEF stopAllPeriodicTasks, StopTasks
  <2>3. CASE closeSocket(t)
    BY <2>3 DEF closeSocket
  <2>4. CASE recordBitrateTestResult(t)
    BY <2>4 DEF recordBitrateTestResult
  <2>5. CASE MapFind(t)
    BY <2>5 DEF MapFind
  <2>6. CASE MapCopy(t)
    BY <2>6 DEF MapCopy
  <2>7. CASE MapErase(t)
    BY <2>7 DEF MapErase
  <2>8. CASE MapInsert(t)
    BY <2>8 DEF MapInsert
  <2> QED
    BY <1>5, <2>1, <2>2, <2>3, <2>4, <2>5, <2>6, <2>7, <2>8 DEF onTeardown
<1> QED
  BY <1>1, <1>2, <1>3, <1>4, <1>5 DEF Next

\* A session whose socket is open, whose bitrate task runs or that no thread has
\* begun to tear down has an owner, however many onTeardown threads race in the
\* server's maps.
THEOREM OwnedTillClosed == Spec => []OwnedUntilClosed
<1>1. Init => IInv
  BY DEF Init, IInv, Progress, Undone
<1>2. TypeOK /\ IInv => OwnedUntilClosed
  BY DEF IInv, Progress, Undone, OwnedUntilClosed, Owned, TypeOK
<1> QED
  BY <1>1, <1>2, SessionTyped, ProgressStep, PTL DEF Spec
-----------------------------------------------------------------------------
(* What the liveness properties rest on *)

\* As long as no onTeardown thread has set isToreDown, the bitrate task that
\* notices a lost client is scheduled.
ClientIsWatched ==
  Alive /\ ~isToreDown =>
    running[Bitrate] /\ (wait[Bitrate] \in {"armed", "due"} \/ onStrand = Bitrate)

\* When an onTeardown thread is through and none has still to erase, nothing is
\* left in sessions: not the session, and no null entry of operator[].
SessionsAreLeft ==
  Alive /\ (\E t \in Threads : td[t] = "done") /\ (\A t \in Threads : td[t] # "erase")
    => sessions = "none"

\* sessions does not get the session back, and who makes a null entry erases it.
Erasing ==
  /\ (\E t \in Threads : td[t] \in {"insert", "done"}) => sessions # "session"
  /\ sessions = "null" => \E t \in Threads : td[t] = "erase"

MapInv == Alive => Erasing

LEMMA SpawnedErasing ==
  ASSUME TypeOK, Erasing, td' = Spawned \/ td' = td, UNCHANGED sessions
  PROVE  Erasing'
<1>1. \A t \in Threads : td'[t] = td[t] \/ (td'[t] \in Undone /\ td[t] \in Undone)
  BY SpawnedType DEF Undone
<1> QED
  BY <1>1 DEF Erasing, Undone

LEMMA StaysAlive ==
  ASSUME [Next]_vars, Alive'
  PROVE  Alive /\ ~Destroy /\ ~UseDestroyed
BY DEF Next, vars, Tick, TimerStep, TimerHandler, ClientSilent, ReadCompletes, ReadLastSamples,
   Receive, ReceiveFails, asyncReceive, onPlayStart, onTeardown, TdFlag, TdStep,
   stopAllPeriodicTasks, closeSocket, recordBitrateTestResult, MapFind, MapCopy, MapErase,
   MapInsert, Reap, Destroy, RtpThreadEnds, UseDestroyed

LEMMA ErasingStep == TypeOK /\ MapInv /\ [Next]_vars => MapInv'
<1> SUFFICES ASSUME TypeOK, MapInv, [Next]_vars, Alive'
             PROVE  Erasing'
  BY DEF MapInv
<1>0. Erasing /\ ~Destroy /\ ~UseDestroyed
  BY StaysAlive DEF MapInv
<1>1. CASE Tick \/ Receive
  <2>1. (td' = Spawned \/ td' = td) /\ UNCHANGED sessions
    BY <1>1 DEF Tick, Receive, serverVars
  <2> QED
    BY <1>0, <2>1, SpawnedErasing
<1>2. CASE \/ TimerStep \/ TimerHandler \/ ClientSilent \/ ReadCompletes \/ ReadLastSamples
           \/ ReceiveFails \/ asyncReceive \/ onPlayStart \/ Reap \/ RtpThreadEnds
           \/ UNCHANGED vars
  <2>1. UNCHANGED <<sessions, td>>
    BY <1>2 DEF vars, TimerStep, TimerHandler, ClientSilent, ReadCompletes, ReadLastSamples,
       ReceiveFails, asyncReceive, onPlayStart, Reap, RtpThreadEnds, serverVars, tdVars
  <2> QED
    BY <1>0, <2>1 DEF Erasing
<1>3. ASSUME NEW t \in Threads, onTeardown(t)
      PROVE  Erasing'
  <2>0. td \in [Threads -> {"unused", "delayed", "timers", "socket", "record", "find", "copy",
                            "erase", "insert", "done"}]
    BY DEF TypeOK
  <2> USE <1>0, <2>0 DEF Erasing, TdStep, serverVars
  <2>1. CASE TdFlag(t)
    BY <2>1 DEF TdFlag
  <2>2. CASE stopAllPeriodicTasks(t)
    BY <2>2 DEF stopAllPeriodicTasks
  <2>3. CASE closeSocket(t)
    BY <2>3 DEF closeSocket
  <2>4. CASE recordBitrateTestResult(t)
    BY <2>4 DEF recordBitrateTestResult
  <2>5. CASE MapFind(t)
    BY <2>5 DEF MapFind
  <2>6. CASE MapCopy(t)
    BY <2>6 DEF MapCopy
  <2>7. CASE MapErase(t)
    BY <2>7 DEF MapErase
  <2>8. CASE MapInsert(t)
    BY <2>8 DEF MapInsert
  <2> QED
    BY <1>3, <2>1, <2>2, <2>3, <2>4, <2>5, <2>6, <2>7, <2>8 DEF onTeardown
<1> QED
  BY <1>0, <1>1, <1>2, <1>3 DEF Next

\* Whatever several onTeardown threads do to the map sessions at a time, nothing
\* of the session is left in it (afterTerminatingSession).
THEOREM SessionsLeft == Spec => []SessionsAreLeft
<1>1. Init => MapInv
  BY DEF Init, MapInv, Erasing
<1>2. TypeOK /\ MapInv => SessionsAreLeft
  BY DEF TypeOK, MapInv, Erasing, SessionsAreLeft
<1> QED
  BY <1>1, <1>2, SessionTyped, ErasingStep, PTL DEF Spec

LEMMA WatchStep == TypeOK /\ IInv /\ ClientIsWatched /\ [Next]_vars => ClientIsWatched'
<1> SUFFICES ASSUME TypeOK, IInv, ClientIsWatched, [Next]_vars, Alive', ~isToreDown'
             PROVE  /\ running'[Bitrate]
                    /\ wait'[Bitrate] \in {"armed", "due"} \/ onStrand' = Bitrate
  BY DEF ClientIsWatched
<1> USE DEF taskVars, serverVars, clientVars, flagVars, tdVars
<1>0. Alive /\ ~Destroy /\ ~UseDestroyed
  BY StaysAlive
<1>1. ~isToreDown
  BY <1>0 DEF Next, vars, Tick, TimerStep, TimerHandler, ClientSilent, ReadCompletes,
     ReadLastSamples, Receive, ReceiveFails, asyncReceive, onPlayStart, onTeardown, TdFlag,
     stopAllPeriodicTasks, closeSocket, recordBitrateTestResult, MapFind, MapCopy, MapErase,
     MapInsert, Reap, RtpThreadEnds
<1>2. /\ running[Bitrate] /\ (wait[Bitrate] \in {"armed", "due"} \/ onStrand = Bitrate)
      /\ \A t \in Threads : td[t] \in Undone
      /\ wait \in [Tasks -> {"none", "armed", "due", "aborted"}]
  BY <1>0, <1>1 DEF ClientIsWatched, IInv, Progress, TypeOK, TaskTypeOK
<1>3. CASE TimerStep \/ TimerHandler
  BY <1>2, <1>3, LifecycleAssumption
     DEF TimerStep, TimerHandler, TimerExpires, HandlerChecks, HandlerRearms, HandlerBegins,
         HandlerAborted
<1>4. CASE \/ Tick \/ Receive \/ ClientSilent \/ ReadCompletes \/ ReadLastSamples
           \/ ReceiveFails \/ asyncReceive \/ onPlayStart \/ Reap \/ RtpThreadEnds
           \/ UNCHANGED vars
  <2>1. UNCHANGED <<running, wait>> /\ (onStrand' = onStrand)
    BY <1>4 DEF vars, Tick, Receive, ClientSilent, ReadCompletes, ReadLastSamples,
       ReceiveFails, asyncReceive, onPlayStart, Reap, RtpThreadEnds
  <2> QED
    BY <1>2, <2>1
<1>5. ASSUME NEW t \in Threads, onTeardown(t)
      PROVE  FALSE
  BY <1>2, <1>5 DEF onTeardown, TdFlag, TdStep, stopAllPeriodicTasks, closeSocket,
     recordBitrateTestResult, MapFind, MapCopy, MapErase, MapInsert, Undone
<1> QED
  BY <1>0, <1>3, <1>4, <1>5 DEF Next

\* Until a teardown begins, nothing takes the bitrate task off its timer: a lost
\* client will be noticed.
THEOREM ClientWatched == Spec => []ClientIsWatched
<1>1. Init => ClientIsWatched
  BY DEF Init, ClientIsWatched
<1>2. Init => IInv
  BY DEF Init, IInv, Progress, Undone
<1> QED
  BY <1>1, <1>2, SessionTyped, ProgressStep, WatchStep, PTL DEF Spec
=============================================================================
