--------------------------- MODULE SessionLifecycle ---------------------------
(***************************************************************************)
(* The life of one session, from Session::start to its destruction: the    *)
(* bitrate task, which notices a lost client, the receive loop, the        *)
(* detached threads that call onTeardown 5 s after they are asked to, the  *)
(* two maps of the server and the task that clears the second of them.     *)
(* The session is destroyed when its last shared owner lets go of it; its  *)
(* timers' handlers, the delayed threads and the RTP thread hold it by raw *)
(* pointer and own nothing.  Each operation on a map of the server is one  *)
(* step, although the maps have no lock.                                   *)
(***************************************************************************)
EXTENDS Naturals, FiniteSets

CONSTANTS
  MaxTeardowns,  \* bound: delayed onTeardown threads of the session
  Bitrate,       \* bitrateRecodeTask
  Nobody, NoStep

ASSUME LifecycleAssumption == MaxTeardowns \in Nat \ {0}

Tasks == {Bitrate}
Threads == 1 .. MaxTeardowns

VARIABLES
  running, wait, onStrand, step,  \* see PeriodicTask
  optionsAge,   \* of the latest OPTIONS: "fresh" (20 s at most) or "stale"; before
                \* the first one latestOptionsReqTimeMillis is -1, and it is stale
  ended,        \* both entries of readingEndSampleStatusVec are set
  receiver,     \* the receive loop: "reading", "data" or "error" (its handler
                \* is queued), "posted" (asyncReceive is queued) or "stopped"
  play,         \* "none", "pending" (a delayed onPlayStart waits) or "started"
  td,           \* by thread: "unused", "delayed" or what onTeardown does next:
                \* "timers", "socket", "record", "find", "copy", "erase",
                \* "insert"; then "done"
  local,        \* by thread: sessionPtr of afterTerminatingSession
  isToreDown,
  socketOpen,
  isRecordSaved,
  sessions,     \* the server's map: its entry for the session
  shutdownSessions,
  rtpThread,    \* the RTP thread runs
  life,         \* "alive" or "destroyed"
  dangling      \* history: who used the session after its destruction: "none",
                \* "rtp" thread, "timer" handler or onTeardown "thread"

INSTANCE PeriodicTask

taskVars == <<running, wait, onStrand, step>>
serverVars == <<sessions, shutdownSessions>>
clientVars == <<optionsAge, ended, receiver, play>>
flagVars == <<isToreDown, socketOpen, isRecordSaved>>
tdVars == <<td, local>>
vars == <<taskVars, clientVars, tdVars, flagVars, serverVars, rtpThread, life, dangling>>

\* An entry of a map: no entry, the session, or a null pointer.
Entries == {"none", "session", "null"}

\* Server::start makes the session, starts it and enters it in sessions, well
\* within the 5 s before a delayed thread runs.
Init ==
  /\ running = [t \in Tasks |-> TRUE]
  /\ wait = [t \in Tasks |-> "armed"]
  /\ onStrand = Nobody
  /\ step = NoStep
  /\ optionsAge = "stale"
  /\ ended = FALSE
  /\ receiver = "reading"
  /\ play = "none"
  /\ td = [t \in Threads |-> "unused"]
  /\ local = [t \in Threads |-> "none"]
  /\ isToreDown = FALSE
  /\ socketOpen = TRUE
  /\ isRecordSaved = FALSE
  /\ sessions = "session"
  /\ shutdownSessions = "none"
  /\ rtpThread = TRUE
  /\ life = "alive"
  /\ dangling = "none"

\* The shared owners.  The read handler and the posted asyncReceive hold self.
Owned ==
  \/ sessions = "session" \/ shutdownSessions = "session"
  \/ receiver # "stopped"
  \/ play = "pending"
  \/ \E t \in Threads : local[t] = "session"

Alive == life = "alive"

-----------------------------------------------------------------------------
(* The bitrate task *)

\* delayedExecutorAsyncByThread: a thread for onTeardown, while the bound allows.
Spawned ==
  LET free == {t \in Threads : td[t] = "unused"} IN
    IF free = {} THEN td
    ELSE [td EXCEPT ![CHOOSE t \in free : TRUE] = "delayed"]

\* Faulty variant: the age of the last OPTIONS is not looked at.
TickIgnoresSilence ==
  /\ Alive
  /\ onStrand = Bitrate /\ step = "body"
  /\ td' = td
  /\ step' = "check"
  /\ UNCHANGED <<running, wait, onStrand, clientVars, local, flagVars, serverVars, rtpThread,
                 life, dangling>>

\* The lambda of Session::start: nothing once both streams were read to their
\* end, an onTeardown every time the client is found to be silent.
Tick ==
  /\ Alive
  /\ onStrand = Bitrate /\ step = "body"
  /\ td' = IF ~ended /\ optionsAge # "fresh" THEN Spawned ELSE td
  /\ step' = "check"
  /\ UNCHANGED <<running, wait, onStrand, clientVars, local, flagVars, serverVars, rtpThread,
                 life, dangling>>

TimerStep ==
  /\ Alive
  /\ \/ TimerExpires(Bitrate)
     \/ HandlerChecks(Bitrate)
     \/ HandlerRearms(Bitrate)
  /\ UNCHANGED <<clientVars, tdVars, flagVars, serverVars, rtpThread, life, dangling>>

TimerHandler ==
  /\ Alive
  /\ HandlerBegins(Bitrate) \/ HandlerAborted(Bitrate)
  /\ UNCHANGED <<clientVars, tdVars, flagVars, serverVars, rtpThread, life, dangling>>

-----------------------------------------------------------------------------
(* The client and the receive loop *)

\* 20 s pass without an OPTIONS.
ClientSilent ==
  /\ optionsAge = "fresh"
  /\ optionsAge' = "stale"
  /\ UNCHANGED <<taskVars, ended, receiver, play, tdVars, flagVars, serverVars,
                 rtpThread, life, dangling>>

\* The client sends; or the connection ends, at the client or at closeSocket.
ReadCompletes ==
  /\ receiver = "reading"
  /\ \/ socketOpen /\ receiver' = "data"
     \/ receiver' = "error"
  /\ UNCHANGED <<taskVars, optionsAge, ended, play, tdVars, flagVars, serverVars,
                 rtpThread, life, dangling>>

\* The handler answers the requests that have come: OPTIONS is noted, a PLAY
\* starts reading after a delay, and an answer with Teardown: or Error: ends
\* the reception and asks for onTeardown.
Receive ==
  /\ StrandFree
  /\ receiver = "data"
  /\ \E options, starts, last \in BOOLEAN :
       /\ optionsAge' = IF options THEN "fresh" ELSE optionsAge
       /\ play' = IF starts THEN "pending" ELSE play
       /\ receiver' = IF last THEN "stopped" ELSE "posted"
       /\ td' = IF last THEN Spawned ELSE td
  /\ UNCHANGED <<taskVars, ended, local, flagVars, serverVars, rtpThread, life, dangling>>

ReceiveFails ==
  /\ StrandFree
  /\ receiver = "error"
  /\ receiver' = "stopped"
  /\ UNCHANGED <<taskVars, optionsAge, ended, play, tdVars, flagVars, serverVars,
                 rtpThread, life, dangling>>

asyncReceive ==
  /\ StrandFree
  /\ receiver = "posted"
  /\ receiver' = IF isRecordSaved \/ ~socketOpen THEN "stopped" ELSE "reading"
  /\ UNCHANGED <<taskVars, optionsAge, ended, play, tdVars, flagVars, serverVars,
                 rtpThread, life, dangling>>

onPlayStart ==
  /\ play = "pending"
  /\ play' = "started"
  /\ UNCHANGED <<taskVars, optionsAge, ended, receiver, tdVars, flagVars, serverVars,
                 rtpThread, life, dangling>>

\* The reading tasks have noted the end of both streams.
ReadLastSamples ==
  /\ Alive
  /\ play = "started" /\ ~ended /\ ~isToreDown
  /\ ended' = TRUE
  /\ UNCHANGED <<taskVars, optionsAge, receiver, play, tdVars, flagVars, serverVars,
                 rtpThread, life, dangling>>

-----------------------------------------------------------------------------
(* onTeardown, on a thread of its own *)

TdStep(t, from, to) ==
  /\ Alive
  /\ td[t] = from
  /\ td' = [td EXCEPT ![t] = to]
  /\ UNCHANGED <<clientVars, rtpThread, life, dangling>>

TdFlag(t) ==
  /\ TdStep(t, "delayed", "timers")
  /\ isToreDown' = TRUE
  /\ UNCHANGED <<taskVars, local, socketOpen, isRecordSaved, serverVars>>

stopAllPeriodicTasks(t) ==
  /\ TdStep(t, "timers", "socket")
  /\ StopTasks({Bitrate})
  /\ UNCHANGED <<onStrand, step, local, flagVars, serverVars>>

\* Faulty variant: the socket stays open.
closeSocketNot(t) ==
  /\ TdStep(t, "socket", "record")
  /\ UNCHANGED <<taskVars, local, flagVars, serverVars>>

closeSocket(t) ==
  /\ TdStep(t, "socket", "record")
  /\ socketOpen' = FALSE
  /\ UNCHANGED <<taskVars, local, isToreDown, isRecordSaved, serverVars>>

\* The file may not be written, or there is nothing to write.
recordBitrateTestResult(t) ==
  /\ TdStep(t, "record", "find")
  /\ isRecordSaved' \in {isRecordSaved, TRUE}
  /\ UNCHANGED <<taskVars, local, isToreDown, socketOpen, serverVars>>

\* afterTerminatingSession: find, operator[] (which makes a null entry if there
\* is none any more), erase, and an insert that keeps an entry that is there.
MapFind(t) ==
  /\ TdStep(t, "find", IF sessions = "none" THEN "done" ELSE "copy")
  /\ UNCHANGED <<taskVars, local, flagVars, serverVars>>

MapCopy(t) ==
  /\ TdStep(t, "copy", "erase")
  /\ sessions' = IF sessions = "none" THEN "null" ELSE sessions
  /\ local' = [local EXCEPT ![t] = sessions']
  /\ UNCHANGED <<taskVars, flagVars, shutdownSessions>>

\* Faulty variant: the entry stays where it is.
MapEraseNot(t) ==
  /\ TdStep(t, "erase", "insert")
  /\ UNCHANGED <<taskVars, local, flagVars, serverVars>>

MapErase(t) ==
  /\ TdStep(t, "erase", "insert")
  /\ sessions' = "none"
  /\ UNCHANGED <<taskVars, local, flagVars, shutdownSessions>>

\* Faulty variant: the local pointer is kept.
MapInsertKeeps(t) ==
  /\ TdStep(t, "insert", "done")
  /\ shutdownSessions' = IF shutdownSessions = "none" THEN local[t] ELSE shutdownSessions
  /\ UNCHANGED <<taskVars, local, flagVars, sessions>>

MapInsert(t) ==
  /\ TdStep(t, "insert", "done")
  /\ shutdownSessions' = IF shutdownSessions = "none" THEN local[t] ELSE shutdownSessions
  /\ local' = [local EXCEPT ![t] = "none"]
  /\ UNCHANGED <<taskVars, flagVars, sessions>>

onTeardown(t) ==
  \/ TdFlag(t) \/ stopAllPeriodicTasks(t) \/ closeSocket(t) \/ recordBitrateTestResult(t)
  \/ MapFind(t) \/ MapCopy(t) \/ MapErase(t) \/ MapInsert(t)

-----------------------------------------------------------------------------
(* The server's task, the destructor and the RTP thread *)

\* Every 30 s: shutdownSessions.clear().
Reap ==
  /\ shutdownSessions # "none"
  /\ shutdownSessions' = "none"
  /\ UNCHANGED <<taskVars, clientVars, tdVars, flagVars, sessions, rtpThread, life, dangling>>

\* The destructor of Session, in the thread that let go last: stop() of the
\* task and the end of its timer, which aborts what still waits.
Destroy ==
  /\ Alive
  /\ ~Owned
  /\ life' = "destroyed"
  /\ running' = [running EXCEPT ![Bitrate] = FALSE]
  /\ wait' = [wait EXCEPT ![Bitrate] = IF @ = "armed" THEN "aborted" ELSE @]
  /\ socketOpen' = FALSE
  /\ isRecordSaved' \in {isRecordSaved, TRUE}
  /\ UNCHANGED <<onStrand, step, clientVars, tdVars, isToreDown, serverVars, rtpThread, dangling>>

RtpThreadEnds ==
  /\ Alive
  /\ rtpThread /\ isToreDown
  /\ rtpThread' = FALSE
  /\ UNCHANGED <<taskVars, clientVars, tdVars, flagVars, serverVars, life, dangling>>

\* What happens to who uses the session after its destruction is undefined; it
\* is noted here and the one who does so gone.
UseDestroyed ==
  /\ ~Alive
  /\ \/ /\ onStrand = Bitrate
        /\ dangling' = "timer"
        /\ FreeStrand
        /\ UNCHANGED <<running, wait, tdVars, rtpThread>>
     \/ /\ StrandFree /\ wait[Bitrate] # "none"
        /\ dangling' = "timer"
        /\ wait' = [wait EXCEPT ![Bitrate] = "none"]
        /\ UNCHANGED <<running, onStrand, step, tdVars, rtpThread>>
     \/ \E t \in Threads :
          /\ td[t] \notin {"unused", "done"}
          /\ dangling' = "thread"
          /\ td' = [td EXCEPT ![t] = "done"]
          /\ local' = [local EXCEPT ![t] = "none"]
          /\ UNCHANGED <<taskVars, rtpThread>>
     \/ /\ rtpThread
        /\ dangling' = "rtp"
        /\ rtpThread' = FALSE
        /\ UNCHANGED <<taskVars, tdVars>>
  /\ UNCHANGED <<clientVars, flagVars, serverVars, life>>

-----------------------------------------------------------------------------
Next ==
  \/ Tick \/ TimerStep \/ TimerHandler
  \/ ClientSilent \/ ReadCompletes \/ ReadLastSamples
  \/ Receive \/ ReceiveFails \/ asyncReceive \/ onPlayStart
  \/ \E t \in Threads : onTeardown(t)
  \/ Reap \/ Destroy \/ RtpThreadEnds
  \/ UseDestroyed

\* Threads run; timers expire and the reaper comes by; the strand serves who
\* waits for it in turn; a read on a closed socket completes.  A client need not
\* send, nor fall silent.
Fairness ==
  /\ WF_vars(Tick \/ TimerStep) /\ SF_vars(TimerHandler)
  /\ WF_vars(~socketOpen /\ ReadCompletes)
  /\ SF_vars(Receive \/ ReceiveFails \/ asyncReceive)
  /\ WF_vars(onPlayStart)
  /\ \A t \in Threads : WF_vars(onTeardown(t))
  /\ WF_vars(Reap) /\ WF_vars(Destroy)

Spec == Init /\ [][Next]_vars

FairSpec == Spec /\ Fairness

-----------------------------------------------------------------------------
(* Properties *)

\* Every variable has its type, and a thread holds a local pointer exactly from
\* the copy to the insert of afterTerminatingSession.
TypeOK ==
  /\ TaskTypeOK({}, {})
  /\ optionsAge \in {"fresh", "stale"}
  /\ ended \in BOOLEAN
  /\ receiver \in {"reading", "data", "error", "posted", "stopped"}
  /\ play \in {"none", "pending", "started"}
  /\ td \in [Threads -> {"unused", "delayed", "timers", "socket", "record", "find", "copy",
                         "erase", "insert", "done"}]
  /\ local \in [Threads -> Entries]
  /\ \A t \in Threads : local[t] # "none" <=> td[t] \in {"erase", "insert"}
  /\ isToreDown \in BOOLEAN
  /\ socketOpen \in BOOLEAN
  /\ isRecordSaved \in BOOLEAN
  /\ sessions \in Entries
  /\ shutdownSessions \in Entries
  /\ rtpThread \in BOOLEAN
  /\ life \in {"alive", "destroyed"}
  /\ dangling \in {"none", "rtp", "timer", "thread"}

\* As long as its socket is open or its bitrate task runs, a session has an
\* owner, whatever two onTeardown threads do to the server's maps at a time.
OwnedUntilClosed ==
  Alive /\ (socketOpen \/ running[Bitrate] \/ ~isToreDown) => Owned

\* A torn down session is destroyed in the end: pending reads and the delayed
\* onPlayStart let go of it and the server's task clears it out.
TornDownIsDestroyed == isToreDown ~> life = "destroyed"

\* A client whose connection is lost while its streams are not read to their
\* end is noticed by the bitrate task, and its session is torn down.
LostClientTornDown == <>[](optionsAge # "fresh" /\ ~ended) => <>isToreDown

\* What Session.cpp says of the bitrate task: the session is shut down when the
\* connection of its client was lost.
LostClientShutDown == <>[](optionsAge # "fresh" /\ receiver = "stopped") => <>isToreDown

\* What CppTips.md says of a session's deletion: it waits until the asynchronous
\* tasks of the session have ended, so no onTeardown meets a destroyed session.
DeletedAfterTasks == dangling # "thread"
=============================================================================
