---------------------------- MODULE ServerProcess ----------------------------
(***************************************************************************)
(* The process from start to stop (main.cpp, Server.cpp).  The main thread  *)
(* loads the contents, starts the clock and the task that clears the torn   *)
(* down sessions, and then accepts clients for ever; a signal is handled on *)
(* an io_context thread, which stops all io_contexts.  Only an exception    *)
(* leaves the accept loop.  Then main waits for the handler, joins the       *)
(* threads and destroys what it made in reverse order: server, contents,    *)
(* clock, io_contexts.  A handler may block them: it writes to a client that *)
(* does not read, or waits for room in the RTP queue.  The maps of sessions  *)
(* are not locked, and the RTP and onTeardown threads are detached: nobody   *)
(* joins them.                                                              *)
(***************************************************************************)
EXTENDS Naturals, FiniteSets

CONSTANTS
  Sessions,    \* bound: connections that clients make
  MaxSignals,  \* bound: SIGINT and SIGTERM
  Nobody

ASSUME ProcessAssumption == IsFiniteSet(Sessions) /\ MaxSignals \in Nat /\ Nobody \notin Sessions

VARIABLES
  main,       \* the main thread: "contents", "listen", "accept", "insert" (of newest),
              \* "wait", "join", "record", "members", "clock", "contexts", "exited",
              \* and "aborted" (std::terminate)
  newest,     \* the session that Server::start has started and not yet entered
  io,         \* the io_contexts: "running", "stopping" (handlers may end) or "stopped"
  handler,    \* of signals.async_wait: "armed", "queued" or "done"
  signals,    \* signals still to come
  sntp,       \* the clock's thread: "unstarted", "receiving", "sleeping" or "ended"
  ticking,    \* running of the clock
  blocked,    \* sessions with a handler that blocks in a write, or in push
  toRecord,   \* sessions that shutdownServer has still to record
  place,      \* by session: "none", "started", "listed" (in sessions), "unlisted"
              \* (started, and then an exception), "closing" (in shutdownSessions),
              \* "cleared"
  pending,    \* its receive loop: "read" (in the main io_context), "posted" (in a
              \* worker io_context) or "none"
  life,       \* "unborn", "alive" or "destroyed"
  record,     \* bitrate record: "empty", "unsaved" or "saved"
  td,         \* its onTeardown thread: "none", "delayed", "moving" or "done"
  failed,     \* history: sessions whose record could not be written
  late,       \* history: sessions with no value until onTeardown had looked for one
  raced,      \* history: sessions was changed while shutdownServer went through it
  touched     \* history: who used the destroyed server, "record" or "teardown", and
              \* of which session

mainVars == <<main, newest, toRecord>>
stopVars == <<io, handler, signals>>
clockVars == <<sntp, ticking>>
threadVars == <<clockVars, blocked>>
sessionVars == <<place, pending, life, record, td>>
historyVars == <<failed, late, raced, touched>>
vars == <<mainVars, stopVars, threadVars, sessionVars, historyVars>>

Init ==
  /\ main = "contents" /\ newest = Nobody /\ toRecord = {}
  /\ io = "running" /\ handler = "armed" /\ signals = MaxSignals
  /\ sntp = "unstarted" /\ ticking = FALSE /\ blocked = {}
  /\ place = [s \in Sessions |-> "none"]
  /\ pending = [s \in Sessions |-> "none"]
  /\ life = [s \in Sessions |-> "unborn"]
  /\ record = [s \in Sessions |-> "empty"]
  /\ td = [s \in Sessions |-> "none"]
  /\ failed = {} /\ late = {} /\ raced = FALSE /\ touched = {}

Runs == main \notin {"exited", "aborted"}
ServerDead == main \in {"clock", "contexts", "exited"}

\* The shared owners: an entry of a map, a local pointer, a handler in a context.
Owned(s) == place[s] \in {"started", "listed", "closing"} \/ pending[s] # "none"
AllOwned == \A s \in Sessions : life[s] = "alive" => Owned(s)

\* recordBitrateTestResult: nothing if saved or empty; the file may not open.
Recorded(s) ==
  \/ /\ record[s] # "unsaved"
     /\ UNCHANGED <<record, failed>>
  \/ /\ record[s] = "unsaved"
     /\ record' = [record EXCEPT ![s] = "saved"]
     /\ UNCHANGED failed
  \/ /\ record[s] = "unsaved"
     /\ failed' = failed \cup {s}
     /\ UNCHANGED record

-----------------------------------------------------------------------------
(* main and Server::start *)

MainGoes(from, to) == main = from /\ main' = to

\* ContentsStorage::init throws when a content cannot be read (see ContentMeta).
LoadContents ==
  /\ MainGoes("contents", "listen") \/ MainGoes("contents", "aborted")
  /\ UNCHANGED <<newest, toRecord, stopVars, threadVars, sessionVars, historyVars>>

\* The port may be in use: that exception nobody catches.
Listen ==
  /\ MainGoes("listen", "accept") \/ MainGoes("listen", "aborted")
  /\ sntp' = "receiving" /\ ticking' = TRUE
  /\ UNCHANGED <<newest, toRecord, stopVars, blocked, sessionVars, historyVars>>

\* A connection comes; Session::start asks for a read and makes the RTP thread.
Accept(s) ==
  /\ MainGoes("accept", "insert")
  /\ place[s] = "none"
  /\ newest' = s
  /\ place' = [place EXCEPT ![s] = "started"]
  /\ pending' = [pending EXCEPT ![s] = "read"]
  /\ life' = [life EXCEPT ![s] = "alive"]
  /\ UNCHANGED <<toRecord, stopVars, threadVars, record, td, historyVars>>

Insert ==
  /\ MainGoes("insert", "accept")
  /\ place' = [place EXCEPT ![newest] = "listed"]
  /\ newest' = Nobody
  /\ UNCHANGED <<toRecord, stopVars, threadVars, pending, life, record, td, historyVars>>

\* No socket or no thread is to be had: the loop ends, with a session started
\* that sessions does not have, or with none.
AcceptFails ==
  /\ \/ MainGoes("accept", "wait") /\ UNCHANGED place
     \/ MainGoes("insert", "wait") /\ place' = [place EXCEPT ![newest] = "unlisted"]
  /\ newest' = Nobody
  /\ UNCHANGED <<toRecord, stopVars, threadVars, pending, life, record, td, historyVars>>

Wait ==
  /\ MainGoes("wait", "join")
  /\ handler = "done"
  /\ UNCHANGED <<newest, toRecord, stopVars, threadVars, sessionVars, historyVars>>

\* Faulty variant: main does not join the threads.
JoinNot ==
  /\ MainGoes("join", "record")
  /\ toRecord' = {s \in Sessions : place[s] = "listed"}
  /\ UNCHANGED <<newest, stopVars, threadVars, sessionVars, historyVars>>

\* The threads have left run(), which one does only when its handler has ended;
\* ~Server begins with the records of sessions.
Join ==
  /\ MainGoes("join", "record")
  /\ blocked = {}
  /\ io' = "stopped"
  /\ toRecord' = {s \in Sessions : place[s] = "listed"}
  /\ UNCHANGED <<newest, handler, signals, threadVars, sessionVars, historyVars>>

\* A change of the map under the iteration may end it early.
RecordNext ==
  /\ main = "record"
  /\ \/ \E s \in toRecord :
          /\ Recorded(s)
          /\ toRecord' = toRecord \ {s}
     \/ /\ raced
        /\ toRecord' = {}
        /\ UNCHANGED <<record, failed>>
  /\ UNCHANGED <<main, newest, stopVars, threadVars, place, pending, life, td, late, raced, touched>>

\* Faulty variant: the sessions are cleared before they are recorded.
ClearSessionsFirst ==
  /\ MainGoes("record", "members")
  /\ toRecord' = {}
  /\ place' = [s \in Sessions |-> IF place[s] = "listed" THEN "cleared" ELSE place[s]]
  /\ UNCHANGED <<newest, stopVars, threadVars, pending, life, record, td, historyVars>>

\* sessions.clear, contentsStorage.shutdown.
ClearSessions ==
  /\ MainGoes("record", "members")
  /\ toRecord = {}
  /\ place' = [s \in Sessions |-> IF place[s] = "listed" THEN "cleared" ELSE place[s]]
  /\ UNCHANGED <<newest, toRecord, stopVars, threadVars, pending, life, record, td, historyVars>>

\* The server's members go, shutdownSessions among them, which main enters once
\* what sessions held is destroyed; then the server is gone.
DropMembers ==
  \/ /\ main = "members" /\ AllOwned
     /\ \E s \in Sessions : place[s] = "closing"
     /\ place' = [s \in Sessions |-> IF place[s] = "closing" THEN "cleared" ELSE place[s]]
     /\ UNCHANGED <<mainVars, stopVars, threadVars, pending, life, record, td, historyVars>>
  \/ /\ MainGoes("members", "clock") /\ AllOwned
     /\ \A s \in Sessions : place[s] # "closing"
     /\ UNCHANGED <<newest, toRecord, stopVars, threadVars, sessionVars, historyVars>>

\* Faulty variant: the clock's thread is not told to stop.
JoinClockUntold ==
  /\ MainGoes("clock", "contexts") /\ sntp = "ended"
  /\ UNCHANGED <<newest, toRecord, stopVars, threadVars, sessionVars, historyVars>>

\* ~SntpRefTimeProvider: running goes, and the thread is joined.
JoinClock ==
  /\ \/ main = "clock" /\ ticking /\ ticking' = FALSE /\ UNCHANGED main
     \/ MainGoes("clock", "contexts") /\ sntp = "ended" /\ UNCHANGED ticking
  /\ UNCHANGED <<newest, toRecord, stopVars, sntp, blocked, sessionVars, historyVars>>

\* The main io_context drops its handlers.  A worker io_context whose handler
\* holds a session is held by it in turn, and both stay.
DropContexts ==
  \/ /\ main = "contexts"
     /\ \E s \in Sessions : pending[s] = "read"
     /\ pending' = [s \in Sessions |-> IF pending[s] = "read" THEN "none" ELSE pending[s]]
     /\ UNCHANGED <<mainVars, stopVars, threadVars, place, life, record, td, historyVars>>
  \/ /\ MainGoes("contexts", "exited")
     /\ AllOwned /\ \A s \in Sessions : pending[s] # "read"
     /\ UNCHANGED <<newest, toRecord, stopVars, threadVars, sessionVars, historyVars>>

-----------------------------------------------------------------------------
(* Signals *)

\* The handler is queued, once; the system call of one thread is interrupted,
\* and only in accept that ends the loop.
Signal ==
  /\ Runs /\ signals > 0
  /\ signals' = signals - 1
  /\ handler' = IF handler = "armed" THEN "queued" ELSE handler
  /\ \/ MainGoes("accept", "wait") /\ UNCHANGED sntp
     \/ sntp = "receiving" /\ sntp' = "sleeping" /\ UNCHANGED main
     \/ UNCHANGED <<main, sntp>>
  /\ UNCHANGED <<newest, toRecord, io, ticking, blocked, sessionVars, historyVars>>

\* Faulty variant: the promise is kept and the io_contexts go on.
HandleSignalGoesOn ==
  /\ Runs /\ io = "running"
  /\ handler = "queued"
  /\ handler' = "done"
  /\ UNCHANGED <<mainVars, io, signals, threadVars, sessionVars, historyVars>>

HandleSignal ==
  /\ Runs /\ io = "running"
  /\ handler = "queued"
  /\ handler' = "done"
  /\ io' = "stopping"
  /\ UNCHANGED <<mainVars, signals, threadVars, sessionVars, historyVars>>

-----------------------------------------------------------------------------
(* The clock's thread (see SntpClock) and the sessions (see SessionLifecycle) *)

SntpAnswers ==
  /\ Runs
  /\ sntp = "receiving" /\ sntp' = "sleeping"
  /\ UNCHANGED <<mainVars, stopVars, ticking, blocked, sessionVars, historyVars>>

SntpLoops ==
  /\ Runs
  /\ sntp = "sleeping"
  /\ sntp' = IF ticking THEN "receiving" ELSE "ended"
  /\ UNCHANGED <<mainVars, stopVars, ticking, blocked, sessionVars, historyVars>>

\* Until the threads of the io_contexts are joined: a read comes to the main
\* io_context; the strand, unless it is blocked, goes on with the receive loop or
\* ends it, and its bitrate task enters a value, which the stop() of onTeardown
\* does not keep a queued tick from; either of them may ask for onTeardown.
Serve(s) ==
  /\ Runs /\ io # "stopped" /\ life[s] = "alive"
  /\ \/ /\ pending[s] = "read"
        /\ pending' = [pending EXCEPT ![s] = "posted"]
        /\ UNCHANGED <<record, td, late>>
     \/ /\ pending[s] = "posted" /\ s \notin blocked
        /\ \E next \in {"read", "none"} : pending' = [pending EXCEPT ![s] = next]
        /\ UNCHANGED <<record, td, late>>
     \/ /\ record[s] = "empty" /\ s \notin blocked
        /\ record' = [record EXCEPT ![s] = "unsaved"]
        /\ late' = IF td[s] \in {"moving", "done"} THEN late \cup {s} ELSE late
        /\ UNCHANGED <<pending, td>>
     \/ /\ td[s] = "none"
        /\ td' = [td EXCEPT ![s] = "delayed"]
        /\ UNCHANGED <<pending, record, late>>
  /\ UNCHANGED <<mainVars, stopVars, threadVars, place, life, failed, raced, touched>>

\* The answer to a request is written synchronously, and a reading task pushes
\* again and again while the RTP queue is full.  (A handler that blocks after the
\* io_contexts are stopped was running then: it counts as blocked before.)
Block(s) ==
  /\ Runs /\ io = "running" /\ life[s] = "alive" /\ s \notin blocked
  /\ blocked' = blocked \cup {s}
  /\ UNCHANGED <<mainVars, stopVars, clockVars, sessionVars, historyVars>>

\* The client reads again, the connection breaks, or the queue is emptied.
Unblock(s) ==
  /\ Runs /\ s \in blocked
  /\ blocked' = blocked \ {s}
  /\ UNCHANGED <<mainVars, stopVars, clockVars, sessionVars, historyVars>>

\* onTeardown up to the record, 5 s later, and the move from one map to the other.
Teardown(s) ==
  /\ Runs /\ life[s] = "alive"
  /\ \/ /\ td[s] = "delayed"
        /\ td' = [td EXCEPT ![s] = "moving"]
        /\ Recorded(s)
        /\ touched' = IF ServerDead /\ record[s] = "unsaved"
                        THEN touched \cup {<<s, "teardown">>} ELSE touched
        /\ UNCHANGED <<place, raced>>
     \/ /\ td[s] = "moving"
        /\ td' = [td EXCEPT ![s] = "done"]
        /\ touched' = IF ServerDead THEN touched \cup {<<s, "teardown">>} ELSE touched
        /\ place' = IF place[s] = "listed" THEN [place EXCEPT ![s] = "closing"] ELSE place
        /\ raced' = (raced \/ (main = "record" /\ place[s] = "listed"))
        /\ UNCHANGED <<record, failed>>
  /\ UNCHANGED <<mainVars, stopVars, threadVars, pending, life, late>>

\* removeClosedSessionTask: shutdownSessions.clear().
Reap ==
  /\ Runs /\ io # "stopped"
  /\ \E s \in Sessions : place[s] = "closing"
  /\ place' = [s \in Sessions |-> IF place[s] = "closing" THEN "cleared" ELSE place[s]]
  /\ UNCHANGED <<mainVars, stopVars, threadVars, pending, life, record, td, historyVars>>

\* ~Session records once more.
Destroy(s) ==
  /\ Runs /\ life[s] = "alive" /\ ~Owned(s)
  /\ life' = [life EXCEPT ![s] = "destroyed"]
  /\ Recorded(s)
  /\ touched' = IF ServerDead /\ record[s] = "unsaved"
                  THEN touched \cup {<<s, "record">>} ELSE touched
  /\ UNCHANGED <<mainVars, stopVars, threadVars, place, pending, td, late, raced>>

-----------------------------------------------------------------------------
MainStep ==
  \/ LoadContents \/ Listen \/ Insert \/ Wait \/ Join \/ RecordNext \/ ClearSessions
  \/ DropMembers \/ JoinClock \/ DropContexts

Next ==
  \/ MainStep \/ AcceptFails
  \/ \E s \in Sessions : Accept(s) \/ Serve(s) \/ Teardown(s) \/ Destroy(s)
  \/ \E s \in Sessions : Block(s) \/ Unblock(s)
  \/ Signal \/ HandleSignal
  \/ SntpAnswers \/ SntpLoops \/ Reap

\* Threads run.  Nothing makes a client connect or read, or the time server answer.
Fairness ==
  /\ WF_vars(MainStep) /\ WF_vars(HandleSignal) /\ WF_vars(SntpLoops)
  /\ \A s \in Sessions : WF_vars(Destroy(s))

Spec == Init /\ [][Next]_vars

FairSpec == Spec /\ Fairness

-----------------------------------------------------------------------------
(* Properties *)

\* Every variable has its type.
TypeOK ==
  /\ main \in {"contents", "listen", "accept", "insert", "wait", "join", "record", "members",
               "clock", "contexts", "exited", "aborted"}
  /\ newest \in Sessions \cup {Nobody}
  /\ newest # Nobody <=> main = "insert"
  /\ io \in {"running", "stopping", "stopped"}
  /\ handler \in {"armed", "queued", "done"}
  /\ io = "running" <=> handler # "done"
  /\ signals \in 0 .. MaxSignals
  /\ sntp \in {"unstarted", "receiving", "sleeping", "ended"}
  /\ ticking \in BOOLEAN
  /\ toRecord \subseteq Sessions
  /\ place \in [Sessions -> {"none", "started", "listed", "unlisted", "closing", "cleared"}]
  /\ pending \in [Sessions -> {"none", "read", "posted"}]
  /\ life \in [Sessions -> {"unborn", "alive", "destroyed"}]
  /\ record \in [Sessions -> {"empty", "unsaved", "saved"}]
  /\ td \in [Sessions -> {"none", "delayed", "moving", "done"}]
  /\ blocked \subseteq Sessions
  /\ failed \subseteq Sessions
  /\ late \subseteq Sessions
  /\ raced \in BOOLEAN
  /\ touched \subseteq Sessions \X {"record", "teardown"}

\* A server that was stopped has saved the record of every session that it had
\* entered in sessions, also of one that was torn down meanwhile, unless the file
\* could not be written, the first value came from a tick behind onTeardown's look
\* at the empty record, or an onTeardown thread took the session out of the map
\* just while shutdownServer went through it.
RecordsSaved ==
  main = "exited" /\ ~raced =>
    \A s \in Sessions :
      record[s] = "unsaved" => s \in failed \cup late \/ place[s] = "unlisted"

\* The last handlers of the main io_context hold sessions that are destroyed long
\* after the server, and ~Session asks the server where to write its record: that
\* happens only to a record that could not be saved, or that got its first value
\* when onTeardown had already looked for one.
ServerOutlivesRecords ==
  ~raced => \A s \in Sessions :
    <<s, "record">> \in touched => s \in failed \cup late \/ place[s] = "unlisted"

\* Once the accept loop is left and a signal came, the process ends, unless a
\* handler that blocks keeps its thread from being joined, or the clock's thread
\* waits for an answer that never comes.  (A signal that does not interrupt
\* accept() does not end it: the main thread accepts on.)
SignalEndsProcess ==
  <>(main = "wait" /\ handler # "armed")
    => \/ <>(main = "exited")
       \/ <>[](main = "join" /\ blocked # {})
       \/ <>[](main = "clock" /\ sntp = "receiving")
=============================================================================
