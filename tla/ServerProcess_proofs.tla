------------------------- MODULE ServerProcess_proofs -------------------------
(***************************************************************************)
(* Theorems about ServerProcess for every number of sessions and signals:  *)
(* what is stopped when, and whose record is saved.                         *)
(***************************************************************************)
EXTENDS ServerProcess, TLAPS

-----------------------------------------------------------------------------
(* Types, and what main has waited for *)

Joined == {"record", "members", "clock", "contexts", "exited"}

\* The handler has run before main joins; the io_contexts have ended after it.
Stages ==
  /\ main \in {"join"} \cup Joined => handler = "done"
  /\ main \in Joined => io = "stopped"

Typed == TypeOK /\ Stages

LEMMA InitTyped == Init => Typed
<1> SUFFICES ASSUME Init PROVE Typed
  OBVIOUS
<1>1. signals \in 0 .. MaxSignals
  BY ProcessAssumption DEF Init
<1>2. (newest # Nobody <=> main = "insert") /\ (io = "running" <=> handler # "done")
  BY DEF Init
<1>3. Stages
  BY DEF Init, Stages, Joined
<1>4. /\ main = "contents" /\ newest = Nobody /\ toRecord = {} /\ io = "running"
      /\ handler = "armed" /\ sntp = "unstarted"
  BY DEF Init
<1>5. ticking \in BOOLEAN /\ raced \in BOOLEAN
  BY Zenon DEF Init
<1>6. failed = {} /\ late = {} /\ touched = {} /\ blocked = {}
  BY DEF Init
<1>7. /\ place \in [Sessions -> {"none", "started", "listed", "unlisted", "closing", "cleared"}]
      /\ pending \in [Sessions -> {"none", "read", "posted"}]
      /\ life \in [Sessions -> {"unborn", "alive", "destroyed"}]
      /\ record \in [Sessions -> {"empty", "unsaved", "saved"}]
      /\ td \in [Sessions -> {"none", "delayed", "moving", "done"}]
  BY DEF Init
<1> QED
  BY <1>1, <1>2, <1>3, <1>4, <1>5, <1>6, <1>7 DEF Typed, TypeOK

\* Of a session, a step changes the parts that are named in the action.
LEMMA RecordedType ==
  ASSUME TypeOK, NEW s \in Sessions, Recorded(s)
  PROVE  record' \in [Sessions -> {"empty", "unsaved", "saved"}] /\ failed' \subseteq Sessions
BY DEF TypeOK, Recorded

LEMMA MainTyped ==
  ASSUME Typed, MainStep
  PROVE  Typed'
<1> USE ProcessAssumption DEF Typed, TypeOK, Stages, Joined, mainVars, stopVars, clockVars, threadVars,
        sessionVars, historyVars, MainGoes
<1>1. CASE LoadContents
  BY <1>1 DEF LoadContents
<1>2. CASE Listen
  BY <1>2 DEF Listen
<1>3. CASE Insert
  BY <1>3 DEF Insert
<1>4. CASE Wait
  BY <1>4 DEF Wait
<1>5. CASE Join
  BY <1>5 DEF Join
<1>6. CASE RecordNext
  BY <1>6, RecordedType DEF RecordNext
<1>7. CASE ClearSessions
  BY <1>7 DEF ClearSessions
<1>8. CASE DropMembers
  BY <1>8 DEF DropMembers
<1>9. CASE JoinClock
  BY <1>9 DEF JoinClock
<1>10. CASE DropContexts
  BY <1>10 DEF DropContexts
<1> QED
  BY <1>1, <1>2, <1>3, <1>4, <1>5, <1>6, <1>7, <1>8, <1>9, <1>10 DEF MainStep

LEMMA SessionTyped ==
  ASSUME Typed, NEW s \in Sessions,
         Accept(s) \/ Serve(s) \/ Teardown(s) \/ Destroy(s) \/ Block(s) \/ Unblock(s)
  PROVE  Typed'
<1> USE ProcessAssumption DEF Typed, TypeOK, Stages, Joined, mainVars, stopVars, clockVars, threadVars,
        sessionVars, historyVars, MainGoes
<1>1. CASE Accept(s)
  BY <1>1 DEF Accept
<1>2. CASE Serve(s)
  BY <1>2 DEF Serve
<1>3. CASE Teardown(s)
  <2>1. record' \in [Sessions -> {"empty", "unsaved", "saved"}] /\ failed' \subseteq Sessions
    BY <1>3, RecordedType DEF Teardown
  <2>2. td' \in [Sessions -> {"none", "delayed", "moving", "done"}]
    BY <1>3 DEF Teardown
  <2>3. place' \in [Sessions -> {"none", "started", "listed", "unlisted", "closing", "cleared"}]
    BY <1>3 DEF Teardown
  <2>4. raced' \in BOOLEAN
    BY <1>3, Zenon DEF Teardown
  <2>5. touched' \subseteq Sessions \X {"record", "teardown"}
    BY <1>3 DEF Teardown
  <2> QED
    BY <1>3, <2>1, <2>2, <2>3, <2>4, <2>5 DEF Teardown
<1>4. CASE Destroy(s)
  BY <1>4, RecordedType DEF Destroy
<1>5. CASE Block(s) \/ Unblock(s)
  BY <1>5 DEF Block, Unblock
<1> QED
  BY <1>1, <1>2, <1>3, <1>4, <1>5

LEMMA StepTyped == Typed /\ [Next]_vars => Typed'
<1> SUFFICES ASSUME Typed, [Next]_vars PROVE Typed'
  OBVIOUS
<1> USE ProcessAssumption DEF Typed, TypeOK, Stages, Joined, mainVars, stopVars, clockVars, threadVars,
        sessionVars, historyVars, MainGoes
<1>1. CASE UNCHANGED vars
  BY <1>1 DEF vars
<1>2. CASE AcceptFails
  BY <1>2 DEF AcceptFails
<1>3. CASE Signal
  BY <1>3 DEF Signal, Runs
<1>4. CASE HandleSignal
  BY <1>4 DEF HandleSignal
<1>5. CASE SntpAnswers
  BY <1>5 DEF SntpAnswers
<1>6. CASE SntpLoops
  BY <1>6 DEF SntpLoops
<1>7. CASE Reap
  BY <1>7 DEF Reap
<1> QED
  BY <1>1, <1>2, <1>3, <1>4, <1>5, <1>6, <1>7, MainTyped, SessionTyped DEF Next

\* The type invariant of the process.
THEOREM ProcessTyped == Spec => []TypeOK
<1>1. Typed => TypeOK
  BY DEF Typed
<1> QED
  BY <1>1, InitTyped, StepTyped, PTL DEF Spec

-----------------------------------------------------------------------------
(* Whose record may be left unsaved *)

\* The record of s is saved, has nothing to save, could not be written, or got its
\* first value when onTeardown had already looked for one.
Settled(s) == record[s] # "unsaved" \/ s \in failed \cup late

\* What becomes of s in the maps, and how far its record is settled there.
\* onTeardown settles it before it takes s out of sessions, shutdownServer while
\* it goes through sessions; nothing is entered any more once the io_contexts
\* have ended, and once onTeardown has begun to move s nothing that is not late.
Traced(s) ==
  /\ place[s] = "none" => life[s] = "unborn" /\ record[s] = "empty"
  /\ place[s] = "started" <=> newest = s
  /\ td[s] \in {"moving", "done"} => Settled(s)
  /\ place[s] = "closing" => td[s] = "done"
  /\ place[s] = "cleared" => td[s] = "done" \/ (io = "stopped" /\ (raced \/ Settled(s)))
  /\ main = "record" /\ place[s] = "listed" => raced \/ s \in toRecord \/ Settled(s)
  /\ main \in Joined \ {"record"} => place[s] # "listed"

\* A destroyed server was asked for the path of a record only for these.
AskedLate(s) == ~raced /\ <<s, "record">> \in touched => s \in failed \cup late \/ place[s] = "unlisted"

IInv == Typed /\ \A s \in Sessions : Traced(s) /\ AskedLate(s)

LEMMA InitTraced == Init => IInv
<1> SUFFICES ASSUME Init PROVE IInv
  OBVIOUS
<1>1. Typed
  BY InitTyped
<1>2. ASSUME NEW s \in Sessions PROVE Traced(s) /\ AskedLate(s)
  BY ProcessAssumption DEF Init, Traced, AskedLate, Settled, Joined
<1> QED
  BY <1>1, <1>2 DEF IInv

\* After the join, a record that is left unsaved is one that could not be
\* written, one that was begun late, or that of a session the server has never entered.
LEMMA LeftUnsaved ==
  ASSUME IInv, ~raced, main \in Joined \ {"record"}, NEW s \in Sessions, record[s] = "unsaved"
  PROVE  s \in failed \cup late \/ place[s] = "unlisted"
<1>1. Traced(s) /\ Typed
  BY DEF IInv
<1>2. newest = Nobody /\ s # Nobody
  BY <1>1, ProcessAssumption DEF Typed, TypeOK, Joined
<1>3. place[s] \in {"none", "started", "listed", "unlisted", "closing", "cleared"}
  BY <1>1 DEF Typed, TypeOK
<1> QED
  BY <1>1, <1>2, <1>3 DEF Traced, Settled

\* Recording settles the record of one session and leaves the others' alone.
LEMMA RecordedSettles ==
  ASSUME TypeOK, NEW s \in Sessions, Recorded(s), UNCHANGED late, NEW o \in Sessions
  PROVE  /\ Settled(o) => Settled(o)'
         /\ o = s => Settled(o)'
         /\ failed \subseteq failed'
         /\ o # s => record'[o] = record[o]
         /\ record[o] = "empty" => record'[o] = "empty"
BY DEF TypeOK, Recorded, Settled

LEMMA MainTraced ==
  ASSUME IInv, MainStep, NEW o \in Sessions
  PROVE  (Traced(o) /\ AskedLate(o))'
<1>1. Typed /\ TypeOK /\ Stages /\ Traced(o) /\ AskedLate(o)
  BY DEF IInv, Typed
<1>2. /\ place[o] \in {"none", "started", "listed", "unlisted", "closing", "cleared"}
      /\ place \in [Sessions -> {"none", "started", "listed", "unlisted", "closing", "cleared"}]
  BY <1>1 DEF TypeOK
<1> USE DEF Traced, AskedLate, Settled, Stages, Joined, mainVars, stopVars, clockVars, threadVars,
        sessionVars, historyVars, MainGoes
<1>3. CASE LoadContents
  BY <1>1, <1>3 DEF LoadContents
<1>4. CASE Listen
  BY <1>1, <1>4 DEF Listen
<1>5. CASE Insert
  <2>1. newest \in Sessions /\ o # Nobody
    BY <1>1, <1>5, ProcessAssumption DEF Insert, TypeOK
  <2>2. /\ main' = "accept" /\ newest' = Nobody
        /\ place' = [place EXCEPT ![newest] = "listed"]
        /\ UNCHANGED <<io, life, record, td, failed, late, raced, touched>>
    BY <1>5 DEF Insert
  <2>3. CASE o = newest
    BY <1>1, <1>2, <2>1, <2>2, <2>3
  <2>4. CASE o # newest
    BY <1>1, <1>2, <2>1, <2>2, <2>4
  <2> QED
    BY <2>3, <2>4
<1>6. CASE Wait
  BY <1>1, <1>6 DEF Wait
<1>7. CASE Join
  BY <1>1, <1>2, <1>7 DEF Join
<1>8. CASE RecordNext
  <2>1. CASE raced /\ UNCHANGED <<record, failed>>
    BY <1>1, <1>8, <2>1 DEF RecordNext
  <2>2. ASSUME NEW s \in toRecord, Recorded(s), toRecord' = toRecord \ {s}
        PROVE  (Traced(o) /\ AskedLate(o))'
    <3>1. s \in Sessions
      BY <1>1 DEF TypeOK
    <3>2. /\ Settled(o) => Settled(o)'
          /\ o = s => Settled(o)'
          /\ failed \subseteq failed'
          /\ record[o] = "empty" => record'[o] = "empty"
      BY <1>1, <1>8, <2>2, <3>1, RecordedSettles DEF RecordNext
    <3>3. UNCHANGED <<main, newest, io, place, life, td, late, raced, touched>> /\ main = "record"
      BY <1>8 DEF RecordNext
    <3> QED
      BY <1>1, <2>2, <3>2, <3>3
  <2> QED
    BY <1>8, <2>1, <2>2 DEF RecordNext
<1>9. CASE ClearSessions
  BY <1>1, <1>2, <1>9 DEF ClearSessions
<1>10. CASE DropMembers
  BY <1>1, <1>2, <1>10 DEF DropMembers
<1>11. CASE JoinClock
  BY <1>1, <1>11 DEF JoinClock
<1>12. CASE DropContexts
  BY <1>1, <1>12 DEF DropContexts
<1> QED
  BY <1>3, <1>4, <1>5, <1>6, <1>7, <1>8, <1>9, <1>10, <1>11, <1>12 DEF MainStep

LEMMA SessionTraced ==
  ASSUME IInv, NEW s \in Sessions,
         Accept(s) \/ Serve(s) \/ Teardown(s) \/ Destroy(s) \/ Block(s) \/ Unblock(s),
         NEW o \in Sessions
  PROVE  (Traced(o) /\ AskedLate(o))'
<1>1. Typed /\ TypeOK /\ Stages /\ Traced(o) /\ AskedLate(o)
  BY DEF IInv, Typed
<1>2. /\ place \in [Sessions -> {"none", "started", "listed", "unlisted", "closing", "cleared"}]
      /\ life \in [Sessions -> {"unborn", "alive", "destroyed"}]
      /\ record \in [Sessions -> {"empty", "unsaved", "saved"}]
      /\ td \in [Sessions -> {"none", "delayed", "moving", "done"}]
  BY <1>1 DEF TypeOK
<1> USE DEF Traced, AskedLate, Stages, Joined, mainVars, stopVars, clockVars, threadVars,
        sessionVars, historyVars, MainGoes
<1>3. CASE Accept(s)
  <2>1. newest = Nobody
    BY <1>1, <1>3 DEF Accept, TypeOK
  <2>2. place[o] # "started"
    BY <1>1, <2>1, ProcessAssumption
  <2>3. /\ main' = "insert" /\ newest' = s /\ place[s] = "none"
        /\ place' = [place EXCEPT ![s] = "started"]
        /\ life' = [life EXCEPT ![s] = "alive"]
        /\ UNCHANGED <<toRecord, io, record, td, failed, late, raced, touched>>
    BY <1>3 DEF Accept
  <2>4. Settled(o) <=> Settled(o)'
    BY <2>3 DEF Settled
  <2>5. CASE o = s
    BY <1>1, <1>2, <2>3, <2>4, <2>5
  <2>6. CASE o # s
    BY <1>1, <1>2, <2>2, <2>3, <2>4, <2>6
  <2> QED
    BY <2>5, <2>6
<1>4. CASE Serve(s)
  BY <1>1, <1>2, <1>4 DEF Serve, Settled
<1>5. CASE Teardown(s)
  <2>1. CASE td[s] = "delayed" /\ td' = [td EXCEPT ![s] = "moving"] /\ Recorded(s)
             /\ UNCHANGED <<place, raced>>
    <3>1. /\ Settled(o) => Settled(o)'
          /\ o = s => Settled(o)'
          /\ failed \subseteq failed'
          /\ record[o] = "empty" => record'[o] = "empty"
      BY <1>1, <1>5, <2>1, RecordedSettles DEF Teardown
    <3>2. /\ UNCHANGED <<main, newest, toRecord, io, life, place, late, raced>>
          /\ <<o, "record">> \in touched' => <<o, "record">> \in touched
      BY <1>5, <2>1 DEF Teardown
    <3>3. o # s => td'[o] = td[o]
      BY <1>2, <2>1
    <3>4. o = s => td[o] = "delayed" /\ td'[o] = "moving"
      BY <1>2, <2>1
    <3> QED
      BY <1>1, <3>1, <3>2, <3>3, <3>4
  <2>2. CASE td[s] = "moving" /\ UNCHANGED <<record, failed>>
    <3>1. /\ td' = [td EXCEPT ![s] = "done"]
          /\ place' = (IF place[s] = "listed" THEN [place EXCEPT ![s] = "closing"] ELSE place)
          /\ UNCHANGED <<main, newest, toRecord, io, life, record, failed, late>>
          /\ <<o, "record">> \in touched' => <<o, "record">> \in touched
          /\ raced => raced'
      BY <1>5, <2>2 DEF Teardown
    <3>2. (Settled(o) <=> Settled(o)') /\ (AskedLate(o))'
      BY <1>1, <1>2, <3>1 DEF Settled
    <3> QED
      BY <1>1, <1>2, <2>2, <3>1, <3>2
  <2> QED
    BY <1>5, <2>1, <2>2 DEF Teardown
<1>6. CASE Destroy(s)
  <2>1. /\ Settled(o) => Settled(o)'
        /\ failed \subseteq failed'
        /\ record[o] = "empty" => record'[o] = "empty"
    BY <1>1, <1>6, RecordedSettles DEF Destroy
  <2>2. /\ UNCHANGED <<main, newest, toRecord, io, place, td, late, raced>>
        /\ life' = [life EXCEPT ![s] = "destroyed"] /\ life[s] = "alive"
    BY <1>6 DEF Destroy
  <2>3. Traced(o)'
    BY <1>1, <1>2, <2>1, <2>2
  <2>4. CASE <<o, "record">> \in touched
    BY <1>1, <2>1, <2>2, <2>4
  <2>5. CASE <<o, "record">> \in touched' /\ <<o, "record">> \notin touched
    <3>1. ServerDead /\ record[s] = "unsaved" /\ o = s
      BY <1>6, <2>5 DEF Destroy
    <3>2. ~raced => s \in failed \cup late \/ place[s] = "unlisted"
      BY <3>1, LeftUnsaved DEF ServerDead
    <3> QED
      BY <2>1, <2>2, <2>3, <3>1, <3>2
  <2>6. CASE <<o, "record">> \notin touched'
    BY <2>3, <2>6
  <2> QED
    BY <2>3, <2>4, <2>5, <2>6
<1>7. CASE Block(s) \/ Unblock(s)
  BY <1>1, <1>7 DEF Block, Unblock, Settled
<1> QED
  BY <1>3, <1>4, <1>5, <1>6, <1>7

LEMMA StepTraced == IInv /\ [Next]_vars => IInv'
<1> SUFFICES ASSUME IInv, [Next]_vars PROVE IInv'
  OBVIOUS
<1>1. Typed'
  BY StepTyped DEF IInv
<1>2. ASSUME NEW o \in Sessions PROVE (Traced(o) /\ AskedLate(o))'
  <2>1. TypeOK /\ Stages /\ Traced(o) /\ AskedLate(o)
    BY DEF IInv, Typed
  <2>2. place \in [Sessions -> {"none", "started", "listed", "unlisted", "closing", "cleared"}]
    BY <2>1 DEF TypeOK
  <2> USE <2>1, <2>2 DEF Traced, AskedLate, Settled, Stages, Joined, mainVars, stopVars, clockVars, threadVars,
          sessionVars, historyVars, MainGoes
  <2>3. CASE UNCHANGED vars
    BY <2>3 DEF vars
  <2>4. CASE AcceptFails
    <3>1. o # Nobody /\ newest' = Nobody /\ main' = "wait"
          /\ UNCHANGED <<io, life, record, td, failed, late, raced, touched>>
      BY <2>4, ProcessAssumption DEF AcceptFails
    <3>2. CASE main = "accept" /\ UNCHANGED place
      <4>1. newest = Nobody
        BY <3>2 DEF TypeOK
      <4> QED
        BY <3>1, <3>2, <4>1
    <3>3. CASE main = "insert" /\ place' = [place EXCEPT ![newest] = "unlisted"]
      BY <3>1, <3>3
    <3> QED
      BY <2>4, <3>2, <3>3 DEF AcceptFails
  <2>5. CASE Signal
    BY <2>5 DEF Signal
  <2>6. CASE HandleSignal
    BY <2>6 DEF HandleSignal
  <2>7. CASE SntpAnswers
    BY <2>7 DEF SntpAnswers
  <2>8. CASE SntpLoops
    BY <2>8 DEF SntpLoops
  <2>9. CASE Reap
    BY <2>9 DEF Reap
  <2> QED
    BY <2>3, <2>4, <2>5, <2>6, <2>7, <2>8, <2>9, MainTraced, SessionTraced DEF Next
<1> QED
  BY <1>1, <1>2 DEF IInv

\* A server that was stopped has saved the record of every session that it had
\* entered in sessions, unless the file could not be written, the first value was
\* entered after onTeardown had found none, or an onTeardown thread changed the map
\* under shutdownServer (Server::shutdownServer, Session::recordBitrateTestResult).
THEOREM AllRecordsSaved == Spec => []RecordsSaved
<1>1. IInv => RecordsSaved
  BY LeftUnsaved DEF RecordsSaved, Joined
<1> QED
  BY <1>1, InitTraced, StepTraced, PTL DEF Spec

\* A destroyed server is asked where to write a record only for one that could not
\* be saved or was begun late (~Session, main's order of destruction).
THEOREM ServerOutlives == Spec => []ServerOutlivesRecords
<1>1. IInv => ServerOutlivesRecords
  BY DEF IInv, AskedLate, ServerOutlivesRecords
<1> QED
  BY <1>1, InitTraced, StepTraced, PTL DEF Spec
=============================================================================
