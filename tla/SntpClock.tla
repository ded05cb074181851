------------------------------ MODULE SntpClock ------------------------------
(***************************************************************************)
(* The reference clock (server/SntpRefTimeProvider.cpp): a thread asks a    *)
(* time server over UDP every 3 s and keeps a pair, a UTC time and the      *)
(* reading of the steady clock that belongs to it; sessions read the pair   *)
(* and add what has elapsed.  Times are whole milliseconds.  What counts is *)
(* how far the clock is from UTC, so the state holds errors, never times:   *)
(* a value that is ahead of UTC has a positive error.                       *)
(***************************************************************************)
EXTENDS Integers

CONSTANTS
  Limit,     \* an answer that differs more from the clock is discarded (35)
  MaxDelay,  \* bound: transit time of the request, and of the answer
  MaxLag,    \* bound: time from the answer to the store of the pair
  MaxError,  \* bound: errors of the clock that are told apart
  Skews,     \* errors of the local clock that stamps the request
  Readers,   \* callers of getRefTime
  Poller,    \* the thread, as holder of the mutex
  Nobody

\* The largest error of an answer, and what it does to the clock: see Synced.
Noise == (MaxDelay + 2) \div 2
Behind == Noise + 2 * MaxLag + 3
Ahead == Noise + 2

ASSUME ClockAssumption ==
  /\ MaxDelay \in Nat /\ MaxLag \in Nat
  /\ Limit \in Nat /\ Noise + Behind <= Limit
  /\ MaxError \in Nat /\ Limit + Noise + MaxLag < MaxError
  /\ Skews \subseteq Int
  /\ Nobody # Poller /\ Nobody \notin Readers /\ Poller \notin Readers

\* So many polls may fail in a row and the next answer is still accepted.
Survivable == Limit - Noise - Behind

VARIABLES
  running,
  phase,     \* of the thread: "unstarted", "loop" (tests running), "asking",
             \* "receiving", "answered", "filtered" (waits for the mutex),
             \* "ntpTime", "elapsedTime" (what it stores next), "sleeping", "ended"
  origin,    \* originSntpTime: its error when the answer came
  lag,       \* time since then
  isSet,     \* ntpTimeMs is not UNSET
  err,       \* error of the pair
  ntp, elapsed,  \* which of two versions the halves of the pair have
  lock,
  reader,    \* by reader: the version of ntpTimeMs that it has loaded, or -1
  torn,      \* history: a reader has used halves of two different pairs
  slack,     \* history: 1 for every poll that failed, halved by every answer that is
             \* taken; up to Survivable + 1
  stale      \* history: slack was more than Survivable

threadVars == <<running, phase, origin, lag>>
pairVars == <<isSet, err, ntp, elapsed>>
readVars == <<reader, torn>>
pollVars == <<slack, stale>>
vars == <<threadVars, pairVars, lock, readVars, pollVars>>

Init ==
  /\ running = FALSE
  /\ phase = "unstarted"
  /\ origin = 0 /\ lag = 0
  /\ isSet = FALSE /\ err = 0
  /\ ntp = 0 /\ elapsed = 0
  /\ lock = Nobody
  /\ reader = [r \in Readers |-> -1]
  /\ torn = FALSE
  /\ slack = 0 /\ stale = FALSE

-----------------------------------------------------------------------------
(* Arithmetic of an answer *)

Abs(n) == IF n >= 0 THEN n ELSE -n

\* Integer division of the code truncates toward zero.
Half(n) == IF n >= 0 THEN n \div 2 ELSE -((-n) \div 2)

\* responseTime + clockOffset: the local clock's skew is in both and cancels but
\* for the rounding; the echo of the request's time stamp may be 1 ms early.
Measured(there, back, skew, early) == skew + Half((there + early - back) - 2 * skew)

\* curRefTime is read some time after the answer came.
Difference(later) == origin - later - err

\* Faulty variant: the answer is taken as it is.
FilteredNot(later) == origin

\* Faulty variant: half the difference is added.
FilteredAway(later) == (3 * origin - later - err) \div 2

\* originSntpTime - 0.5 * diff is positive, so that the cast rounds down.
Filtered(later) == (origin + later + err) \div 2

-----------------------------------------------------------------------------
(* The thread *)

start ==
  /\ phase = "unstarted"
  /\ running' = TRUE
  /\ phase' = "loop"
  /\ UNCHANGED <<origin, lag, pairVars, lock, readVars, pollVars>>

\* The destructor, which then joins the thread.
Stop ==
  /\ running
  /\ running' = FALSE
  /\ UNCHANGED <<phase, origin, lag, pairVars, lock, readVars, pollVars>>

Goes(from, to) == phase = from /\ phase' = to

Loop ==
  /\ phase = "loop"
  /\ phase' = IF running THEN "asking" ELSE "ended"
  /\ UNCHANGED <<running, origin, lag, pairVars, lock, readVars, pollVars>>

Ask ==
  /\ Goes("asking", "receiving")
  /\ UNCHANGED <<running, origin, lag, pairVars, lock, readVars, pollVars>>

Miss ==
  /\ slack' = IF slack > Survivable THEN slack ELSE slack + 1
  /\ stale' = (stale \/ slack' > Survivable)

\* The name is not resolved or the request is not sent, which throws; or the
\* datagram that comes is empty.
PollFails ==
  /\ Goes("asking", "sleeping") \/ Goes("receiving", "sleeping")
  /\ Miss
  /\ UNCHANGED <<running, origin, lag, pairVars, lock, readVars>>

Answer ==
  /\ Goes("receiving", "answered")
  /\ \E there, back \in 0 .. MaxDelay, skew \in Skews, early \in 0 .. 1 :
       origin' = Measured(there, back, skew, early)
  /\ lag' = 0
  /\ UNCHANGED <<running, pairVars, lock, readVars, pollVars>>

(* onReadSntpTime up to its last lock *)

\* Faulty variant: the sign of the difference is not taken off.
AcceptedSigned(later) == ~isSet \/ Difference(later) <= Limit

Accepted(later) == ~isSet \/ Abs(Difference(later)) <= Limit

Accept(later) ==
  /\ lock = Nobody
  /\ Goes("answered", "filtered")
  /\ Accepted(later)
  /\ origin' = IF isSet THEN Filtered(later) ELSE origin
  /\ lag' = later
  /\ UNCHANGED <<running, pairVars, lock, readVars, pollVars>>

\* The next answer overwrites originSntpTime, and nothing reads it before.
Forget == origin' = 0 /\ lag' = 0

Discard(later) ==
  /\ lock = Nobody
  /\ Goes("answered", "sleeping")
  /\ ~Accepted(later)
  /\ Forget
  /\ UNCHANGED <<running, pairVars, lock, readVars, pollVars>>

\* Faulty variant: the mutex is not taken.
LockPairNot ==
  /\ Goes("filtered", "ntpTime")
  /\ UNCHANGED <<running, origin, lag, pairVars, lock, readVars, pollVars>>

LockPair ==
  /\ lock = Nobody
  /\ Goes("filtered", "ntpTime")
  /\ lock' = Poller
  /\ UNCHANGED <<running, origin, lag, pairVars, readVars, pollVars>>

StoreNtpTime ==
  /\ Goes("ntpTime", "elapsedTime")
  /\ isSet' = TRUE
  /\ ntp' = 1 - ntp
  /\ UNCHANGED <<running, origin, lag, err, elapsed, lock, readVars, pollVars>>

\* The steady clock is read now and not when the answer came.
StoreElapsedTime(later) ==
  /\ Goes("elapsedTime", "sleeping")
  /\ lag + later <= MaxLag
  /\ elapsed' = ntp
  /\ err' = origin - lag - later
  /\ lock' = IF lock = Poller THEN Nobody ELSE lock
  /\ slack' = slack \div 2
  /\ Forget
  /\ UNCHANGED <<running, isSet, ntp, readVars, stale>>

\* A period goes by, in which the steady clock gains or loses 1 ms at most.
Drifts ==
  \E d \in -1 .. 1 : err' = IF isSet /\ Abs(err + d) <= MaxError THEN err + d ELSE err

Sleep ==
  /\ Goes("sleeping", "loop")
  /\ Drifts
  /\ UNCHANGED <<running, origin, lag, isSet, ntp, elapsed, lock, readVars, pollVars>>

\* receive_from has no timeout: while no answer comes, time goes by.
NoAnswer ==
  /\ phase = "receiving"
  /\ Drifts
  /\ Miss
  /\ UNCHANGED <<threadVars, isSet, ntp, elapsed, lock, readVars>>

-----------------------------------------------------------------------------
(* getRefTime, in the threads of the sessions *)

ReadNtpTime(r) ==
  /\ reader[r] = -1 /\ lock = Nobody
  /\ isSet
  /\ lock' = r
  /\ reader' = [reader EXCEPT ![r] = ntp]
  /\ UNCHANGED <<threadVars, pairVars, torn, pollVars>>

ReadElapsedTime(r) ==
  /\ lock = r
  /\ lock' = Nobody
  /\ torn' = (torn \/ reader[r] # elapsed)
  /\ reader' = [reader EXCEPT ![r] = -1]
  /\ UNCHANGED <<threadVars, pairVars, pollVars>>

-----------------------------------------------------------------------------
Lags == 0 .. MaxLag

TakesLock == LockPair \/ \E later \in Lags : Accept(later) \/ Discard(later)

ThreadStep ==
  \/ Loop \/ Ask \/ StoreNtpTime \/ Sleep
  \/ \E later \in Lags : StoreElapsedTime(later)

Next ==
  \/ start \/ Stop
  \/ ThreadStep \/ TakesLock
  \/ PollFails \/ Answer \/ NoAnswer
  \/ \E r \in Readers : ReadNtpTime(r) \/ ReadElapsedTime(r)

Spec == Init /\ [][Next]_vars

-----------------------------------------------------------------------------
(* Properties *)

\* Every variable has its type, and who holds the mutex is inside its section.
TypeOK ==
  /\ running \in BOOLEAN
  /\ phase \in {"unstarted", "loop", "asking", "receiving", "answered", "filtered",
                "ntpTime", "elapsedTime", "sleeping", "ended"}
  /\ origin \in Int
  /\ lag \in Lags
  /\ isSet \in BOOLEAN
  /\ err \in Int
  /\ ntp \in 0 .. 1 /\ elapsed \in 0 .. 1
  /\ lock \in Readers \cup {Poller, Nobody}
  /\ lock = Poller <=> phase \in {"ntpTime", "elapsedTime"}
  /\ reader \in [Readers -> -1 .. 1]
  /\ \A r \in Readers : lock = r <=> reader[r] # -1
  /\ torn \in BOOLEAN
  /\ slack \in 0 .. Survivable + 1
  /\ stale \in BOOLEAN

\* The pair is stored and read half by half; no session ever computes a time
\* from halves of two pairs (a period apart), since all take the mutex.
ReadsWholePair == ~torn

\* As long as polls do not fail too often, the clock stays near UTC: each failed
\* poll lets it drift, each answer halves what has added up, and none is taken
\* for a spike.  The clock is late rather than early,
\* because the pair is stored after the answer came.
Synced ==
  isSet /\ ~stale => err \in -(Behind + slack) .. Ahead + slack

\* No answer moves the clock by more than half the limit and the lag: between
\* two readings the reference time never falls back by more than that.
StepsAreSmall ==
  [][isSet /\ isSet' => Abs(err' - err) <= (Limit + 1) \div 2 + MaxLag]_vars

\* A clock that is further from UTC than the limit and the errors of an answer
\* is never corrected again: every later answer, right as it is, is discarded.
LostForGood ==
  [][isSet /\ Abs(err) > Limit + Noise + MaxLag => ntp' = ntp]_vars
=============================================================================
