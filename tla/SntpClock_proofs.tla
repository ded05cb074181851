--------------------------- MODULE SntpClock_proofs ---------------------------
(***************************************************************************)
(* What is proved of SntpClock, for every limit, delay and lag.             *)
(***************************************************************************)
EXTENDS SntpClock, TLAPS

\* The local clock's skew cancels: the error of an answer is half the difference
\* of the transit times, however wrong the clock is that stamps the request.
LEMMA SkewCancels ==
  ASSUME NEW there \in 0 .. MaxDelay, NEW back \in 0 .. MaxDelay,
         NEW skew \in Int, NEW early \in 0 .. 1
  PROVE  Measured(there, back, skew, early) \in -Noise .. Noise
<1>1. MaxDelay \in Nat
  BY ClockAssumption
<1>. DEFINE x == there + early - back
<1>2. x \in -MaxDelay .. MaxDelay + 1
  BY <1>1
<1>3. CASE x - 2 * skew >= 0
  <2>1. Measured(there, back, skew, early) = skew + (x - 2 * skew) \div 2
    BY <1>3 DEF Measured, Half
  <2>. QED
    BY <1>1, <1>2, <2>1 DEF Noise
<1>4. CASE x - 2 * skew < 0
  <2>1. Measured(there, back, skew, early) = skew - ((2 * skew - x) \div 2)
    BY <1>4, <1>2 DEF Measured, Half
  <2>. QED
    BY <1>1, <1>2, <2>1 DEF Noise
<1>. QED
  BY <1>2, <1>3, <1>4

-----------------------------------------------------------------------------
(* Types *)

LEMMA ClockConstants ==
  /\ MaxDelay \in Nat /\ MaxLag \in Nat /\ Limit \in Nat
  /\ Noise \in Nat /\ Behind \in Nat /\ Ahead \in Nat /\ Survivable \in Nat
  /\ Noise >= 1
BY ClockAssumption DEF Noise, Behind, Ahead, Survivable

\* One step per action; the mutex ties the phase of the thread to its holder.
LEMMA TypeStep == ASSUME TypeOK, [Next]_vars PROVE TypeOK'
<1>. USE ClockAssumption, ClockConstants DEF TypeOK, Goes, Lags
<1>1. CASE start
  BY <1>1 DEF start, pairVars, readVars, pollVars
<1>2. CASE Stop
  BY <1>2 DEF Stop, pairVars, readVars, pollVars
<1>3. CASE Loop
  BY <1>3 DEF Loop, pairVars, readVars, pollVars
<1>4. CASE Ask
  BY <1>4 DEF Ask, pairVars, readVars, pollVars
<1>5. CASE StoreNtpTime
  BY <1>5 DEF StoreNtpTime, readVars, pollVars
<1>6. CASE Sleep
  BY <1>6 DEF Sleep, Drifts, readVars, pollVars
<1>7. CASE LockPair
  BY <1>7 DEF LockPair, pairVars, readVars, pollVars
<1>8. CASE PollFails
  BY <1>8 DEF PollFails, Miss, pairVars, readVars
<1>9. CASE Answer
  <2>. PICK there \in 0 .. MaxDelay, back \in 0 .. MaxDelay, skew \in Skews, early \in 0 .. 1 :
         origin' = Measured(there, back, skew, early)
    BY <1>9 DEF Answer
  <2>1. origin' \in Int
    <3>1. skew \in Int
      OBVIOUS
    <3>2. origin' \in -Noise .. Noise
      BY <3>1, SkewCancels
    <3>. QED
      BY <3>2
  <2>. QED
    BY <1>9, <2>1 DEF Answer, pairVars, readVars, pollVars
<1>10. CASE NoAnswer
  BY <1>10 DEF NoAnswer, Drifts, Miss, threadVars, readVars
<1>11. ASSUME NEW later \in Lags, StoreElapsedTime(later) PROVE TypeOK'
  BY <1>11 DEF StoreElapsedTime, Forget, readVars
<1>12. ASSUME NEW later \in Lags, Accept(later) PROVE TypeOK'
  BY <1>12 DEF Accept, Filtered, pairVars, readVars, pollVars
<1>13. ASSUME NEW later \in Lags, Discard(later) PROVE TypeOK'
  BY <1>13 DEF Discard, Forget, pairVars, readVars, pollVars
<1>14. ASSUME NEW r \in Readers, ReadNtpTime(r) PROVE TypeOK'
  BY <1>14 DEF ReadNtpTime, threadVars, pairVars, pollVars
<1>15. ASSUME NEW r \in Readers, ReadElapsedTime(r) PROVE TypeOK'
  BY <1>15 DEF ReadElapsedTime, threadVars, pairVars, pollVars
<1>16. CASE UNCHANGED vars
  BY <1>16 DEF vars, threadVars, pairVars, readVars, pollVars
<1>. QED
  BY <1>1, <1>2, <1>3, <1>4, <1>5, <1>6, <1>7, <1>8, <1>9, <1>10, <1>11, <1>12, <1>13,
     <1>14, <1>15, <1>16 DEF Next, ThreadStep, TakesLock

\* Type correctness: the variables have their types, and the mutex is held
\* exactly by who stores or reads the pair.
THEOREM ClockTyped == Spec => []TypeOK
<1>1. Init => TypeOK
  <2>. SUFFICES ASSUME Init PROVE TypeOK
    OBVIOUS
  <2>1. /\ lock = Poller <=> phase \in {"ntpTime", "elapsedTime"}
        /\ \A r \in Readers : lock = r <=> reader[r] # -1
    BY ClockAssumption DEF Init
  <2>2. /\ lock \in Readers \cup {Poller, Nobody}
        /\ reader \in [Readers -> -1 .. 1]
    BY DEF Init
  <2>3. /\ running \in BOOLEAN /\ isSet \in BOOLEAN /\ torn \in BOOLEAN /\ stale \in BOOLEAN
        /\ phase = "unstarted"
    BY DEF Init
  <2>4. /\ origin \in Int /\ err \in Int
        /\ lag \in Lags /\ slack \in 0 .. Survivable + 1
        /\ ntp \in 0 .. 1 /\ elapsed \in 0 .. 1
    BY ClockConstants DEF Init, Lags
  <2>. QED
    BY <2>1, <2>2, <2>3, <2>4, Zenon DEF TypeOK
<1>. QED
  BY <1>1, TypeStep, PTL DEF Spec

-----------------------------------------------------------------------------
(* The pair *)

\* Outside the thread's section both halves have one version, and a reader that
\* has the mutex has loaded that one.
WholePair ==
  /\ ~torn
  /\ phase # "elapsedTime" => ntp = elapsed
  /\ \A r \in Readers : lock = r => reader[r] = ntp

LEMMA WholePairStep == ASSUME TypeOK, WholePair, [Next]_vars PROVE WholePair'
<1>. USE ClockAssumption DEF WholePair, TypeOK, Goes
<1>1. CASE start
  BY <1>1 DEF start, pairVars, readVars
<1>2. CASE Stop
  BY <1>2 DEF Stop, pairVars, readVars
<1>3. CASE Loop
  BY <1>3 DEF Loop, pairVars, readVars
<1>4. CASE Ask
  BY <1>4 DEF Ask, pairVars, readVars
<1>5. CASE StoreNtpTime
  BY <1>5 DEF StoreNtpTime, readVars
<1>6. CASE Sleep
  BY <1>6 DEF Sleep, readVars
<1>7. CASE LockPair
  BY <1>7 DEF LockPair, pairVars, readVars
<1>8. CASE PollFails
  BY <1>8 DEF PollFails, pairVars, readVars
<1>9. CASE Answer
  BY <1>9 DEF Answer, pairVars, readVars
<1>10. CASE NoAnswer
  BY <1>10 DEF NoAnswer, threadVars, readVars
<1>11. ASSUME NEW later \in Lags, StoreElapsedTime(later) PROVE WholePair'
  BY <1>11 DEF StoreElapsedTime, readVars
<1>12. ASSUME NEW later \in Lags, Accept(later) PROVE WholePair'
  BY <1>12 DEF Accept, pairVars, readVars
<1>13. ASSUME NEW later \in Lags, Discard(later) PROVE WholePair'
  BY <1>13 DEF Discard, pairVars, readVars
<1>14. ASSUME NEW r \in Readers, ReadNtpTime(r) PROVE WholePair'
  BY <1>14 DEF ReadNtpTime, threadVars, pairVars
<1>15. ASSUME NEW r \in Readers, ReadElapsedTime(r) PROVE WholePair'
  BY <1>15 DEF ReadElapsedTime, threadVars, pairVars
<1>16. CASE UNCHANGED vars
  BY <1>16 DEF vars, threadVars, pairVars, readVars
<1>. QED
  BY <1>1, <1>2, <1>3, <1>4, <1>5, <1>6, <1>7, <1>8, <1>9, <1>10, <1>11, <1>12, <1>13,
     <1>14, <1>15, <1>16 DEF Next, ThreadStep, TakesLock

\* No session computes a time from halves of two pairs.
THEOREM PairReadWhole == Spec => []ReadsWholePair
<1>1. Init => WholePair
  BY ClockAssumption DEF Init, WholePair
<1>2. WholePair => ReadsWholePair
  BY DEF WholePair, ReadsWholePair
<1>. QED
  BY <1>1, <1>2, WholePairStep, ClockTyped, PTL DEF Spec

-----------------------------------------------------------------------------
(* The error *)

InBounds(e, s) == e \in -(Behind + s) .. Ahead + s

\* What Synced rests on.  After the period that a poll takes the error is in
\* its bounds, and 1 ms inside them before the period; the answer that the thread
\* holds leaves it in the bounds of the halved slack.
SyncInv ==
  /\ slack > Survivable => stale
  /\ ~stale =>
       /\ InBounds(err, slack)
       /\ phase = "sleeping" => err \in 1 - (Behind + slack) .. Ahead + slack - 1
       /\ phase = "answered" => origin \in -Noise .. Noise
       /\ phase \in {"filtered", "ntpTime", "elapsedTime"} =>
            /\ origin >= 1 + MaxLag - (Behind + slack \div 2)
            /\ origin - lag <= Ahead + slack \div 2 - 1

\* No right answer is taken for a spike while the polls do not fail too often.
LEMMA NotDiscarded ==
  ASSUME TypeOK, SyncInv, ~stale, phase = "answered", NEW later \in Lags
  PROVE  Accepted(later)
<1>1. /\ origin \in -Noise .. Noise /\ InBounds(err, slack)
      /\ slack \in Nat /\ slack <= Survivable /\ err \in Int /\ later \in 0 .. MaxLag
  BY ClockConstants DEF SyncInv, TypeOK, Lags
<1>2. Difference(later) \in -Limit .. Limit
  BY <1>1, ClockConstants DEF Difference, InBounds, Survivable, Behind, Ahead
<1>. QED
  BY <1>2, ClockConstants DEF Accepted, Abs

\* What Filtered does to the bounds: they are halved, the lag taken into account.
LEMMA HalvedBounds ==
  ASSUME NEW noise \in Int, NEW maxLag \in Int, NEW s \in Nat,
         NEW o \in Int, -noise <= o, o <= noise,
         NEW late \in Int, 0 <= late, late <= maxLag,
         NEW e \in Int, -(noise + 2 * maxLag + 3 + s) <= e, e <= noise + 2 + s
  PROVE  /\ (o + late + e) \div 2 >= 1 + maxLag - (noise + 2 * maxLag + 3 + s \div 2)
         /\ (o + late + e) \div 2 - late <= noise + 2 + s \div 2 - 1
<1>. DEFINE h == (o + late + e) \div 2
           t == s \div 2
<1>1. h \in Int /\ 2 * h <= o + late + e /\ o + late + e <= 2 * h + 1
  OBVIOUS
<1>2. t \in Int /\ 2 * t <= s /\ s <= 2 * t + 1
  OBVIOUS
<1>. HIDE DEF h, t
<1>3. h >= 1 + maxLag - (noise + 2 * maxLag + 3 + t)
  BY <1>1, <1>2
<1>4. h - late <= noise + 2 + t - 1
  BY <1>1, <1>2
<1>. QED
  BY <1>3, <1>4 DEF h, t

LEMMA AcceptKeepsSync ==
  ASSUME TypeOK, SyncInv, NEW later \in Lags, Accept(later)
  PROVE  SyncInv'
<1>1. /\ UNCHANGED <<err, slack, stale>> /\ lag' = later
      /\ phase = "answered" /\ phase' = "filtered"
  BY DEF Accept, Goes, pairVars, pollVars
<1>2. /\ err \in Int /\ slack \in Nat /\ later \in 0 .. MaxLag
  BY ClockConstants DEF TypeOK, Lags
<1>3. ASSUME ~stale
      PROVE  /\ origin' >= 1 + MaxLag - (Behind + slack \div 2)
             /\ origin' - later <= Ahead + slack \div 2 - 1
  <2>1. origin \in -Noise .. Noise /\ err \in -(Behind + slack) .. Ahead + slack
    BY <1>1, <1>3 DEF SyncInv, InBounds
  <2>2. CASE isSet
    <3>1. origin' = (origin + later + err) \div 2
      BY <2>2 DEF Accept, Filtered
    <3>2. /\ origin \in Int /\ -Noise <= origin /\ origin <= Noise
          /\ later \in Int /\ 0 <= later /\ later <= MaxLag
          /\ err \in Int /\ -(Behind + slack) <= err /\ err <= Ahead + slack
      BY <1>2, <2>1, ClockConstants
    <3>3. /\ -(Noise + 2 * MaxLag + 3 + slack) <= err
          /\ err <= Noise + 2 + slack
      BY <3>2 DEF Behind, Ahead
    <3>4. Noise \in Int /\ MaxLag \in Int
      BY ClockConstants
    <3>. QED
      BY <1>2, <3>1, <3>2, <3>3, <3>4, HalvedBounds DEF Behind, Ahead
  <2>3. CASE ~isSet
    <3>1. origin' = origin
      BY <2>3 DEF Accept
    <3>. QED
      BY <1>2, <2>1, <3>1, ClockConstants DEF Behind, Ahead
  <2>. QED
    BY <2>2, <2>3
<1>. QED
  BY <1>1, <1>3 DEF SyncInv, InBounds

\* A failed poll adds 1 to the slack or leaves the clock stale.
LEMMA MissCounts ==
  ASSUME TypeOK, SyncInv, Miss
  PROVE  /\ slack' > Survivable => stale'
         /\ ~stale' => ~stale /\ slack' = slack + 1
<1>1. slack \in Nat /\ slack' \in Nat
  BY ClockConstants DEF TypeOK, Miss
<1>2. slack' > Survivable \/ slack' = slack + 1
  BY <1>1, ClockConstants DEF Miss
<1>3. stale' <=> stale \/ slack' > Survivable
  BY Zenon DEF Miss
<1>. QED
  BY <1>2, <1>3, Zenon

LEMMA StoreKeepsSync ==
  ASSUME TypeOK, SyncInv, NEW later \in Lags, StoreElapsedTime(later)
  PROVE  SyncInv'
<1>1. /\ phase = "elapsedTime" /\ phase' = "sleeping" /\ stale' = stale
      /\ err' = origin - lag - later /\ slack' = slack \div 2
  BY DEF StoreElapsedTime, Goes
<1>2. /\ origin \in Int /\ slack \in 0 .. Survivable + 1 /\ lag \in Nat /\ later \in Nat
      /\ lag + later \in 0 .. MaxLag
  BY ClockConstants DEF TypeOK, Lags, StoreElapsedTime
<1>3. slack' \in Nat /\ slack' <= slack
  BY <1>1, <1>2, ClockConstants
<1>4. slack' > Survivable => stale'
  BY <1>1, <1>2, <1>3, ClockConstants DEF SyncInv
<1>5. ~stale => err' \in 1 - (Behind + slack') .. Ahead + slack' - 1
  BY <1>1, <1>2, <1>3, ClockConstants DEF SyncInv
<1>6. ~stale => InBounds(err', slack')
  BY <1>1, <1>2, <1>3, <1>5, ClockConstants DEF InBounds
<1>. QED
  BY <1>1, <1>4, <1>5, <1>6 DEF SyncInv, InBounds

LEMMA SyncStep == ASSUME TypeOK, SyncInv, [Next]_vars PROVE SyncInv'
<1>. USE ClockConstants DEF Goes, InBounds
<1>1. CASE start
  BY <1>1 DEF start, pairVars, pollVars, SyncInv
<1>2. CASE Stop
  BY <1>2 DEF Stop, pairVars, pollVars, SyncInv
<1>3. CASE Loop
  BY <1>3 DEF Loop, pairVars, pollVars, SyncInv
<1>4. CASE Ask
  BY <1>4 DEF Ask, pairVars, pollVars, SyncInv
<1>5. CASE StoreNtpTime
  BY <1>5 DEF StoreNtpTime, pollVars, SyncInv
<1>6. CASE Sleep
  BY <1>6 DEF Sleep, Drifts, pollVars, SyncInv, TypeOK
<1>7. CASE LockPair
  BY <1>7 DEF LockPair, pairVars, pollVars, SyncInv
<1>8. CASE PollFails
  <2>1. /\ phase' = "sleeping" /\ phase \in {"asking", "receiving"} /\ err' = err
        /\ err \in Int /\ slack \in Nat
    BY <1>8 DEF PollFails, pairVars, TypeOK
  <2>2. /\ slack' > Survivable => stale'
        /\ ~stale' => ~stale /\ slack' = slack + 1
    BY <1>8, MissCounts DEF PollFails
  <2>. QED
    BY <2>1, <2>2 DEF SyncInv
<1>9. CASE Answer
  <2>. PICK there \in 0 .. MaxDelay, back \in 0 .. MaxDelay, skew \in Skews, early \in 0 .. 1 :
         origin' = Measured(there, back, skew, early)
    BY <1>9 DEF Answer
  <2>1. skew \in Int
    BY ClockAssumption
  <2>2. origin' \in -Noise .. Noise
    BY <2>1, SkewCancels
  <2>. QED
    BY <1>9, <2>2 DEF Answer, pairVars, pollVars, SyncInv
<1>10. CASE NoAnswer
  <2>1. /\ phase' = "receiving" /\ err' \in err - 1 .. err + 1
        /\ err \in Int /\ slack \in Nat
    BY <1>10 DEF NoAnswer, Drifts, threadVars, TypeOK
  <2>2. /\ slack' > Survivable => stale'
        /\ ~stale' => ~stale /\ slack' = slack + 1
    BY <1>10, MissCounts DEF NoAnswer
  <2>. QED
    BY <2>1, <2>2 DEF SyncInv
<1>11. ASSUME NEW later \in Lags, Discard(later) PROVE SyncInv'
  <2>1. stale
    BY <1>11, NotDiscarded DEF Discard
  <2>. QED
    BY <1>11, <2>1 DEF Discard, pairVars, pollVars, SyncInv
<1>12. ASSUME NEW r \in Readers, ReadNtpTime(r) \/ ReadElapsedTime(r) PROVE SyncInv'
  BY <1>12 DEF ReadNtpTime, ReadElapsedTime, threadVars, pairVars, pollVars, SyncInv
<1>13. CASE UNCHANGED vars
  BY <1>13 DEF vars, threadVars, pairVars, pollVars, SyncInv
<1>. QED
  BY <1>1, <1>2, <1>3, <1>4, <1>5, <1>6, <1>7, <1>8, <1>9, <1>10, <1>11, <1>12, <1>13,
     AcceptKeepsSync, StoreKeepsSync DEF Next, ThreadStep, TakesLock

\* The clock stays near UTC as long as the polls do not fail too often.
THEOREM StaysSynced == Spec => []Synced
<1>1. Init => SyncInv
  BY ClockConstants DEF Init, SyncInv, InBounds, Behind, Ahead
<1>2. SyncInv => Synced
  BY DEF SyncInv, Synced, InBounds
<1>. QED
  BY <1>1, <1>2, SyncStep, ClockTyped, PTL DEF Spec

-----------------------------------------------------------------------------
(* What one answer does *)

\* An answer that is taken for a set clock differs by no more than the limit, so
\* that half of it, rounded, is what the store can move the clock by.
LEMMA HalvedDifference ==
  ASSUME NEW limit \in Nat, NEW o \in Int, NEW late \in Nat, NEW e \in Int,
         o - late - e <= limit, -(o - late - e) <= limit
  PROVE  (o + late + e) \div 2 - late - e \in -((limit + 1) \div 2) .. (limit + 1) \div 2
<1>. DEFINE h == (o + late + e) \div 2
           m == (limit + 1) \div 2
<1>1. h \in Int /\ 2 * h <= o + late + e /\ o + late + e <= 2 * h + 1
  OBVIOUS
<1>2. m \in Int /\ limit <= 2 * m /\ 2 * m <= limit + 1
  OBVIOUS
<1>. HIDE DEF h, m
<1>3. h - late - e <= m /\ -m <= h - late - e
  BY <1>1, <1>2
<1>4. h - late - e \in -m .. m
  BY <1>1, <1>2, <1>3
<1>. QED
  BY <1>4 DEF h, m

\* An unset clock has no error, an answer has one of at most Noise, and the
\* answer that the thread is about to store is near the clock.
Held == phase \in {"filtered", "ntpTime", "elapsedTime"}

AnswerInv ==
  /\ ~isSet => err = 0
  /\ phase = "answered" => origin \in -Noise .. Noise
  /\ Held => origin - lag - err \in -((Limit + 1) \div 2) .. (Limit + 1) \div 2
  /\ phase = "elapsedTime" => isSet
  /\ Held /\ phase # "elapsedTime" /\ isSet => Abs(err) <= Limit + Noise + MaxLag

LEMMA AcceptKeepsAnswer ==
  ASSUME TypeOK, AnswerInv, NEW later \in Lags, Accept(later)
  PROVE  AnswerInv'
<1>1. /\ UNCHANGED <<err, isSet>> /\ lag' = later
      /\ phase = "answered" /\ phase' = "filtered" /\ Accepted(later)
  BY DEF Accept, Goes, pairVars
<1>2. /\ err \in Int /\ origin \in Int /\ -Noise <= origin /\ origin <= Noise
      /\ later \in Nat /\ later <= MaxLag
  BY <1>1, ClockConstants DEF TypeOK, Lags, AnswerInv
<1>3. CASE isSet
  <2>1. origin' = (origin + later + err) \div 2
    BY <1>3 DEF Accept, Filtered
  <2>2. /\ origin - later - err <= Limit /\ -(origin - later - err) <= Limit
    BY <1>1, <1>2, <1>3, ClockConstants DEF Accepted, Abs, Difference
  <2>3. origin' - later - err \in -((Limit + 1) \div 2) .. (Limit + 1) \div 2
    BY <1>2, <2>1, <2>2, ClockConstants, HalvedDifference
  <2>4. Abs(err) <= Limit + Noise + MaxLag
    BY <1>2, <2>2, ClockConstants DEF Abs
  <2>. QED
    BY <1>1, <1>3, <2>3, <2>4 DEF AnswerInv, Held, Abs
<1>4. CASE ~isSet
  <2>1. origin' = origin /\ err = 0
    BY <1>4 DEF Accept, AnswerInv
  <2>2. 2 * Noise + 2 * MaxLag <= Limit
    BY ClockAssumption, ClockConstants DEF Behind
  <2>3. origin' - later - err \in -((Limit + 1) \div 2) .. (Limit + 1) \div 2
    BY <1>2, <2>1, <2>2, ClockConstants
  <2>. QED
    BY <1>1, <1>4, <2>1, <2>3 DEF AnswerInv, Held
<1>. QED
  BY <1>3, <1>4

LEMMA AnswerStep == ASSUME TypeOK, AnswerInv, [Next]_vars PROVE AnswerInv'
<1>. USE ClockConstants DEF Goes, AnswerInv, Held
<1>1. CASE start
  BY <1>1 DEF start, pairVars
<1>2. CASE Stop
  BY <1>2 DEF Stop, pairVars, Abs
<1>3. CASE Loop
  BY <1>3 DEF Loop, pairVars
<1>4. CASE Ask
  BY <1>4 DEF Ask, pairVars
<1>5. CASE StoreNtpTime
  BY <1>5 DEF StoreNtpTime
<1>6. CASE Sleep
  BY <1>6 DEF Sleep, Drifts
<1>7. CASE LockPair
  BY <1>7 DEF LockPair, pairVars, Abs
<1>8. CASE PollFails
  BY <1>8 DEF PollFails, pairVars
<1>9. CASE Answer
  <2>. PICK there \in 0 .. MaxDelay, back \in 0 .. MaxDelay, skew \in Skews, early \in 0 .. 1 :
         origin' = Measured(there, back, skew, early)
    BY <1>9 DEF Answer
  <2>1. skew \in Int
    BY ClockAssumption
  <2>2. origin' \in -Noise .. Noise
    BY <2>1, SkewCancels
  <2>. QED
    BY <1>9, <2>2 DEF Answer, pairVars
<1>10. CASE NoAnswer
  BY <1>10 DEF NoAnswer, Drifts, threadVars
<1>11. ASSUME NEW later \in Lags, Discard(later) PROVE AnswerInv'
  BY <1>11 DEF Discard, pairVars
<1>12. ASSUME NEW later \in Lags, StoreElapsedTime(later) PROVE AnswerInv'
  <2>1. phase' = "sleeping" /\ isSet' = isSet
    BY <1>12 DEF StoreElapsedTime
  <2>. QED
    BY <1>12, <2>1 DEF StoreElapsedTime
<1>13. ASSUME NEW r \in Readers, ReadNtpTime(r) \/ ReadElapsedTime(r) PROVE AnswerInv'
  BY <1>13 DEF ReadNtpTime, ReadElapsedTime, threadVars, pairVars, Abs
<1>14. CASE UNCHANGED vars
  BY <1>14 DEF vars, threadVars, pairVars, Abs
<1>. QED
  BY <1>1, <1>2, <1>3, <1>4, <1>5, <1>6, <1>7, <1>8, <1>9, <1>10, <1>11, <1>12, <1>13,
     <1>14, AcceptKeepsAnswer DEF Next, ThreadStep, TakesLock

LEMMA AnswerHolds == Spec => []AnswerInv
<1>1. Init => AnswerInv
  BY DEF Init, AnswerInv, Held
<1>. QED
  BY <1>1, AnswerStep, ClockTyped, PTL DEF Spec

\* Only the store of an answer and the drift of a period move the clock.
LEMMA SmallStep ==
  ASSUME TypeOK, AnswerInv, [Next]_vars, isSet, isSet'
  PROVE  Abs(err' - err) <= (Limit + 1) \div 2 + MaxLag
<1>. DEFINE bound == (Limit + 1) \div 2 + MaxLag
<1>1. bound \in Nat /\ bound >= 1
  BY ClockAssumption, ClockConstants DEF Behind
<1>2. err \in Int
  BY DEF TypeOK
<1>3. ASSUME NEW d \in -1 .. 1, err' = err \/ err' = err + d
      PROVE  Abs(err' - err) <= bound
  <2>. HIDE DEF bound
  <2>1. err' - err \in -1 .. 1
    BY <1>2, <1>3
  <2>. QED
    BY <1>1, <2>1 DEF Abs
<1>4. CASE UNCHANGED err
  BY <1>3, <1>4
<1>5. CASE Sleep \/ NoAnswer
  BY <1>3, <1>5 DEF Sleep, NoAnswer, Drifts
<1>6. ASSUME NEW later \in Lags, StoreElapsedTime(later)
      PROVE  Abs(err' - err) <= bound
  <2>1. /\ err' - err = (origin - lag - err) - later
        /\ origin - lag - err \in -((Limit + 1) \div 2) .. (Limit + 1) \div 2
        /\ later \in 0 .. MaxLag
    BY <1>6, ClockConstants DEF StoreElapsedTime, Goes, AnswerInv, Held, TypeOK, Lags
  <2>2. err' - err \in -bound .. bound
    BY <2>1, ClockConstants
  <2>. HIDE DEF bound
  <2>. QED
    BY <1>1, <2>2 DEF Abs
<1>7. UNCHANGED err \/ Sleep \/ NoAnswer \/ \E later \in Lags : StoreElapsedTime(later)
  BY DEF Next, start, Stop, ThreadStep, TakesLock, Loop, Ask, StoreNtpTime, LockPair, Accept,
     Discard, PollFails, Answer, ReadNtpTime, ReadElapsedTime, vars, pairVars
<1>. QED
  BY <1>4, <1>5, <1>6, <1>7

\* No answer moves a set clock by more than half the limit and the lag.
THEOREM SmallSteps == Spec => StepsAreSmall
<1>1. TypeOK /\ AnswerInv /\ [Next]_vars =>
        [isSet /\ isSet' => Abs(err' - err) <= (Limit + 1) \div 2 + MaxLag]_vars
  BY SmallStep
<1>. QED
  BY <1>1, ClockTyped, AnswerHolds, PTL DEF Spec, StepsAreSmall

\* A clock that is off by more than the limit and the errors of an answer is
\* never corrected again.
THEOREM NeverCorrected == Spec => LostForGood
<1>1. TypeOK /\ AnswerInv /\ [Next]_vars =>
        [isSet /\ Abs(err) > Limit + Noise + MaxLag => ntp' = ntp]_vars
  <2>. SUFFICES ASSUME TypeOK, AnswerInv, [Next]_vars,
                       isSet, Abs(err) > Limit + Noise + MaxLag
                PROVE  ntp' = ntp
    OBVIOUS
  <2>1. CASE StoreNtpTime
    <3>1. Abs(err) <= Limit + Noise + MaxLag
      BY <2>1 DEF StoreNtpTime, Goes, AnswerInv, Held
    <3>2. Abs(err) \in Int
      BY DEF Abs, TypeOK
    <3>. QED
      BY <3>1, <3>2, ClockConstants
  <2>2. CASE ~StoreNtpTime
    BY <2>2 DEF Next, start, Stop, ThreadStep, TakesLock, Loop, Ask, Sleep, LockPair, Accept,
       Discard, PollFails, Answer, NoAnswer, StoreElapsedTime, ReadNtpTime, ReadElapsedTime,
       vars, pairVars
  <2>. QED
    BY <2>1, <2>2
<1>. QED
  BY <1>1, ClockTyped, AnswerHolds, PTL DEF Spec, LostForGood
=============================================================================
