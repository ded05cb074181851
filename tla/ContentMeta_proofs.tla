-------------------------- MODULE ContentMeta_proofs --------------------------
(***************************************************************************)
(* Proofs about ContentMeta, for every width of a byte and of an int, every *)
(* content on disk and every choice of reference cameras.                   *)
(***************************************************************************)
EXTENDS ContentMeta, FiniteSetTheorems, TLAPS

\* Every non-empty set of naturals has a least element.
LEMMA LeastNumber ==
  ASSUME NEW T, T \subseteq Nat, T # {}
  PROVE  \E m \in T : \A k \in T : m <= k
<1>1. PICK m \in T : \A k \in T : <<k, m>> \notin OpToRel(<, Nat)
  BY WFMin, NatLessThanWellFounded, Zenon
<1>2. \A k \in T : ~(k < m)
  BY <1>1 DEF OpToRel
<1> QED BY <1>2

\* The widths on which the numbers depend.
LEMMA Widths == /\ ByteBase \in Nat \ {0, 1} /\ ByteBase % 2 = 0
                /\ OffsetLimit \in Nat \ {0}
BY ContentAssumption, Zenon DEF ContentAssumption

\* Max and Min of a bounded set of naturals are in it, and extreme.
LEMMA Extremes ==
  ASSUME NEW n \in Nat, NEW S, S \subseteq 0 .. n, S # {}
  PROVE  /\ Max(S) \in S /\ \A x \in S : x <= Max(S)
         /\ Min(S) \in S /\ \A x \in S : Min(S) <= x
<1>0. \A x \in S : x \in Nat /\ x <= n
  OBVIOUS
<1>1. \E m \in S : \A x \in S : m <= x
  <2>1. S \subseteq Nat
    BY <1>0
  <2> QED BY <2>1, LeastNumber
<1>2. \E m \in S : \A x \in S : m >= x
  <2>. DEFINE T == {n - x : x \in S}
  <2>1. T \subseteq Nat /\ T # {}
    <3>1. \A x \in S : n - x \in Nat
      BY <1>0
    <3> QED BY <3>1
  <2>2. PICK m \in T : \A k \in T : m <= k
    <3> HIDE DEF T
    <3> QED BY <2>1, LeastNumber
  <2>3. PICK y \in S : m = n - y
    BY <2>2
  <2>4. ASSUME NEW x \in S PROVE y >= x
    <3>1. n - y <= n - x
      BY <2>2, <2>3
    <3> QED BY <1>0, <2>3, <3>1
  <2> QED BY <2>4
<1> QED BY <1>1, <1>2 DEF Max, Min

-----------------------------------------------------------------------------
(* The folds over a table of sizes, prefix by prefix *)

\* What the folds start with, and what they add for one size.
Nothing == [samples |-> <<>>, offset |-> 0]

AudioStep(acc, size) ==
  [samples |-> Append(acc.samples, [len |-> size, offset |-> ToInt(acc.offset)]),
   offset |-> acc.offset + size]

VideoStep(g, acc, size) ==
  IF size = Invalid
    THEN [acc EXCEPT !.samples = Append(@,
            [offset |-> acc.offset, key |-> Len(acc.samples) % g = 0, size |-> 0,
             packets |-> <<>>])]
    ELSE [samples |-> [acc.samples EXCEPT
            ![Len(acc.samples)].packets = Append(@, [len |-> size, offset |-> acc.offset]),
            ![Len(acc.samples)].size = @ + size],
          offset |-> acc.offset + size]

MediaStep(media, g, acc, size) ==
  IF media = "audio" THEN AudioStep(acc, size) ELSE VideoStep(g, acc, size)

\* The recursive function of FoldLeft, on the sets of the first n positions.
IsFold(media, g, sizes, n, it) ==
  it = [s \in SUBSET (1 .. n) |-> IF s = {} THEN Nothing
                           ELSE MediaStep(media, g, it[s \ {Max(s)}], sizes[Max(s)])]

\* The recursive function of FoldLeft exists, by induction on the number of sizes.
LEMMA FoldExists ==
  ASSUME NEW media, NEW g, NEW sizes, NEW n \in Nat
  PROVE  \E it : IsFold(media, g, sizes, n, it)
<1>. DEFINE Folded(m) == \E it : IsFold(media, g, sizes, m, it)
            Bad == {m \in Nat : ~Folded(m)}
<1>1. SUFFICES ASSUME Bad # {} PROVE FALSE
  OBVIOUS
<1>2. PICK m \in Bad : \A k \in Bad : m <= k
  <2>1. Bad \subseteq Nat
    OBVIOUS
  <2> HIDE DEF Bad
  <2> QED BY <1>1, <2>1, LeastNumber
<1>3. m \in Nat /\ ~Folded(m)
  BY <1>2
<1>4. CASE m = 0
  <2>. DEFINE it == [s \in SUBSET (1 .. 0) |-> Nothing]
  <2>1. \A s \in SUBSET (1 .. 0) : s = {}
    OBVIOUS
  <2>2. it = [s \in SUBSET (1 .. 0) |-> IF s = {} THEN Nothing
                 ELSE MediaStep(media, g, it[s \ {Max(s)}], sizes[Max(s)])]
    BY <2>1
  <2> QED BY <1>3, <1>4, <2>2 DEF IsFold
<1>5. CASE m # 0
  <2>1. m - 1 \in Nat /\ Folded(m - 1)
    <3> HIDE DEF Folded
    <3> QED BY <1>2, <1>3, <1>5
  <2>2. PICK it : IsFold(media, g, sizes, m - 1, it)
    BY <2>1
  <2>. DEFINE S == SUBSET (1 .. m)
              R == SUBSET (1 .. (m - 1))
              new == [s \in S |-> IF s = {} THEN Nothing
                                  ELSE MediaStep(media, g, it[s \ {Max(s)}], sizes[Max(s)])]
  <2>3. ASSUME NEW s \in S, s # {}
        PROVE  s \ {Max(s)} \in R /\ s \ {Max(s)} \in S
    <3>1. s \subseteq 0 .. m /\ m \in Nat
      BY <1>3
    <3>2. Max(s) \in s /\ \A x \in s : x <= Max(s)
      BY <2>3, <3>1, Extremes
    <3>3. ASSUME NEW x \in s \ {Max(s)} PROVE x \in 1 .. (m - 1)
      <4>1. x \in 1 .. m /\ Max(s) \in 1 .. m /\ x <= Max(s) /\ x # Max(s)
        BY <3>2
      <4> QED BY <1>3, <4>1
    <3> QED BY <3>3
  <2>4. it = [s \in R |-> IF s = {} THEN Nothing
                          ELSE MediaStep(media, g, it[s \ {Max(s)}], sizes[Max(s)])]
    BY <2>2 DEF IsFold
  <2>5. R \subseteq S
    BY <1>3
  <2> HIDE DEF S, R
  <2>6. ASSUME NEW s \in R PROVE it[s] = new[s]
    <3>1. s \in S
      BY <2>5
    <3> QED BY <2>4, <3>1
  <2>7. \A s \in S : s # {} => it[s \ {Max(s)}] = new[s \ {Max(s)}]
    BY <2>3, <2>6
  <2>8. new = [s \in S |-> IF s = {} THEN Nothing
                           ELSE MediaStep(media, g, new[s \ {Max(s)}], sizes[Max(s)])]
    <3>1. new = [s \in S |-> IF s = {} THEN Nothing
                             ELSE MediaStep(media, g, it[s \ {Max(s)}], sizes[Max(s)])]
      OBVIOUS
    <3> HIDE DEF new
    <3> QED BY <2>7, <3>1
  <2> QED BY <1>3, <2>8 DEF IsFold, S
<1> QED BY <1>4, <1>5

\* It adds one size after the other.
InOrder(media, g, sizes, n, it) ==
  /\ it[{}] = Nothing
  /\ \A k \in 1 .. n :
       it[1 .. k] = MediaStep(media, g, it[1 .. (k - 1)], sizes[k])

\* Such a function takes the sizes in their order.
LEMMA FoldPrefix ==
  ASSUME NEW media, NEW g, NEW sizes, NEW n \in Nat,
         NEW it, IsFold(media, g, sizes, n, it)
  PROVE  InOrder(media, g, sizes, n, it)
<1>1. it[{}] = Nothing
  BY DEF IsFold
<1>2. ASSUME NEW k \in 1 .. n
      PROVE  it[1 .. k] = MediaStep(media, g, it[1 .. (k - 1)], sizes[k])
  <2>1. 1 .. k \in SUBSET (1 .. n) /\ 1 .. k # {}
    OBVIOUS
  <2>2. Max(1 .. k) = k
    <3>1. Max(1 .. k) \in 1 .. k /\ \A x \in 1 .. k : x <= Max(1 .. k)
      <4>1. 1 .. k \subseteq 0 .. n
        OBVIOUS
      <4> QED BY <2>1, <4>1, Extremes
    <3> QED BY <3>1
  <2>3. (1 .. k) \ {k} = 1 .. (k - 1)
    OBVIOUS
  <2> QED BY <2>1, <2>2, <2>3 DEF IsFold
<1> QED BY <1>1, <1>2 DEF InOrder

\* What the samples are built from, size by size.
LEMMA AudioFold ==
  ASSUME NEW sizes, NEW n \in Nat, DOMAIN sizes = 1 .. n
  PROVE  \E acc : /\ acc[0] = Nothing
                  /\ \A k \in 1 .. n : acc[k] = AudioStep(acc[k - 1], sizes[k])
                  /\ audioSamples(sizes) = acc[n].samples
<1>. DEFINE Iter(it) == it = [s \in SUBSET (1 .. n) |->
                               IF s = {} THEN Nothing
                               ELSE AudioStep(it[s \ {Max(s)}], sizes[Max(s)])]
<1>1. \A a, z : MediaStep("audio", 0, a, z) = AudioStep(a, z)
  BY DEF MediaStep
<1>2. \A it : Iter(it) <=> IsFold("audio", 0, sizes, n, it)
  BY <1>1 DEF IsFold
<1>3. audioSamples(sizes) = (CHOOSE it : Iter(it))[1 .. n].samples
  BY DEF audioSamples, FoldLeft, MapThenFoldSet, AudioStep, Nothing
<1> HIDE DEF Iter
<1>4. PICK it : it = (CHOOSE f : Iter(f)) /\ Iter(it)
  BY <1>2, FoldExists
<1>5. /\ it[{}] = Nothing
      /\ \A k \in 1 .. n : it[1 .. k] = AudioStep(it[1 .. (k - 1)], sizes[k])
  <2>1. IsFold("audio", 0, sizes, n, it)
    BY <1>2, <1>4
  <2>2. /\ it[{}] = Nothing
        /\ \A k \in 1 .. n :
             it[1 .. k] = MediaStep("audio", 0, it[1 .. (k - 1)], sizes[k])
    <3>1. InOrder("audio", 0, sizes, n, it)
      BY <2>1, FoldPrefix, Zenon
    <3> QED BY ONLY <3>1 DEF InOrder
  <2> QED BY <1>1, <2>2, Zenon
<1>. DEFINE acc == [k \in 0 .. n |-> it[1 .. k]]
<1>6. 1 .. 0 = {} /\ acc[0] = it[1 .. 0] /\ acc[n] = it[1 .. n]
  OBVIOUS
<1>7. ASSUME NEW k \in 1 .. n PROVE acc[k] = it[1 .. k] /\ acc[k - 1] = it[1 .. (k - 1)]
  OBVIOUS
<1> HIDE DEF acc
<1>8. acc[0] = Nothing /\ (\A k \in 1 .. n : acc[k] = AudioStep(acc[k - 1], sizes[k]))
  BY <1>5, <1>6, <1>7
<1>9. audioSamples(sizes) = acc[n].samples
  BY <1>3, <1>4, <1>6
<1> QED BY <1>8, <1>9

\* The same of the video samples.
VideoFolded(sizes, g, n) ==
  \E acc : /\ acc[0] = Nothing
           /\ \A k \in 1 .. n : acc[k] = VideoStep(g, acc[k - 1], sizes[k])
           /\ videoSamples(sizes, g) = acc[n].samples

LEMMA VideoFold ==
  ASSUME NEW sizes, NEW g, NEW n \in Nat, DOMAIN sizes = 1 .. n
  PROVE  VideoFolded(sizes, g, n)
<1>. DEFINE Iter(it) == it = [s \in SUBSET (1 .. n) |->
                               IF s = {} THEN Nothing
                               ELSE VideoStep(g, it[s \ {Max(s)}], sizes[Max(s)])]
<1>1. \A a, z : MediaStep("video", g, a, z) = VideoStep(g, a, z)
  BY DEF MediaStep
<1>2. \A it : Iter(it) <=> IsFold("video", g, sizes, n, it)
  BY <1>1 DEF IsFold
<1>3. videoSamples(sizes, g) = (CHOOSE it : Iter(it))[1 .. n].samples
  BY DEF videoSamples, FoldLeft, MapThenFoldSet, VideoStep, Nothing
<1> HIDE DEF Iter
<1>4. PICK it : it = (CHOOSE f : Iter(f)) /\ Iter(it)
  BY <1>2, FoldExists
<1>5. /\ it[{}] = Nothing
      /\ \A k \in 1 .. n : it[1 .. k] = VideoStep(g, it[1 .. (k - 1)], sizes[k])
  <2>1. IsFold("video", g, sizes, n, it)
    BY <1>2, <1>4
  <2>2. /\ it[{}] = Nothing
        /\ \A k \in 1 .. n :
             it[1 .. k] = MediaStep("video", g, it[1 .. (k - 1)], sizes[k])
    <3>1. InOrder("video", g, sizes, n, it)
      BY <2>1, FoldPrefix, Zenon
    <3> QED BY ONLY <3>1 DEF InOrder
  <2> QED BY <1>1, <2>2, Zenon
<1>. DEFINE acc == [k \in 0 .. n |-> it[1 .. k]]
<1>6. 1 .. 0 = {} /\ acc[0] = it[1 .. 0] /\ acc[n] = it[1 .. n]
  OBVIOUS
<1>7. ASSUME NEW k \in 1 .. n PROVE acc[k] = it[1 .. k] /\ acc[k - 1] = it[1 .. (k - 1)]
  OBVIOUS
<1> HIDE DEF acc
<1>8. acc[0] = Nothing /\ (\A k \in 1 .. n : acc[k] = VideoStep(g, acc[k - 1], sizes[k]))
  BY <1>5, <1>6, <1>7
<1>9. videoSamples(sizes, g) = acc[n].samples
  BY <1>3, <1>4, <1>6
<1> QED BY <1>8, <1>9 DEF VideoFolded

\* What the audio samples are: one for each size, at the sum of those before it.
LEMMA AudioSamples ==
  ASSUME NEW n \in Nat, NEW sizes \in [1 .. n -> Int]
  PROVE  \E sum \in [0 .. n -> Int] :
           /\ sum[0] = 0 /\ \A k \in 1 .. n : sum[k] = sum[k - 1] + sizes[k]
           /\ audioSamples(sizes) \in Seq([len : Int, offset : Int])
           /\ Len(audioSamples(sizes)) = n
           /\ \A i \in 1 .. n :
                audioSamples(sizes)[i] = [len |-> sizes[i], offset |-> ToInt(sum[i - 1])]
<1>1. PICK acc : /\ acc[0] = Nothing
                 /\ \A k \in 1 .. n : acc[k] = AudioStep(acc[k - 1], sizes[k])
                 /\ audioSamples(sizes) = acc[n].samples
  BY AudioFold
<1>. DEFINE Sample == [len : Int, offset : Int]
            Done(k) == /\ acc[k].offset \in Int
                       /\ acc[k].samples \in Seq(Sample) /\ Len(acc[k].samples) = k
                       /\ \A i \in 1 .. k : acc[k].samples[i]
                            = [len |-> sizes[i], offset |-> ToInt(acc[i - 1].offset)]
            Bad == {k \in 0 .. n : ~Done(k)}
<1>2. Done(0)
  BY <1>1 DEF Nothing
<1>3. ASSUME NEW k \in 1 .. n, Done(k - 1)
      PROVE  Done(k)
  <2>. DEFINE last == [len |-> sizes[k], offset |-> ToInt(acc[k - 1].offset)]
  <2>1. /\ acc[k].samples = Append(acc[k - 1].samples, last)
        /\ acc[k].offset = acc[k - 1].offset + sizes[k]
    <3>1. acc[k] = AudioStep(acc[k - 1], sizes[k])
      BY <1>1
    <3> QED BY ONLY <3>1 DEF AudioStep
  <2>2. ToInt(acc[k - 1].offset) \in Int
    BY ONLY <1>3, Widths DEF ToInt
  <2>3. sizes[k] \in Int /\ last \in Sample
    BY <2>2
  <2> HIDE DEF Sample
  <2>4. /\ acc[k - 1].samples \in Seq(Sample) /\ Len(acc[k - 1].samples) = k - 1
        /\ acc[k - 1].offset \in Int
        /\ \A i \in 1 .. (k - 1) : acc[k - 1].samples[i]
             = [len |-> sizes[i], offset |-> ToInt(acc[i - 1].offset)]
    BY <1>3
  <2>5. acc[k].offset \in Int
    BY <2>1, <2>3, <2>4
  <2> HIDE DEF last
  <2>6. acc[k].samples \in Seq(Sample) /\ Len(acc[k].samples) = k
    BY <2>1, <2>3, <2>4
  <2>7. ASSUME NEW i \in 1 .. k
        PROVE  acc[k].samples[i] = [len |-> sizes[i], offset |-> ToInt(acc[i - 1].offset)]
    <3>1. CASE i = k
      <4>1. acc[k].samples[k] = last
        BY <2>1, <2>3, <2>4
      <4> QED BY <3>1, <4>1 DEF last
    <3>2. CASE i # k
      <4>1. i \in 1 .. (k - 1)
        BY <3>2
      <4>2. acc[k].samples[i] = acc[k - 1].samples[i]
        BY <2>1, <2>3, <2>4, <4>1
      <4> QED BY <2>4, <4>1, <4>2
    <3> QED BY <3>1, <3>2
  <2> QED BY <2>5, <2>6, <2>7
<1>4. Bad = {}
  <2> HIDE DEF Done
  <2> SUFFICES ASSUME Bad # {} PROVE FALSE
    OBVIOUS
  <2>1. Bad \subseteq Nat
    OBVIOUS
  <2>2. PICK k \in Bad : \A j \in Bad : k <= j
    <3> HIDE DEF Bad
    <3> QED BY <2>1, LeastNumber
  <2>3. k # 0 /\ k \in 1 .. n /\ k - 1 \in 0 .. n
    BY <1>2, <2>2
  <2>4. Done(k - 1)
    BY <2>2, <2>3
  <2> QED BY <1>3, <2>2, <2>3, <2>4
<1>5. \A k \in 0 .. n : Done(k)
  <2> HIDE DEF Done
  <2> QED BY <1>4
<1>. DEFINE sum == [k \in 0 .. n |-> acc[k].offset]
<1>6. sum \in [0 .. n -> Int]
  BY <1>5
<1>7. sum[0] = 0
  BY <1>1 DEF Nothing
<1>8. ASSUME NEW k \in 1 .. n PROVE sum[k] = sum[k - 1] + sizes[k]
  <2>1. acc[k].offset = acc[k - 1].offset + sizes[k]
    <3>1. acc[k] = AudioStep(acc[k - 1], sizes[k])
      BY <1>1
    <3> QED BY ONLY <3>1 DEF AudioStep
  <2> QED BY <2>1
<1>9. /\ audioSamples(sizes) \in Seq(Sample) /\ Len(audioSamples(sizes)) = n
      /\ \A i \in 1 .. n : audioSamples(sizes)[i]
           = [len |-> sizes[i], offset |-> ToInt(acc[i - 1].offset)]
  <2>1. Done(n)
    BY <1>5
  <2> QED BY <1>1, <2>1
<1>10. \A i \in 1 .. n : sum[i - 1] = acc[i - 1].offset
  OBVIOUS
<1> HIDE DEF sum
<1> QED BY <1>6, <1>7, <1>8, <1>9, <1>10

-----------------------------------------------------------------------------
(* The markers of a table of sizes *)

\* The markers among the first k sizes.
Marks(sizes, k) == {i \in 1 .. k : sizes[i] = Invalid}

\* How the number and the last of the markers go on from size to size.
LEMMA MarksStep ==
  ASSUME NEW sizes, sizes[1] = Invalid, NEW k \in Nat \ {0}
  PROVE  /\ IsFiniteSet(Marks(sizes, k)) /\ Cardinality(Marks(sizes, k)) \in Nat \ {0}
         /\ Max(Marks(sizes, k)) \in Marks(sizes, k)
         /\ k = 1 => Cardinality(Marks(sizes, k)) = 1 /\ Max(Marks(sizes, k)) = 1
         /\ sizes[k] = Invalid => Max(Marks(sizes, k)) = k
         /\ k > 1 =>
              IF sizes[k] = Invalid
                THEN Cardinality(Marks(sizes, k)) = Cardinality(Marks(sizes, k - 1)) + 1
                ELSE Marks(sizes, k) = Marks(sizes, k - 1)
<1>1. Marks(sizes, k) \subseteq 0 .. k /\ 1 \in Marks(sizes, k)
  BY DEF Marks
<1>2. IsFiniteSet(1 .. k) /\ \A m \in Nat : IsFiniteSet(Marks(sizes, m))
  BY FS_Interval, FS_Subset DEF Marks
<1>3. Cardinality(Marks(sizes, k)) \in Nat \ {0}
  BY <1>1, <1>2, FS_CardinalityType, FS_EmptySet
<1>4. Max(Marks(sizes, k)) \in Marks(sizes, k) /\ \A x \in Marks(sizes, k) : x <= Max(Marks(sizes, k))
  BY <1>1, Extremes
<1>5. ASSUME k = 1 PROVE Cardinality(Marks(sizes, k)) = 1 /\ Max(Marks(sizes, k)) = 1
  <2>1. Marks(sizes, k) = {1}
    BY <1>1, <1>5 DEF Marks
  <2> QED BY <1>4, <2>1, FS_Singleton
<1>6. ASSUME sizes[k] = Invalid PROVE Max(Marks(sizes, k)) = k
  <2>1. k \in Marks(sizes, k) /\ Marks(sizes, k) \subseteq 1 .. k
    BY <1>6 DEF Marks
  <2> QED BY <1>4, <2>1
<1>7. ASSUME k > 1, sizes[k] = Invalid
      PROVE  Cardinality(Marks(sizes, k)) = Cardinality(Marks(sizes, k - 1)) + 1
  <2>1. /\ Marks(sizes, k) = Marks(sizes, k - 1) \cup {k} /\ k \notin Marks(sizes, k - 1)
        /\ k - 1 \in Nat
    BY <1>7 DEF Marks
  <2> QED BY <1>2, <2>1, FS_AddElement
<1>8. ASSUME k > 1, sizes[k] # Invalid PROVE Marks(sizes, k) = Marks(sizes, k - 1)
  BY <1>8 DEF Marks
<1> QED BY <1>2, <1>3, <1>4, <1>5, <1>6, <1>7, <1>8

\* What a video sample is made of.
Packet == [len : Int, offset : Int]
VideoSample == [offset : Int, key : BOOLEAN, size : Int, packets : Seq(Packet)]

\* The i-th size is found as a packet behind the last marker before it.
PacketAt(samples, sizes, i, offset) ==
  LET j == Cardinality(Marks(sizes, i))
      p == i - Max(Marks(sizes, i)) IN
    /\ j \in 1 .. Len(samples) /\ p \in 1 .. Len(samples[j].packets)
    /\ samples[j].packets[p] = [len |-> sizes[i], offset |-> offset]

\* What is known of the samples after one more size.
VideoStepped(g, samples, offset, size, new) ==
  LET m == Len(samples) IN
    /\ new = [samples |-> new.samples, offset |-> new.offset]
    /\ new.samples \in Seq(VideoSample)
    /\ new.offset = offset + (IF size = Invalid THEN 0 ELSE size)
    /\ size = Invalid =>
         /\ Len(new.samples) = m + 1
         /\ \A j \in 1 .. m : new.samples[j] = samples[j]
         /\ new.samples[m + 1].key = (m % g = 0) /\ new.samples[m + 1].packets = <<>>
    /\ size # Invalid =>
         /\ Len(new.samples) = m
         /\ \A j \in 1 .. m : new.samples[j].key = samples[j].key
         /\ \A j \in 1 .. m - 1 : new.samples[j] = samples[j]
         /\ new.samples[m].packets
              = Append(samples[m].packets, [len |-> size, offset |-> offset])

\* A marker opens a sample, any other size adds a packet to the last one.
LEMMA VideoStepAdds ==
  ASSUME NEW g, NEW samples \in Seq(VideoSample), NEW offset \in Int, NEW size \in Int,
         size = Invalid \/ samples # <<>>,
         NEW new, new = VideoStep(g, [samples |-> samples, offset |-> offset], size)
  PROVE  VideoStepped(g, samples, offset, size, new)
<1>. DEFINE m == Len(samples)
<1>1. CASE size = Invalid
  <2>. DEFINE s == [offset |-> offset, key |-> m % g = 0, size |-> 0, packets |-> <<>>]
  <2>1. new = [samples |-> Append(samples, s), offset |-> offset]
    BY <1>1 DEF VideoStep
  <2>2. s \in VideoSample
    <3>1. PICK b \in BOOLEAN : b = (m % g = 0)
      BY Zenon
    <3>2. [offset |-> offset, key |-> b, size |-> 0, packets |-> <<>>] \in VideoSample
      BY DEF VideoSample
    <3> QED BY <3>1, <3>2, Zenon
  <2>3. s.key = (m % g = 0) /\ s.packets = <<>>
    BY Zenon
  <2> HIDE DEF s
  <2>4. /\ Append(samples, s) \in Seq(VideoSample) /\ Len(Append(samples, s)) = m + 1
        /\ \A j \in 1 .. m : Append(samples, s)[j] = samples[j]
        /\ Append(samples, s)[m + 1] = s
    BY <2>2
  <2>5. new.samples = Append(samples, s) /\ new.offset = offset
    BY <2>1
  <2>6. new = [samples |-> new.samples, offset |-> new.offset]
    BY <2>1
  <2>7. new.offset = offset + (IF size = Invalid THEN 0 ELSE size)
    BY <1>1, <2>5
  <2> QED BY <1>1, <2>3, <2>4, <2>5, <2>6, <2>7, Zenon DEF VideoStepped
<1>2. CASE size # Invalid
  <2>. DEFINE p == [len |-> size, offset |-> offset]
              q == Append(samples[m].packets, p)
              z == samples[m].size + size
              last == [[samples[m] EXCEPT !.packets = q] EXCEPT !.size = z]
              s == [samples EXCEPT ![m] = last]
  <2>1. m \in DOMAIN samples /\ m \in Nat /\ m > 0 /\ samples[m] \in VideoSample
    BY <1>2
  <2>2. new = [samples |-> s, offset |-> offset + size]
    BY <1>2, <2>1 DEF VideoStep
  <2>3. p \in Packet /\ samples[m].packets \in Seq(Packet) /\ samples[m].size \in Int
    BY <2>1 DEF VideoSample, Packet
  <2>4. q \in Seq(Packet) /\ z \in Int
    <3> HIDE DEF p
    <3> QED BY <2>3
  <2>. HIDE DEF q, z
  <2>5. last \in VideoSample /\ last.packets = q /\ last.key = samples[m].key
    BY <2>1, <2>4 DEF VideoSample
  <2> HIDE DEF last
  <2>6. /\ s \in Seq(VideoSample) /\ Len(s) = m
        /\ \A j \in 1 .. m - 1 : s[j] = samples[j]
        /\ s[m] = last
    BY <2>1, <2>5
  <2> HIDE DEF s
  <2>7. new.samples = s /\ new.offset = offset + size
    BY <2>2
  <2>8. ASSUME NEW j \in 1 .. m PROVE s[j].key = samples[j].key
    <3>1. CASE j = m
      BY <2>5, <2>6, <3>1, Zenon
    <3>2. CASE j # m
      <4>1. j \in 1 .. m - 1
        BY <2>1, <3>2
      <4> QED BY <2>6, <4>1, Zenon
    <3> QED BY <3>1, <3>2
  <2>9. new = [samples |-> new.samples, offset |-> new.offset]
    BY <2>2, <2>7
  <2>10. new.offset = offset + (IF size = Invalid THEN 0 ELSE size)
    BY <1>2, <2>7
  <2> QED BY <1>2, <2>5, <2>6, <2>7, <2>8, <2>9, <2>10, Zenon DEF q, p, VideoStepped
<1> QED BY <1>1, <1>2

\* Every g-th sample is a key frame.
KeysFit(samples, g) == \A j \in 1 .. Len(samples) : samples[j].key = ((j - 1) % g = 0)

\* The samples after k sizes: one for each marker, the last one still open.
VideoDone(sizes, g, acc, k) ==
  LET samples == acc[k].samples IN
    /\ acc[k] = [samples |-> samples, offset |-> acc[k].offset]
    /\ acc[k].offset \in Int
    /\ samples \in Seq(VideoSample) /\ Len(samples) = Cardinality(Marks(sizes, k))
    /\ KeysFit(samples, g)
    /\ Len(samples[Len(samples)].packets) = k - Max(Marks(sizes, k))
    /\ \A i \in 1 .. k : sizes[i] # Invalid => PacketAt(samples, sizes, i, acc[i - 1].offset)

\* The first size is a marker.
LEMMA VideoStarts ==
  ASSUME NEW g, NEW sizes, sizes[1] = Invalid, NEW acc, acc[0] = Nothing,
         acc[1] = VideoStep(g, acc[0], sizes[1])
  PROVE  VideoDone(sizes, g, acc, 1)
<1>. DEFINE samples == acc[1].samples
<1>1. acc[0] = [samples |-> <<>>, offset |-> 0] /\ <<>> \in Seq(VideoSample) /\ Len(<<>>) = 0
  BY DEF Nothing
<1>2. /\ acc[1] = [samples |-> samples, offset |-> acc[1].offset]
      /\ samples \in Seq(VideoSample) /\ acc[1].offset = 0 /\ Len(samples) = 1
      /\ samples[1].key = (0 % g = 0) /\ samples[1].packets = <<>>
  <2>1. PICK new : new = VideoStep(g, [samples |-> <<>>, offset |-> 0], Invalid) /\ new = acc[1]
    BY <1>1
  <2>2. VideoStepped(g, <<>>, 0, Invalid, new)
    <3>1. Invalid \in Int
      BY DEF Invalid
    <3>2. PICK none : none = <<>> /\ none \in Seq(VideoSample)
      BY <1>1
    <3>3. new = VideoStep(g, [samples |-> none, offset |-> 0], Invalid)
      BY <2>1, <3>2, Zenon
    <3>4. 0 \in Int /\ (Invalid = Invalid \/ none # <<>>)
      OBVIOUS
    <3>5. VideoStepped(g, none, 0, Invalid, new)
      BY <3>1, <3>2, <3>3, <3>4, VideoStepAdds, Zenon
    <3> QED BY <3>2, <3>5, Zenon
  <2>4. Len(<<>>) = 0
    OBVIOUS
  <2>3. 0 + 0 = 0 /\ 0 + 1 = 1
    OBVIOUS
  <2> QED BY <2>1, <2>2, <2>3, <2>4, Zenon DEF VideoStepped
<1>3. Cardinality(Marks(sizes, 1)) = 1 /\ Max(Marks(sizes, 1)) = 1
  BY MarksStep
<1> HIDE DEF samples
<1>4. KeysFit(samples, g)
  <2>1. \A j \in 1 .. 1 : j = 1 /\ j - 1 = 0
    OBVIOUS
  <2> QED BY <1>2, <2>1, Zenon DEF KeysFit
<1>5. Len(samples[Len(samples)].packets) = 1 - 1
  BY <1>2
<1>6. \A i \in 1 .. 1 : sizes[i] = Invalid
  OBVIOUS
<1> QED BY <1>2, <1>3, <1>4, <1>5, <1>6 DEF VideoDone, samples

\* Each further size opens a sample or adds to the last one.
LEMMA VideoGoesOn ==
  ASSUME NEW g, NEW n \in Nat, NEW sizes \in [1 .. n -> Int], sizes[1] = Invalid,
         NEW acc, NEW k \in 2 .. n, acc[k] = VideoStep(g, acc[k - 1], sizes[k]),
         VideoDone(sizes, g, acc, k - 1)
  PROVE  VideoDone(sizes, g, acc, k)
<1>. DEFINE old == acc[k - 1].samples
            new == acc[k].samples
            m == Len(old)
            offset == acc[k - 1].offset
<1>1. /\ acc[k - 1] = [samples |-> old, offset |-> offset] /\ offset \in Int
      /\ old \in Seq(VideoSample) /\ m = Cardinality(Marks(sizes, k - 1))
      /\ KeysFit(old, g)
      /\ Len(old[m].packets) = k - 1 - Max(Marks(sizes, k - 1))
      /\ \A i \in 1 .. k - 1 : sizes[i] # Invalid => PacketAt(old, sizes, i, acc[i - 1].offset)
  BY DEF VideoDone
<1>2. /\ k \in Nat /\ k > 1 /\ k - 1 \in Nat \ {0} /\ sizes[k] \in Int
  OBVIOUS
<1>3. /\ m \in Nat \ {0} /\ Max(Marks(sizes, k - 1)) \in 1 .. k - 1
      /\ Cardinality(Marks(sizes, k)) \in Nat \ {0} /\ Max(Marks(sizes, k)) \in 1 .. k
      /\ sizes[k] = Invalid =>
           Max(Marks(sizes, k)) = k /\ Cardinality(Marks(sizes, k)) = m + 1
      /\ sizes[k] # Invalid => Marks(sizes, k) = Marks(sizes, k - 1)
  <2>1. Marks(sizes, k - 1) \subseteq 1 .. k - 1 /\ Marks(sizes, k) \subseteq 1 .. k
    BY DEF Marks
  <2>2. /\ Cardinality(Marks(sizes, k - 1)) \in Nat \ {0}
        /\ Max(Marks(sizes, k - 1)) \in Marks(sizes, k - 1)
    BY <1>2, MarksStep
  <2>3. /\ Cardinality(Marks(sizes, k)) \in Nat \ {0}
        /\ Max(Marks(sizes, k)) \in Marks(sizes, k)
        /\ sizes[k] = Invalid => Max(Marks(sizes, k)) = k
        /\ IF sizes[k] = Invalid
             THEN Cardinality(Marks(sizes, k)) = Cardinality(Marks(sizes, k - 1)) + 1
             ELSE Marks(sizes, k) = Marks(sizes, k - 1)
    BY <1>2, MarksStep
  <2> QED BY <1>1, <2>1, <2>2, <2>3
<1>4. /\ acc[k] = [samples |-> new, offset |-> acc[k].offset]
      /\ new \in Seq(VideoSample)
      /\ acc[k].offset = offset + (IF sizes[k] = Invalid THEN 0 ELSE sizes[k])
      /\ sizes[k] = Invalid =>
           /\ Len(new) = m + 1
           /\ \A j \in 1 .. m : new[j] = old[j]
           /\ new[m + 1].key = (m % g = 0) /\ new[m + 1].packets = <<>>
      /\ sizes[k] # Invalid =>
           /\ Len(new) = m
           /\ \A j \in 1 .. m : new[j].key = old[j].key
           /\ \A j \in 1 .. m - 1 : new[j] = old[j]
           /\ new[m].packets = Append(old[m].packets, [len |-> sizes[k], offset |-> offset])
  <2>1. acc[k] = VideoStep(g, [samples |-> old, offset |-> offset], sizes[k]) /\ old # <<>>
    BY <1>1, <1>3
  <2>2. offset \in Int /\ old \in Seq(VideoSample) /\ sizes[k] \in Int
    BY <1>1, <1>2
  <2> HIDE DEF old, offset
  <2>3. VideoStepped(g, old, offset, sizes[k], acc[k])
    BY <2>1, <2>2, VideoStepAdds
  <2> QED BY <2>3 DEF VideoStepped, new
<1>. HIDE DEF old, new, m, offset
<1>5. acc[k].offset \in Int
  BY <1>1, <1>2, <1>4
<1>6. old[m].packets \in Seq(Packet)
  <2>1. old \in Seq(VideoSample) /\ m \in 1 .. Len(old)
    BY <1>1, <1>3 DEF m
  <2>2. old[m] \in VideoSample
    BY <2>1
  <2> QED BY <2>2 DEF VideoSample
<1>7. m = Len(old)
  BY DEF m
<1>8. CASE sizes[k] = Invalid
  <2>1. KeysFit(new, g)
    <3>1. ASSUME NEW j \in 1 .. m + 1 PROVE new[j].key = ((j - 1) % g = 0)
      <4>1. CASE j \in 1 .. m
        BY <1>1, <1>4, <1>7, <1>8, <4>1, Zenon DEF KeysFit
      <4>2. CASE j = m + 1
        <5>1. j - 1 = m
          BY <1>3, <4>2
        <5> QED BY <1>4, <1>8, <4>2, <5>1, Zenon
      <4>3. j \in 1 .. m \/ j = m + 1
        BY <1>3
      <4> QED BY <4>1, <4>2, <4>3
    <3> QED BY <1>4, <1>8, <3>1, Zenon DEF KeysFit
  <2>2. Len(new) = Cardinality(Marks(sizes, k)) /\ Len(new) = m + 1
    BY <1>3, <1>4, <1>8
  <2>3. Len(new[Len(new)].packets) = k - Max(Marks(sizes, k))
    BY <1>2, <1>3, <1>4, <1>8, <2>2
  <2>4. ASSUME NEW i \in 1 .. k, sizes[i] # Invalid
        PROVE  PacketAt(new, sizes, i, acc[i - 1].offset)
    <3>1. i \in 1 .. k - 1
      BY <1>8, <2>4
    <3>2. PacketAt(old, sizes, i, acc[i - 1].offset)
      BY <1>1, <2>4, <3>1
    <3>3. Cardinality(Marks(sizes, i)) \in 1 .. m
      BY <1>7, <3>2 DEF PacketAt
    <3>4. /\ Cardinality(Marks(sizes, i)) \in 1 .. Len(new)
          /\ new[Cardinality(Marks(sizes, i))] = old[Cardinality(Marks(sizes, i))]
      BY <1>3, <1>4, <1>8, <2>2, <3>3
    <3> QED BY <3>2, <3>4 DEF PacketAt
  <2> QED BY <1>4, <1>5, <2>1, <2>2, <2>3, <2>4, Zenon DEF VideoDone, new
<1>9. CASE sizes[k] # Invalid
  <2>. DEFINE p == [len |-> sizes[k], offset |-> offset]
              packets == old[m].packets
  <2>0. new[m].packets = Append(packets, p) /\ Len(new) = m
    BY <1>4, <1>9
  <2>00. p \in Packet /\ packets \in Seq(Packet)
    BY <1>1, <1>2, <1>6 DEF Packet
  <2> HIDE DEF p, packets
  <2>1. KeysFit(new, g)
    BY <1>1, <1>4, <1>7, <1>9, Zenon DEF KeysFit
  <2>2. Len(new) = Cardinality(Marks(sizes, k))
    BY <1>1, <1>3, <1>9, <2>0
  <2>3. Len(new[Len(new)].packets) = k - Max(Marks(sizes, k))
    <3>1. Len(packets) = k - 1 - Max(Marks(sizes, k - 1))
      BY <1>1 DEF packets
    <3>2. Len(Append(packets, p)) = Len(packets) + 1
      BY <2>00
    <3>3. Marks(sizes, k) = Marks(sizes, k - 1)
      BY <1>3, <1>9
    <3> QED BY <1>2, <1>3, <2>0, <3>1, <3>2, <3>3
  <2>4. ASSUME NEW i \in 1 .. k, sizes[i] # Invalid
        PROVE  PacketAt(new, sizes, i, acc[i - 1].offset)
    <3>1. CASE i = k
      <4>1. Cardinality(Marks(sizes, i)) = m /\ m \in 1 .. Len(new)
        BY <1>3, <2>0, <2>2, <3>1
      <4>2. /\ i - Max(Marks(sizes, i)) = Len(packets) + 1
            /\ Len(packets) \in Nat
        <5>1. Len(packets) = k - 1 - Max(Marks(sizes, k - 1)) /\ Marks(sizes, k) = Marks(sizes, k - 1)
          BY <1>1, <1>3, <1>9 DEF packets
        <5> QED BY <1>2, <1>3, <2>00, <3>1, <5>1
      <4>3. Append(packets, p)[Len(packets) + 1] = p /\ Len(Append(packets, p)) = Len(packets) + 1
        BY <2>00
      <4>4. p = [len |-> sizes[i], offset |-> acc[i - 1].offset]
        BY <3>1 DEF p, offset
      <4>5. i - Max(Marks(sizes, i)) \in 1 .. Len(new[m].packets)
        BY <2>0, <4>2, <4>3
      <4> QED BY <2>0, <4>1, <4>2, <4>3, <4>4, <4>5, Zenon DEF PacketAt
    <3>2. CASE i # k
      <4>1. i \in 1 .. k - 1
        BY <3>2
      <4>2. PacketAt(old, sizes, i, acc[i - 1].offset)
        BY <1>1, <2>4, <4>1
      <4>. DEFINE j == Cardinality(Marks(sizes, i))
                  q == i - Max(Marks(sizes, i))
                  there == [len |-> sizes[i], offset |-> acc[i - 1].offset]
      <4>3. j \in 1 .. m /\ q \in 1 .. Len(old[j].packets) /\ old[j].packets[q] = there
        BY <1>7, <4>2 DEF PacketAt
      <4> HIDE DEF j, q, there
      <4>4. q \in 1 .. Len(new[j].packets) /\ new[j].packets[q] = there
        <5>1. CASE j = m
          <6>1. q \in 1 .. Len(packets) /\ packets[q] = there
            BY <4>3, <5>1 DEF packets
          <6>2. q \in 1 .. Len(Append(packets, p)) /\ Append(packets, p)[q] = there
            BY <2>00, <6>1
          <6> QED BY <2>0, <5>1, <6>2
        <5>2. CASE j # m
          <6>1. j \in 1 .. m - 1
            BY <1>3, <4>3, <5>2
          <6>2. new[j] = old[j]
            BY <1>4, <1>9, <6>1
          <6> QED BY <4>3, <6>2
        <5> QED BY <5>1, <5>2
      <4>5. j \in 1 .. Len(new)
        BY <2>0, <4>3
      <4> QED BY <4>4, <4>5, Zenon DEF PacketAt, j, q, there
    <3> QED BY <3>1, <3>2
  <2> QED BY <1>4, <1>5, <2>1, <2>2, <2>3, <2>4, Zenon DEF VideoDone, new
<1> QED BY <1>8, <1>9

\* What the video samples are: one for each marker, with the packets behind it,
\* each at the sum of the sizes before it, and a key frame at each multiple of g.
LEMMA VideoSamples ==
  ASSUME NEW g, NEW n \in Nat \ {0}, NEW sizes \in [1 .. n -> Int], sizes[1] = Invalid
  PROVE  \E sum \in [0 .. n -> Int] :
           /\ sum[0] = 0
           /\ \A k \in 1 .. n :
                sum[k] = sum[k - 1] + (IF sizes[k] = Invalid THEN 0 ELSE sizes[k])
           /\ videoSamples(sizes, g) \in Seq(VideoSample)
           /\ Len(videoSamples(sizes, g)) = Cardinality(Marks(sizes, n))
           /\ KeysFit(videoSamples(sizes, g), g)
           /\ \A i \in 1 .. n : sizes[i] # Invalid =>
                PacketAt(videoSamples(sizes, g), sizes, i, sum[i - 1])
<1>1. PICK acc : /\ acc[0] = Nothing
                 /\ \A k \in 1 .. n : acc[k] = VideoStep(g, acc[k - 1], sizes[k])
                 /\ videoSamples(sizes, g) = acc[n].samples
  <2>1. DOMAIN sizes = 1 .. n /\ n \in Nat
    OBVIOUS
  <2>2. VideoFolded(sizes, g, n)
    BY <2>1, VideoFold
  <2> QED BY <2>2 DEF VideoFolded
<1>. DEFINE Bad == {k \in 1 .. n : ~VideoDone(sizes, g, acc, k)}
<1>2. Bad = {}
  <2> SUFFICES ASSUME Bad # {} PROVE FALSE
    OBVIOUS
  <2>1. Bad \subseteq Nat
    OBVIOUS
  <2>2. PICK k \in Bad : \A j \in Bad : k <= j
    <3> HIDE DEF Bad
    <3> QED BY <2>1, LeastNumber
  <2>3. CASE k = 1
    <3>1. acc[1] = VideoStep(g, acc[1 - 1], sizes[1]) /\ 1 - 1 = 0
      BY <1>1
    <3>2. acc[1] = VideoStep(g, acc[0], sizes[1])
      BY <3>1
    <3>3. VideoDone(sizes, g, acc, 1)
      BY <1>1, <3>2, VideoStarts
    <3> QED BY <2>2, <2>3, <3>3
  <2>4. CASE k # 1
    <3>1. k \in 2 .. n /\ k - 1 \in 1 .. n /\ n \in Nat
      BY <2>2, <2>4
    <3>2. VideoDone(sizes, g, acc, k - 1)
      BY <2>2, <3>1
    <3>3. acc[k] = VideoStep(g, acc[k - 1], sizes[k])
      BY <1>1, <3>1
    <3>4. VideoDone(sizes, g, acc, k)
      BY <3>1, <3>2, <3>3, VideoGoesOn
    <3> QED BY <2>2, <3>4
  <2> QED BY <2>3, <2>4
<1>3. \A k \in 1 .. n : VideoDone(sizes, g, acc, k)
  BY <1>2
<1>. DEFINE sum == [k \in 0 .. n |-> acc[k].offset]
<1>4. acc[0] = [samples |-> <<>>, offset |-> 0]
  BY <1>1 DEF Nothing
<1>5. sum \in [0 .. n -> Int] /\ sum[0] = 0
  <2>1. ASSUME NEW k \in 0 .. n PROVE acc[k].offset \in Int
    <3>1. CASE k = 0
      BY <1>4, <3>1
    <3>2. CASE k # 0
      <4>1. k \in 1 .. n
        BY <3>2
      <4> QED BY <1>3, <4>1 DEF VideoDone
    <3> QED BY <3>1, <3>2
  <2> QED BY <1>4, <2>1
<1>6. ASSUME NEW k \in 1 .. n
      PROVE  acc[k].offset = acc[k - 1].offset + (IF sizes[k] = Invalid THEN 0 ELSE sizes[k])
  <2>. DEFINE samples == acc[k - 1].samples
              offset == acc[k - 1].offset
  <2>1. /\ acc[k - 1] = [samples |-> samples, offset |-> offset] /\ samples \in Seq(VideoSample)
        /\ offset \in Int /\ (sizes[k] = Invalid \/ samples # <<>>)
    <3>1. CASE k = 1
      <4>1. k - 1 = 0 /\ sizes[k] = Invalid /\ <<>> \in Seq(VideoSample)
        BY <3>1
      <4>2. acc[k - 1] = [samples |-> <<>>, offset |-> 0]
        BY <1>4, <4>1
      <4> QED BY <4>1, <4>2
    <3>2. CASE k # 1
      <4>1. k - 1 \in 1 .. n /\ k - 1 \in Nat \ {0}
        BY <3>2
      <4>2. VideoDone(sizes, g, acc, k - 1)
        BY <1>3, <4>1
      <4>3. Cardinality(Marks(sizes, k - 1)) \in Nat \ {0}
        BY <4>1, MarksStep
      <4>4. Len(samples) # 0
        BY <4>2, <4>3 DEF VideoDone
      <4> QED BY <4>2, <4>4 DEF VideoDone
    <3> QED BY <3>1, <3>2
  <2>2. acc[k] = VideoStep(g, [samples |-> samples, offset |-> offset], sizes[k])
    BY <1>1, <2>1
  <2>3. sizes[k] \in Int
    OBVIOUS
  <2> HIDE DEF samples, offset
  <2>4. acc[k].offset = offset + (IF sizes[k] = Invalid THEN 0 ELSE sizes[k])
    <3>1. VideoStepped(g, samples, offset, sizes[k], acc[k])
      BY <2>1, <2>2, <2>3, VideoStepAdds
    <3> QED BY <3>1 DEF VideoStepped
  <2> QED BY <2>4 DEF offset
<1>7. \A k \in 1 .. n : sum[k] = acc[k].offset /\ sum[k - 1] = acc[k - 1].offset
  OBVIOUS
<1> HIDE DEF sum
<1>8. VideoDone(sizes, g, acc, n)
  BY <1>3
<1>9. /\ videoSamples(sizes, g) \in Seq(VideoSample)
      /\ Len(videoSamples(sizes, g)) = Cardinality(Marks(sizes, n))
      /\ KeysFit(videoSamples(sizes, g), g)
      /\ \A i \in 1 .. n : sizes[i] # Invalid =>
           PacketAt(videoSamples(sizes, g), sizes, i, sum[i - 1])
  BY <1>1, <1>7, <1>8 DEF VideoDone
<1>10. \A k \in 1 .. n :
         sum[k] = sum[k - 1] + (IF sizes[k] = Invalid THEN 0 ELSE sizes[k])
  BY <1>6, <1>7
<1> QED BY <1>5, <1>9, <1>10

-----------------------------------------------------------------------------
(* Sizes as numbers *)

\* The values of a size and of a byte.
Word == ByteBase * ByteBase
Bytes == 0 .. ByteBase - 1

\* A size has an even number of values, half of which are read as negative.
LEMMA WordFacts ==
  /\ ByteBase \in Nat /\ ByteBase > 1 /\ Word \in Nat /\ Word >= 4
  /\ SizeLimit \in Nat /\ 2 * SizeLimit = Word
  /\ \A high \in Bytes, low \in Bytes :
       ByteBase * high + low \in Nat /\ ByteBase * high + low < Word
<1>1. ByteBase \in Nat /\ ByteBase > 1 /\ ByteBase % 2 = 0
  BY ContentAssumption
<1>2. ASSUME NEW b \in Nat, b > 1, b % 2 = 0
      PROVE  /\ b * b \in Nat /\ b * b >= 4
             /\ (b * b) \div 2 \in Nat /\ 2 * ((b * b) \div 2) = b * b
             /\ \A high \in 0 .. b - 1, low \in 0 .. b - 1 :
                  b * high + low \in Nat /\ b * high + low < b * b
  <2>1. b * b \in Nat /\ b * b >= 4
    BY <1>2
  <2>2. PICK h \in Nat : b = 2 * h
    <3>1. b \div 2 \in Nat /\ b = 2 * (b \div 2)
      BY <1>2
    <3> QED BY <3>1
  <2>3. b * b = 2 * (h * b) /\ h * b \in Nat
    BY <2>2
  <2>4. ASSUME NEW c \in Nat PROVE (2 * c) \div 2 = c
    OBVIOUS
  <2>5. ASSUME NEW high \in 0 .. b - 1, NEW low \in 0 .. b - 1
        PROVE  b * high + low \in Nat /\ b * high + low < b * b
    <3>1. high \in Nat /\ low \in Nat /\ high <= b - 1 /\ low < b
      OBVIOUS
    <3>2. b * high <= b * (b - 1) /\ b * high \in Nat
      BY <3>1
    <3>3. b * (b - 1) = b * b - b
      OBVIOUS
    <3> QED BY <2>1, <3>1, <3>2, <3>3
  <2> QED BY <2>1, <2>3, <2>4, <2>5
<1> QED BY <1>1, <1>2 DEF Word, Bytes, SizeLimit

\* Reading a size as signed keeps just the short ones, and marks the markers.
LEMMA SignedFacts ==
  ASSUME NEW z \in Nat, z < Word
  PROVE  /\ Signed(z) \in Int
         /\ Signed(z) = z <=> z < SizeLimit
         /\ Signed(z) = Invalid <=> z = Marker
<1>1. Word \in Nat /\ Word >= 4 /\ SizeLimit \in Nat /\ 2 * SizeLimit = Word
  BY WordFacts
<1>2. Signed(z) = IF z < SizeLimit THEN z ELSE z - Word
  BY DEF Signed, Word
<1>3. Marker = Word - 1 /\ Invalid = -1
  BY DEF Marker, Word, Invalid
<1> QED BY <1>1, <1>2, <1>3

\* The table of a file of whole sizes.
LEMMA SizesRead ==
  ASSUME NEW meta \in Seq(Bytes), NEW beyond \in Bytes
  PROVE  /\ Len(meta) \in Nat /\ (Len(meta) + 1) \div 2 \in Nat
         /\ getSizes(meta, beyond) \in [1 .. (Len(meta) + 1) \div 2 -> Int]
         /\ Len(meta) > 0 => (Len(meta) + 1) \div 2 > 0
         /\ Whole(meta) =>
              /\ Sizes(meta) = (Len(meta) + 1) \div 2
              /\ \A i \in 1 .. Sizes(meta) :
                   /\ Size(meta, i) \in Nat /\ Size(meta, i) < Word
                   /\ getSizes(meta, beyond)[i] = Signed(Size(meta, i))
<1>. DEFINE n == (Len(meta) + 1) \div 2
<1>1. Len(meta) \in Nat /\ n \in Nat /\ 2 * n <= Len(meta) + 1 /\ Len(meta) <= 2 * n
  OBVIOUS
<1>2. ASSUME NEW i \in 1 .. n
      PROVE  /\ 2 * i - 1 \in 1 .. Len(meta) /\ meta[2 * i - 1] \in Bytes
             /\ 2 * i <= Len(meta) => 2 * i \in 1 .. Len(meta) /\ meta[2 * i] \in Bytes
  <2>1. i \in Nat /\ 1 <= i /\ i <= n
    BY <1>1
  <2> HIDE DEF n
  <2>2. 2 * i - 1 \in 1 .. Len(meta)
    BY <1>1, <2>1
  <2>3. 2 * i <= Len(meta) => 2 * i \in 1 .. Len(meta)
    BY <1>1, <2>1
  <2> QED BY <2>2, <2>3
<1>3. ASSUME NEW i \in 1 .. n
      PROVE  LET size == ByteBase * meta[2 * i - 1] + IF 2 * i <= Len(meta) THEN meta[2 * i] ELSE beyond
             IN size \in Nat /\ size < Word
  <2>. DEFINE low == IF 2 * i <= Len(meta) THEN meta[2 * i] ELSE beyond
  <2>1. low \in Bytes /\ meta[2 * i - 1] \in Bytes
    BY <1>2
  <2> HIDE DEF low
  <2>2. ByteBase * meta[2 * i - 1] + low \in Nat /\ ByteBase * meta[2 * i - 1] + low < Word
    BY <2>1, WordFacts
  <2> QED BY <2>2 DEF low
<1>4. getSizes(meta, beyond) \in [1 .. n -> Int]
  <2>1. ASSUME NEW i \in 1 .. n
        PROVE  Signed(ByteBase * meta[2 * i - 1] + IF 2 * i <= Len(meta) THEN meta[2 * i] ELSE beyond)
                 \in Int
    BY <1>3, SignedFacts
  <2> HIDE DEF n
  <2> QED BY <2>1 DEF getSizes, n
<1>5. ASSUME Whole(meta)
      PROVE  /\ Sizes(meta) = n
             /\ \A i \in 1 .. Sizes(meta) :
                  /\ Size(meta, i) \in Nat /\ Size(meta, i) < Word
                  /\ getSizes(meta, beyond)[i] = Signed(Size(meta, i))
  <2>1. Sizes(meta) = n /\ 2 * n = Len(meta)
    BY <1>5 DEF Whole, Sizes
  <2>2. ASSUME NEW i \in 1 .. n
        PROVE  /\ Size(meta, i) \in Nat /\ Size(meta, i) < Word
               /\ getSizes(meta, beyond)[i] = Signed(Size(meta, i))
    <3>1. 2 * i <= Len(meta)
      BY <1>1, <2>1
    <3>2. Size(meta, i) = ByteBase * meta[2 * i - 1]
                          + IF 2 * i <= Len(meta) THEN meta[2 * i] ELSE beyond
      BY <3>1 DEF Size
    <3>3. getSizes(meta, beyond)[i] = Signed(Size(meta, i))
      BY <3>2 DEF getSizes
    <3> QED BY <1>3, <3>2, <3>3
  <2> HIDE DEF n
  <2> QED BY <2>1, <2>2
<1>6. Len(meta) > 0 => n > 0
  BY <1>1
<1> QED BY <1>1, <1>4, <1>5, <1>6

\* A function given by its first value and its increments exists.
LEMMA SumsExist ==
  ASSUME NEW n \in Nat, NEW d
  PROVE  \E f : f = [k \in 0 .. n |-> IF k = 0 THEN 0 ELSE f[k - 1] + d[k]]
<1>. DEFINE IsSum(f, m) == f = [k \in 0 .. m |-> IF k = 0 THEN 0 ELSE f[k - 1] + d[k]]
            Bad == {m \in Nat : ~\E f : IsSum(f, m)}
<1>1. SUFFICES ASSUME Bad # {} PROVE FALSE
  OBVIOUS
<1>2. PICK m \in Bad : \A k \in Bad : m <= k
  <2>1. Bad \subseteq Nat
    OBVIOUS
  <2> HIDE DEF Bad
  <2> QED BY <1>1, <2>1, LeastNumber
<1>3. CASE m = 0
  <2>. DEFINE f == [k \in 0 .. 0 |-> 0]
  <2>1. f = [k \in 0 .. 0 |-> IF k = 0 THEN 0 ELSE f[k - 1] + d[k]]
    OBVIOUS
  <2> QED BY <1>2, <1>3, <2>1
<1>4. CASE m # 0
  <2>1. m - 1 \in Nat /\ m - 1 \notin Bad
    <3> HIDE DEF IsSum
    <3> QED BY <1>2, <1>4
  <2>2. PICK f : IsSum(f, m - 1)
    BY <2>1
  <2>. DEFINE h == [k \in 0 .. m |-> IF k = 0 THEN 0 ELSE f[k - 1] + d[k]]
  <2>3. ASSUME NEW k \in 0 .. m, k # 0 PROVE f[k - 1] = h[k - 1]
    <3>1. k - 1 \in 0 .. m - 1 /\ k - 1 \in 0 .. m
      BY <1>2, <2>3
    <3> QED BY <2>2, <3>1
  <2>4. h = [k \in 0 .. m |-> IF k = 0 THEN 0 ELSE h[k - 1] + d[k]]
    <3>1. h = [k \in 0 .. m |-> IF k = 0 THEN 0 ELSE f[k - 1] + d[k]]
      OBVIOUS
    <3> HIDE DEF h
    <3> QED BY <2>3, <3>1
  <2> QED BY <1>2, <2>4
<1> QED BY <1>3, <1>4

\* The place of a size is the sum of the bytes of those before it.
PlacesAre(meta, signs, sum) ==
  /\ sum[0] = 0
  /\ \A k \in 1 .. Sizes(meta) :
       sum[k] = sum[k - 1] + (IF Size(meta, k) \in signs THEN 0 ELSE Size(meta, k))
  /\ \A i \in 1 .. Sizes(meta) : Place(meta, signs, i) = sum[i - 1]

\* Such sums exist for every file.
LEMMA Places ==
  ASSUME NEW meta, Sizes(meta) \in Nat, NEW signs
  PROVE  \E sum : PlacesAre(meta, signs, sum)
<1>. DEFINE n == Sizes(meta)
            After(f) == f = [k \in 0 .. n |->
                              IF k = 0 THEN 0
                              ELSE f[k - 1] + IF Size(meta, k) \in signs THEN 0 ELSE Size(meta, k)]
<1>1. \E f : After(f)
  <2>. DEFINE d == [k \in 1 .. n |-> IF Size(meta, k) \in signs THEN 0 ELSE Size(meta, k)]
  <2>1. PICK f : f = [k \in 0 .. n |-> IF k = 0 THEN 0 ELSE f[k - 1] + d[k]]
    <3> HIDE DEF d
    <3> QED BY SumsExist
  <2>2. \A k \in 0 .. n : k # 0 =>
          d[k] = IF Size(meta, k) \in signs THEN 0 ELSE Size(meta, k)
    OBVIOUS
  <2> HIDE DEF d
  <2>3. After(f)
    BY <2>1, <2>2
  <2> QED BY <2>3
<1>2. \A i : Place(meta, signs, i) = (CHOOSE f : After(f))[i - 1]
  BY DEF Place
<1> HIDE DEF After
<1>3. PICK f : f = (CHOOSE g : After(g)) /\ After(f)
  BY <1>1
<1>4. /\ f[0] = 0
      /\ \A k \in 1 .. n :
           f[k] = f[k - 1] + (IF Size(meta, k) \in signs THEN 0 ELSE Size(meta, k))
  BY <1>3 DEF After
<1> QED BY <1>2, <1>3, <1>4 DEF PlacesAre

-----------------------------------------------------------------------------
(* What is found of a single file *)

\* Sums that start and go on alike are alike.
Alike(f, h, n) == \A k \in 0 .. n : f[k] = h[k]

LEMMA SameSums ==
  ASSUME NEW n \in Nat, NEW f, NEW h, f[0] = h[0],
         \A k \in 1 .. n : f[k - 1] = h[k - 1] => f[k] = h[k]
  PROVE  Alike(f, h, n)
<1>. DEFINE Bad == {k \in 0 .. n : f[k] # h[k]}
<1>1. SUFFICES ASSUME Bad # {} PROVE FALSE
  BY DEF Alike
<1>2. PICK k \in Bad : \A j \in Bad : k <= j
  <2>1. Bad \subseteq Nat
    OBVIOUS
  <2> HIDE DEF Bad
  <2> QED BY <1>1, <2>1, LeastNumber
<1>3. k \in 1 .. n /\ k - 1 \in 0 .. n /\ ~(k <= k - 1)
  BY <1>2
<1>4. f[k - 1] = h[k - 1]
  BY <1>2, <1>3
<1> QED BY <1>2, <1>3, <1>4

\* The packets of a video, however long, against the reference reading.
LEMMA VideoFileFound ==
  ASSUME NEW meta \in Seq(Bytes), NEW beyond \in Bytes, NEW g, Whole(meta),
         VideoLoads(meta, getSizes(meta, beyond), g)
  PROVE  LET samples == videoSamples(getSizes(meta, beyond), g)
             packets == Packets(meta, Sizes(meta)) IN
           /\ Len(samples) = Cardinality(Markers(meta, Sizes(meta)))
           /\ (\A i \in packets : FoundWhereItIs(samples, meta, i))
                <=> (\A i \in packets : Size(meta, i) < SizeLimit)
<1>. DEFINE sizes == getSizes(meta, beyond)
            samples == videoSamples(sizes, g)
            n == Sizes(meta)
            packets == Packets(meta, n)
<1>1. /\ n \in Nat \ {0} /\ sizes \in [1 .. n -> Int] /\ sizes[1] = Invalid
      /\ \A i \in 1 .. n : Size(meta, i) \in Nat /\ Size(meta, i) < Word
                           /\ sizes[i] = Signed(Size(meta, i))
  <2>1. Len(meta) > 0 /\ sizes[1] = Invalid
    BY DEF VideoLoads
  <2> QED BY <2>1, SizesRead
<1> HIDE DEF sizes, n
<1>2. \A i \in 1 .. n : /\ sizes[i] = Invalid <=> Size(meta, i) = Marker
                        /\ sizes[i] = Size(meta, i) <=> Size(meta, i) < SizeLimit
  BY <1>1, SignedFacts
<1>3. PICK sum \in [0 .. n -> Int] :
        /\ sum[0] = 0
        /\ \A k \in 1 .. n : sum[k] = sum[k - 1] + (IF sizes[k] = Invalid THEN 0 ELSE sizes[k])
        /\ samples \in Seq(VideoSample) /\ Len(samples) = Cardinality(Marks(sizes, n))
        /\ \A i \in 1 .. n : sizes[i] # Invalid => PacketAt(samples, sizes, i, sum[i - 1])
  BY <1>1, VideoSamples
<1> HIDE DEF samples
<1>4. PICK place : PlacesAre(meta, {Marker}, place)
  BY <1>1, Places DEF n
<1>5. ASSUME NEW k \in 0 .. n PROVE Markers(meta, k) = Marks(sizes, k)
  <2>1. \A i \in 1 .. k : i \in 1 .. n
    BY <1>1
  <2> QED BY <1>2, <2>1 DEF Markers, Marks
<1>6. Len(samples) = Cardinality(Markers(meta, n))
  BY <1>1, <1>3, <1>5
<1>7. ASSUME NEW i \in packets
      PROVE  /\ i \in 1 .. n /\ Size(meta, i) # Marker /\ sizes[i] # Invalid
             /\ FoundWhereItIs(samples, meta, i)
                  <=> [len |-> sizes[i], offset |-> sum[i - 1]]
                        = [len |-> Size(meta, i), offset |-> place[i - 1]]
  <2>1. i \in 1 .. n /\ Size(meta, i) # Marker /\ sizes[i] # Invalid
    BY <1>2 DEF Packets
  <2>2. Markers(meta, i) = Marks(sizes, i)
    BY <1>1, <1>5, <2>1
  <2>3. samples[Cardinality(Marks(sizes, i))].packets[i - Max(Marks(sizes, i))]
          = [len |-> sizes[i], offset |-> sum[i - 1]]
    BY <1>3, <2>1 DEF PacketAt
  <2>4. Place(meta, {Marker}, i) = place[i - 1]
    BY <1>4, <2>1 DEF PlacesAre, n
  <2>5. FoundWhereItIs(samples, meta, i)
          <=> [len |-> sizes[i], offset |-> sum[i - 1]]
                = [len |-> Size(meta, i), offset |-> place[i - 1]]
    BY <2>2, <2>3, <2>4, Zenon DEF FoundWhereItIs
  <2> QED BY <2>1, <2>5, Zenon
<1>8. ASSUME \A i \in packets : FoundWhereItIs(samples, meta, i), NEW i \in packets
      PROVE  Size(meta, i) < SizeLimit
  <2>1. [len |-> sizes[i], offset |-> sum[i - 1]]
          = [len |-> Size(meta, i), offset |-> place[i - 1]]
    BY <1>7, <1>8, Zenon
  <2>2. sizes[i] = Size(meta, i)
    BY <2>1
  <2> QED BY <1>2, <1>7, <2>2
<1>9. ASSUME \A i \in packets : Size(meta, i) < SizeLimit
      PROVE  \A i \in packets : FoundWhereItIs(samples, meta, i)
  <2>1. ASSUME NEW k \in 1 .. n, sum[k - 1] = place[k - 1]
        PROVE  sum[k] = place[k]
    <3>1. place[k] = place[k - 1] + (IF Size(meta, k) \in {Marker} THEN 0 ELSE Size(meta, k))
      BY <1>4 DEF PlacesAre, n
    <3>2. sum[k] = sum[k - 1] + (IF sizes[k] = Invalid THEN 0 ELSE sizes[k])
      BY <1>3
    <3>3. CASE Size(meta, k) = Marker
      <4>1. sizes[k] = Invalid
        BY <1>2, <3>3
      <4> QED BY <2>1, <3>1, <3>2, <3>3, <4>1
    <3>4. CASE Size(meta, k) # Marker
      <4>1. k \in packets
        BY <3>4 DEF Packets
      <4>2. sizes[k] # Invalid /\ sizes[k] = Size(meta, k)
        BY <1>2, <1>9, <3>4, <4>1
      <4> QED BY <2>1, <3>1, <3>2, <3>4, <4>2
    <3> QED BY <3>3, <3>4
  <2>2. sum[0] = place[0] /\ n \in Nat
    BY <1>1, <1>3, <1>4 DEF PlacesAre
  <2>3. \A k \in 0 .. n : sum[k] = place[k]
    <3>1. Alike(sum, place, n)
      BY <2>1, <2>2, SameSums
    <3> QED BY <3>1 DEF Alike
  <2>4. ASSUME NEW i \in packets PROVE FoundWhereItIs(samples, meta, i)
    <3>1. i - 1 \in 0 .. n /\ i \in 1 .. n
      <4>1. i \in 1 .. n
        BY <1>7
      <4> QED BY <1>1, <4>1
    <3>2. sum[i - 1] = place[i - 1]
      BY <2>3, <3>1
    <3>3. sizes[i] = Size(meta, i)
      BY <1>2, <1>9, <3>1
    <3> QED BY <1>7, <3>2, <3>3, Zenon
  <2> QED BY <2>4
<1>10. (\A i \in packets : FoundWhereItIs(samples, meta, i))
         <=> (\A i \in packets : Size(meta, i) < SizeLimit)
  BY <1>8, <1>9, Zenon
<1> QED BY <1>6, <1>10, Zenon DEF samples, sizes, n

\* The samples of an audio file against the reference reading.
LEMMA AudioFileFound ==
  ASSUME NEW meta \in Seq(Bytes), NEW beyond \in Bytes, Whole(meta)
  PROVE  (\A i \in 1 .. Sizes(meta) :
            audioSamples(getSizes(meta, beyond))[i]
              = [len |-> Size(meta, i), offset |-> Place(meta, {}, i)])
         <=> \A i \in 1 .. Sizes(meta) :
               Size(meta, i) < SizeLimit /\ Place(meta, {}, i) < OffsetLimit
<1>. DEFINE sizes == getSizes(meta, beyond)
            samples == audioSamples(sizes)
            n == Sizes(meta)
            Found(i) == samples[i] = [len |-> Size(meta, i), offset |-> Place(meta, {}, i)]
            Short(i) == Size(meta, i) < SizeLimit /\ Place(meta, {}, i) < OffsetLimit
<1>1. /\ n \in Nat /\ sizes \in [1 .. n -> Int]
      /\ \A i \in 1 .. n : Size(meta, i) \in Nat /\ Size(meta, i) < Word
                           /\ sizes[i] = Signed(Size(meta, i))
  BY SizesRead
<1> HIDE DEF sizes, n
<1>2. \A i \in 1 .. n : sizes[i] = Size(meta, i) <=> Size(meta, i) < SizeLimit
  BY <1>1, SignedFacts
<1>3. PICK sum \in [0 .. n -> Int] :
        /\ sum[0] = 0 /\ \A k \in 1 .. n : sum[k] = sum[k - 1] + sizes[k]
        /\ \A i \in 1 .. n : samples[i] = [len |-> sizes[i], offset |-> ToInt(sum[i - 1])]
  BY <1>1, AudioSamples
<1> HIDE DEF samples
<1>4. PICK place : /\ place[0] = 0
                   /\ \A k \in 1 .. n : place[k] = place[k - 1] + Size(meta, k)
                   /\ \A i \in 1 .. n : Place(meta, {}, i) = place[i - 1]
  <2>1. PICK place : PlacesAre(meta, {}, place)
    BY <1>1, Places DEF n
  <2> QED BY <2>1 DEF PlacesAre, n
<1>5. ASSUME \A i \in 1 .. n : Size(meta, i) < SizeLimit
      PROVE  \A k \in 0 .. n : sum[k] = place[k]
  <2>1. ASSUME NEW k \in 1 .. n, sum[k - 1] = place[k - 1]
        PROVE  sum[k] = place[k]
    <3>1. sizes[k] = Size(meta, k)
      BY <1>2, <1>5
    <3> QED BY <1>3, <1>4, <2>1, <3>1
  <2>2. sum[0] = place[0] /\ n \in Nat
    BY <1>1, <1>3, <1>4
  <2>3. Alike(sum, place, n)
    BY <2>1, <2>2, SameSums
  <2> QED BY <2>3 DEF Alike
<1>6. \A x \in Int : /\ ToInt(x) < OffsetLimit
                     /\ 0 <= x /\ x < OffsetLimit => ToInt(x) = x
  BY ContentAssumption DEF ToInt
<1>7. \A k \in 0 .. n : 0 <= place[k] /\ place[k] \in Int
  <2>. DEFINE Bad == {k \in 0 .. n : ~(0 <= place[k] /\ place[k] \in Int)}
  <2>1. SUFFICES ASSUME Bad # {} PROVE FALSE
    OBVIOUS
  <2>2. PICK k \in Bad : \A j \in Bad : k <= j
    <3>1. Bad \subseteq Nat
      OBVIOUS
    <3> HIDE DEF Bad
    <3> QED BY <2>1, <3>1, LeastNumber
  <2>3. k # 0
    BY <1>4, <2>2
  <2>4. k \in 1 .. n /\ k - 1 \in 0 .. n /\ ~(k <= k - 1)
    BY <1>1, <2>2, <2>3
  <2>5. 0 <= place[k - 1] /\ place[k - 1] \in Int
    BY <2>2, <2>4
  <2>6. place[k] = place[k - 1] + Size(meta, k) /\ Size(meta, k) \in Nat
    BY <1>1, <1>4, <2>4
  <2> QED BY <2>2, <2>5, <2>6
<1>8. ASSUME \A i \in 1 .. n : Found(i) PROVE \A i \in 1 .. n : Short(i)
  <2>1. ASSUME NEW i \in 1 .. n
        PROVE  sizes[i] = Size(meta, i) /\ ToInt(sum[i - 1]) = Place(meta, {}, i)
    <3>1. [len |-> sizes[i], offset |-> ToInt(sum[i - 1])]
            = [len |-> Size(meta, i), offset |-> Place(meta, {}, i)]
      BY <1>3, <1>8
    <3> QED BY <3>1
  <2>2. \A i \in 1 .. n : Size(meta, i) < SizeLimit
    BY <1>2, <2>1
  <2>3. ASSUME NEW i \in 1 .. n PROVE Place(meta, {}, i) < OffsetLimit
    <3>1. sum[i - 1] \in Int
      BY <1>1, <1>3
    <3> QED BY <1>6, <2>1, <3>1
  <2> QED BY <2>2, <2>3
<1>9. ASSUME \A i \in 1 .. n : Short(i) PROVE \A i \in 1 .. n : Found(i)
  <2>1. ASSUME NEW i \in 1 .. n PROVE Found(i)
    <3>1. i - 1 \in 0 .. n
      BY <1>1
    <3>2. Place(meta, {}, i) = place[i - 1] /\ sum[i - 1] = place[i - 1]
      BY <1>4, <1>5, <1>9, <3>1
    <3>3. ToInt(sum[i - 1]) = Place(meta, {}, i)
      BY <1>6, <1>7, <1>9, <3>1, <3>2
    <3>4. sizes[i] = Size(meta, i)
      BY <1>2, <1>9
    <3> QED BY <1>3, <3>3, <3>4
  <2> QED BY <2>1
<1>10. (\A i \in 1 .. n : Found(i)) <=> (\A i \in 1 .. n : Short(i))
  <2> HIDE DEF Found, Short
  <2> QED BY <1>8, <1>9, Zenon
<1> QED BY <1>10, Zenon DEF samples, sizes, n

-----------------------------------------------------------------------------
(* The inductive invariant *)

\* A camera that is loaded is well formed, and its samples are those of its files,
\* which loaded with the gop that rtpInfo has now.
Loaded(c) ==
  LET videos == disk.cams[c].videos IN
    /\ WellFormed(c)
    /\ \E beyond \in Bytes :
         /\ \A v \in DOMAIN videos : VideoLoads(videos[v], getSizes(videos[v], beyond), gop)
         /\ videoFiles[c] =
              [v \in DOMAIN videos |-> videoSamples(getSizes(videos[v], beyond), gop)]

RefsLoaded == {c \in DOMAIN videoFiles : isRefCam(c)}

\* The audio samples are those of the reference camera as long as there is one.
AudioShape ==
  /\ RefsLoaded = {} => audioFile = <<>>
  /\ \A c : RefsLoaded = {c} =>
       \E a \in disk.cams[c].asa, beyond \in Bytes : audioFile = audioSamples(getSizes(a, beyond))

\* The inductive invariant.
IInv ==
  /\ disk \in Contents
  /\ todo \subseteq DOMAIN disk.cams /\ DOMAIN videoFiles \subseteq DOMAIN disk.cams
  /\ todo \cap DOMAIN videoFiles = {}
  /\ \A c \in DOMAIN videoFiles : Loaded(c)
  /\ audioFile \in Seq(Packet)
  /\ gop # Missing => audioFile # <<>>
  /\ stage = "closed" => DOMAIN videoFiles = {}
  /\ stage # "closed" => AudioShape
  /\ OpenHasReference

\* What a file that loaded has at least.
LEMMA VideoFileSamples ==
  ASSUME NEW meta \in Seq(Bytes), NEW beyond \in Bytes, NEW g,
         VideoLoads(meta, getSizes(meta, beyond), g)
  PROVE  LET samples == videoSamples(getSizes(meta, beyond), g) IN
           /\ samples \in Seq(VideoSample) /\ Len(samples) \in Nat \ {0} /\ KeysFit(samples, g)
<1>. DEFINE sizes == getSizes(meta, beyond)
            n == (Len(meta) + 1) \div 2
            samples == videoSamples(sizes, g)
<1>1. n \in Nat \ {0} /\ sizes \in [1 .. n -> Int] /\ sizes[1] = Invalid
  <2>1. Len(meta) > 0 /\ sizes[1] = Invalid
    BY DEF VideoLoads
  <2> QED BY <2>1, SizesRead
<1> HIDE DEF sizes, n
<1>2. /\ samples \in Seq(VideoSample) /\ Len(samples) = Cardinality(Marks(sizes, n))
      /\ KeysFit(samples, g)
  BY <1>1, VideoSamples
<1>3. Cardinality(Marks(sizes, n)) \in Nat \ {0}
  BY <1>1, MarksStep
<1> QED BY <1>2, <1>3 DEF sizes

\* What an audio file that loaded has at least.
LEMMA AudioFileSamples ==
  ASSUME NEW meta \in Seq(Bytes), NEW beyond \in Bytes,
         AudioLoads(meta, getSizes(meta, beyond))
  PROVE  /\ audioSamples(getSizes(meta, beyond)) \in Seq(Packet)
         /\ audioSamples(getSizes(meta, beyond)) # <<>>
<1>. DEFINE sizes == getSizes(meta, beyond)
            n == (Len(meta) + 1) \div 2
<1>1. n \in Nat \ {0} /\ sizes \in [1 .. n -> Int]
  <2>1. Len(meta) > 0
    BY DEF AudioLoads
  <2> QED BY <2>1, SizesRead
<1> HIDE DEF sizes, n
<1>2. audioSamples(sizes) \in Seq(Packet) /\ Len(audioSamples(sizes)) = n
  BY <1>1, AudioSamples DEF Packet
<1>3. audioSamples(sizes) # <<>>
  BY <1>1, <1>2
<1> QED BY <1>2, <1>3 DEF sizes

\* The directory that comes next is one of those that are left.
LEMMA ForemostIn ==
  ASSUME NEW names, names \subseteq Range(Names), names # {}
  PROVE  Foremost(names) \in names
<1>. DEFINE S == {i \in DOMAIN Names : Names[i] \in names}
<1>1. S # {} /\ S \subseteq Nat
  BY ContentAssumption DEF Range
<1>2. Min(S) \in S
  <2> HIDE DEF S
  <2>1. \E m \in S : \A x \in S : m <= x
    BY <1>1, LeastNumber
  <2> QED BY <2>1 DEF Min
<1> QED BY <1>2 DEF Foremost

\* What is known of a directory on disk.
LEMMA OnDisk ==
  ASSUME IInv, NEW c \in DOMAIN disk.cams
  PROVE  /\ disk.cams[c].videos \in Seq(Seq(Bytes))
         /\ \A v \in DOMAIN disk.cams[c].videos : disk.cams[c].videos[v] \in Seq(Bytes)
         /\ disk.cams[c].asa \subseteq Seq(Bytes) /\ IsFiniteSet(disk.cams[c].asa)
         /\ Missing \notin disk.cams[c].asa
<1>1. disk \in Contents
  BY DEF IInv
<1>2. /\ disk.cams[c].videos \in Seq(Seq(Bytes))
      /\ disk.cams[c].asa \subseteq Seq(Bytes) /\ IsFiniteSet(disk.cams[c].asa)
      /\ Missing \notin disk.cams[c].asa
  BY <1>1, ContentAssumption DEF Bytes
<1>3. \A v \in DOMAIN disk.cams[c].videos : disk.cams[c].videos[v] \in Seq(Bytes)
  BY <1>2
<1> QED BY <1>2, <1>3

\* A camera that is loaded has videos, each with samples, and there is a gop.
LEMMA LoadedHas ==
  ASSUME IInv, NEW c \in DOMAIN videoFiles
  PROVE  /\ gop # Missing /\ gop # 0
         /\ 1 \in DOMAIN videoFiles[c]
         /\ DOMAIN videoFiles[c] = DOMAIN disk.cams[c].videos
         /\ \A v \in DOMAIN videoFiles[c] :
              /\ videoFiles[c][v] \in Seq(VideoSample) /\ Len(videoFiles[c][v]) \in Nat \ {0}
              /\ KeysFit(videoFiles[c][v], gop)
<1>. DEFINE videos == disk.cams[c].videos
<1>1. c \in DOMAIN disk.cams /\ Loaded(c)
  BY DEF IInv
<1>2. PICK beyond \in Bytes :
        /\ \A v \in DOMAIN videos : VideoLoads(videos[v], getSizes(videos[v], beyond), gop)
        /\ videoFiles[c] =
             [v \in DOMAIN videos |-> videoSamples(getSizes(videos[v], beyond), gop)]
  BY <1>1 DEF Loaded
<1>3. videos # <<>> /\ videos \in Seq(Seq(Bytes)) /\ (\A v \in DOMAIN videos : videos[v] \in Seq(Bytes))
  BY <1>1, OnDisk DEF Loaded, WellFormed
<1>4. 1 \in DOMAIN videos
  <2> HIDE DEF videos
  <2> QED BY <1>3
<1> HIDE DEF videos
<1>5. DOMAIN videoFiles[c] = DOMAIN videos
  BY <1>2
<1>6. gop # Missing /\ gop # 0
  BY <1>2, <1>4 DEF VideoLoads
<1>7. ASSUME NEW v \in DOMAIN videos
      PROVE  /\ videoFiles[c][v] \in Seq(VideoSample) /\ Len(videoFiles[c][v]) \in Nat \ {0}
             /\ KeysFit(videoFiles[c][v], gop)
  <2>1. videoFiles[c][v] = videoSamples(getSizes(videos[v], beyond), gop)
    BY <1>2
  <2>2. VideoLoads(videos[v], getSizes(videos[v], beyond), gop) /\ videos[v] \in Seq(Bytes)
    BY <1>2, <1>3
  <2> QED BY <2>1, <2>2, VideoFileSamples
<1> QED BY <1>4, <1>5, <1>6, <1>7 DEF videos

\* Nothing is loaded at the start.
LEMMA InitIInv == Init => IInv
<1> SUFFICES ASSUME Init PROVE IInv
  OBVIOUS
<1> USE DEF Init
<1>1. disk \in Contents /\ todo = DOMAIN disk.cams /\ DOMAIN videoFiles = {} /\ gop = Missing
      /\ audioFile = <<>> /\ cached = {}
  OBVIOUS
<1>2. AudioShape
  BY <1>1 DEF AudioShape, RefsLoaded
<1>3. OpenHasReference /\ audioFile \in Seq(Packet)
  BY <1>1 DEF OpenHasReference
<1> QED BY <1>1, <1>2, <1>3 DEF IInv

\* Steps that leave what is loaded alone.
LEMMA LoadedKept ==
  ASSUME IInv, UNCHANGED <<disk, gop, audioFile, videoFiles>>
  PROVE  /\ \A c \in DOMAIN videoFiles' : Loaded(c)'
         /\ AudioShape => AudioShape'
<1>1. \A c \in DOMAIN videoFiles' : Loaded(c)'
  BY DEF IInv, Loaded, WellFormed
<1>2. AudioShape => AudioShape'
  BY DEF AudioShape, RefsLoaded
<1> QED BY <1>1, <1>2

\* The next camera directory is loaded.
LEMMA LoadIInv ==
  ASSUME IInv, stage = "cams", UNCHANGED <<disk, sessionVars>>, NEW name,
         name = Foremost(todo), todo # {}, WellFormed(name),
         loadStreamFilesInCamDirectories(name), stage' # "terminated"
  PROVE  IInv'
<1>. DEFINE videos == disk.cams[name].videos
            asc == disk.cams[name].asc
            asa == disk.cams[name].asa
<1>1. /\ disk \in Contents /\ todo \subseteq DOMAIN disk.cams
      /\ DOMAIN videoFiles \subseteq DOMAIN disk.cams /\ todo \cap DOMAIN videoFiles = {}
      /\ (\A c \in DOMAIN videoFiles : Loaded(c))
      /\ audioFile \in Seq(Packet) /\ (gop # Missing => audioFile # <<>>)
      /\ AudioShape /\ OpenHasReference
  BY DEF IInv
<1>2. name \in todo /\ name \in DOMAIN disk.cams /\ name \notin DOMAIN videoFiles
  <2>1. todo \subseteq Range(Names)
    BY <1>1, ContentAssumption
  <2> QED BY <1>1, <2>1, ForemostIn
<1>3. /\ videos # <<>> /\ (asc # {}) = isRefCam(name) /\ (asa # {}) = isRefCam(name)
      /\ videos \in Seq(Seq(Bytes)) /\ (\A v \in DOMAIN videos : videos[v] \in Seq(Bytes))
      /\ asa \subseteq Seq(Bytes) /\ Missing \notin asa
  BY <1>2, OnDisk DEF WellFormed
<1>4. 1 \in DOMAIN videos
  BY <1>3
<1>5. PICK config \in LastOf(asc), audio \in LastOf(asa), beyond \in Bytes :
        /\ audio # Missing => AudioLoads(audio, getSizes(audio, beyond))
        /\ \A v \in DOMAIN videos :
             VideoLoads(videos[v], getSizes(videos[v], beyond), kvInsert(config))
        /\ gop' = kvInsert(config)
        /\ audioFile' = audioFile \o (IF audio = Missing THEN <<>>
                                      ELSE audioSamples(getSizes(audio, beyond)))
        /\ videoFiles' = [c \in DOMAIN videoFiles \cup {name} |->
             IF c = name THEN [v \in DOMAIN videos |-> videoSamples(getSizes(videos[v], beyond), gop')]
             ELSE videoFiles[c]]
        /\ todo' = todo \ {name}
        /\ UNCHANGED stage
  BY DEF loadStreamFilesInCamDirectories, Bytes
<1>6. isRefCam(name) => audio \in asa /\ audio # Missing
  BY <1>3 DEF LastOf
<1>7. ~isRefCam(name) => config = Missing /\ audio = Missing
  BY <1>3 DEF LastOf
<1>. DEFINE samples == audioSamples(getSizes(audio, beyond))
<1>8. isRefCam(name) => samples \in Seq(Packet) /\ samples # <<>>
  BY <1>3, <1>5, <1>6, AudioFileSamples
<1>9. audioFile' = audioFile \o (IF isRefCam(name) THEN samples ELSE <<>>)
  BY <1>5, <1>6, <1>7
<1> HIDE DEF videos, asc, asa, samples
<1>10. /\ audioFile' \in Seq(Packet)
       /\ audioFile # <<>> \/ isRefCam(name) => audioFile' # <<>>
       /\ ~isRefCam(name) => audioFile' = audioFile
       /\ isRefCam(name) /\ audioFile = <<>> => audioFile' = samples
  BY <1>1, <1>8, <1>9
<1>11. gop # Missing => gop' = gop
  BY <1>5 DEF kvInsert
<1>12. gop' # Missing => audioFile' # <<>>
  <2>1. CASE gop # Missing
    BY <1>1, <1>10, <2>1
  <2>2. CASE gop = Missing /\ gop' # Missing
    <3>1. config # Missing
      BY <1>5, <2>2 DEF kvInsert
    <3> QED BY <1>7, <1>10, <3>1
  <2> QED BY <2>1, <2>2
<1>13. DOMAIN videoFiles' = DOMAIN videoFiles \cup {name}
  BY <1>5
<1>14. ASSUME NEW c \in DOMAIN videoFiles' PROVE Loaded(c)'
  <2>1. CASE c = name
    <3>1. videoFiles'[name] = [v \in DOMAIN videos |-> videoSamples(getSizes(videos[v], beyond), gop')]
      BY <1>5, <1>13
    <3>2. \A v \in DOMAIN videos : VideoLoads(videos[v], getSizes(videos[v], beyond), gop')
      BY <1>5
    <3>3. WellFormed(name)'
      BY DEF WellFormed
    <3> QED BY <2>1, <3>1, <3>2, <3>3 DEF Loaded, videos
  <2>2. CASE c # name
    <3>1. c \in DOMAIN videoFiles /\ videoFiles'[c] = videoFiles[c]
      BY <1>5, <1>13, <2>2
    <3>2. gop' = gop /\ Loaded(c)
      BY <1>1, <1>11, <3>1, LoadedHas
    <3>3. WellFormed(c)'
      BY <3>2 DEF Loaded, WellFormed
    <3> QED BY <3>1, <3>2, <3>3 DEF Loaded
  <2> QED BY <2>1, <2>2
<1>15. AudioShape'
  <2>1. RefsLoaded' = RefsLoaded \cup (IF isRefCam(name) THEN {name} ELSE {})
        /\ name \notin RefsLoaded
    BY <1>2, <1>13 DEF RefsLoaded, isRefCam
  <2>2. CASE ~isRefCam(name)
    <3>1. RefsLoaded' = RefsLoaded /\ audioFile' = audioFile /\ disk' = disk
      BY <1>10, <2>1, <2>2
    <3> QED BY <1>1, <3>1 DEF AudioShape
  <2>3. CASE isRefCam(name)
    <3>1. ASSUME NEW c, RefsLoaded' = {c}
          PROVE  \E a \in disk'.cams[c].asa, b \in Bytes : audioFile' = audioSamples(getSizes(a, b))
      <4>1. c = name /\ RefsLoaded = {}
        BY <2>1, <2>3, <3>1
      <4>2. audioFile' = samples
        BY <1>1, <1>10, <2>3, <4>1 DEF AudioShape
      <4>3. audio \in disk'.cams[c].asa
        BY <1>6, <2>3, <4>1 DEF asa
      <4> QED BY <4>2, <4>3 DEF samples
    <3>2. RefsLoaded' # {}
      BY <2>1, <2>3
    <3> QED BY <3>1, <3>2 DEF AudioShape
  <2> QED BY <2>2, <2>3
<1>16. OpenHasReference'
  <2> SUFFICES ASSUME cached' # {}
      PROVE  /\ gop' # Missing /\ gop' # 0 /\ audioFile' # <<>>
             /\ maxSampleNo'["video"] >= 0 /\ maxSampleNo'["audio"] >= 0
    BY DEF OpenHasReference
  <2>1. cached # {} /\ maxSampleNo' = maxSampleNo
    BY DEF sessionVars
  <2>2. /\ gop # Missing /\ gop # 0 /\ audioFile # <<>>
        /\ maxSampleNo["video"] >= 0 /\ maxSampleNo["audio"] >= 0
    BY <1>1, <2>1 DEF OpenHasReference
  <2> QED BY <1>10, <1>11, <2>1, <2>2
<1>17. /\ todo' \subseteq DOMAIN disk'.cams /\ DOMAIN videoFiles' \subseteq DOMAIN disk'.cams
       /\ todo' \cap DOMAIN videoFiles' = {}
  BY <1>1, <1>2, <1>5, <1>13
<1> QED BY <1>1, <1>5, <1>10, <1>12, <1>14, <1>15, <1>16, <1>17 DEF IInv

\* A session opens the content.
LEMMA OpenIInv == IInv /\ open => IInv'
<1> SUFFICES ASSUME IInv, open PROVE IInv'
  OBVIOUS
<1>1. UNCHANGED <<disk, todo, gop, audioFile, videoFiles, stage>>
  BY DEF open, loadVars
<1>2. PICK c \in DOMAIN videoFiles : getVideoSampleSize = Len(videoFiles[c][1])
  BY DEF open, getVideoSampleSize
<1>3. getVideoSampleSize \in Nat \ {0} /\ gop # Missing /\ gop # 0
  BY <1>2, LoadedHas
<1>4. Len(audioFile) \in Nat \ {0} /\ audioFile # <<>>
  <2>1. audioFile \in Seq(Packet) /\ audioFile # <<>>
    BY <1>3 DEF IInv
  <2> QED BY <2>1
<1>5. maxSampleNo'["video"] = getVideoSampleSize - 1 /\ maxSampleNo'["audio"] = Len(audioFile) - 1
  BY DEF open
<1>6. OpenHasReference'
  BY <1>1, <1>3, <1>4, <1>5 DEF OpenHasReference
<1>7. (\A d \in DOMAIN videoFiles' : Loaded(d)') /\ (AudioShape => AudioShape')
  BY <1>1, LoadedKept
<1> QED BY <1>1, <1>6, <1>7 DEF IInv

\* Every step keeps the invariant.
LEMMA StepIInv == IInv /\ [Next]_vars => IInv'
<1> SUFFICES ASSUME IInv, [Next]_vars PROVE IInv'
  OBVIOUS
<1>1. ASSUME UNCHANGED <<disk, gop, audioFile, videoFiles, sessionVars>>,
             todo' = todo, stage' # "closed", stage # "closed"
      PROVE  IInv'
  <2>1. (\A c \in DOMAIN videoFiles' : Loaded(c)') /\ (AudioShape => AudioShape')
    BY <1>1, LoadedKept
  <2>2. OpenHasReference'
    BY <1>1 DEF OpenHasReference, IInv, sessionVars
  <2> QED BY <1>1, <2>1, <2>2 DEF IInv
<1>2. CASE handleCamDirectories
  <2>1. CASE todo # {} /\ WellFormed(Foremost(todo)) /\ loadStreamFilesInCamDirectories(Foremost(todo))
    <3>1. stage = "cams" /\ UNCHANGED <<disk, sessionVars>>
      BY <1>2 DEF handleCamDirectories
    <3>2. CASE stage' # "terminated"
      BY <2>1, <3>1, <3>2, LoadIInv
    <3>3. CASE stage' = "terminated"
      <4>1. UNCHANGED <<todo, gop, audioFile, videoFiles>>
        BY <2>1, <3>1, <3>3 DEF loadStreamFilesInCamDirectories
      <4> QED BY <1>1, <3>1, <3>3, <4>1
    <3> QED BY <3>2, <3>3
  <2>2. CASE ~(todo # {} /\ WellFormed(Foremost(todo)) /\ loadStreamFilesInCamDirectories(Foremost(todo)))
    <3>1. /\ stage = "cams" /\ UNCHANGED <<disk, sessionVars>> /\ stage' \in {"invalid", "acc"}
          /\ UNCHANGED <<todo, gop, audioFile, videoFiles>>
      BY <1>2, <2>2 DEF handleCamDirectories
    <3> QED BY <1>1, <3>1
  <2> QED BY <2>1, <2>2
<1>3. CASE handleConfigFile \/ handleV0Images
  <2>1. /\ stage \in {"acc", "images"} /\ stage' \in {"images", "ready", "invalid"}
        /\ UNCHANGED <<disk, todo, gop, audioFile, videoFiles, sessionVars>>
    BY <1>3 DEF handleConfigFile, handleV0Images
  <2> QED BY <1>1, <2>1
<1>4. CASE open
  BY <1>4, OpenIInv
<1>5. CASE shutdown
  <2>1. /\ stage' = "closed" /\ DOMAIN videoFiles' = {}
        /\ UNCHANGED <<disk, todo, gop, audioFile, sessionVars>>
    BY <1>5 DEF shutdown
  <2>2. OpenHasReference'
    BY <2>1 DEF OpenHasReference, IInv, sessionVars
  <2> QED BY <2>1, <2>2 DEF IInv
<1>6. CASE UNCHANGED vars
  <2>1. UNCHANGED <<disk, todo, gop, audioFile, videoFiles, stage, sessionVars>>
    BY <1>6 DEF vars, loadVars
  <2>2. (\A c \in DOMAIN videoFiles' : Loaded(c)') /\ (AudioShape => AudioShape')
    BY <2>1, LoadedKept
  <2>3. OpenHasReference'
    BY <2>1 DEF OpenHasReference, IInv, sessionVars
  <2> QED BY <2>1, <2>2, <2>3 DEF IInv
<1> QED BY <1>2, <1>3, <1>4, <1>5, <1>6 DEF Next

-----------------------------------------------------------------------------
(* Invariance *)

\* IInv holds in every reachable state.
THEOREM Invariance == Spec => []IInv
BY InitIInv, StepIInv, PTL DEF Spec

\* A content that a session has open has its config and its audio, and samples
\* of both streams, whatever ContentFileMeta::init returned for it.
THEOREM OpenComplete == Spec => []OpenHasReference
<1>1. IInv => OpenHasReference
  BY DEF IInv
<1> QED BY <1>1, Invariance, PTL

\* All loaded videos have their key frames at the multiples of the gop in rtpInfo,
\* however many reference cameras have a config of their own.
THEOREM KeysFound == Spec => []KeysWhereSessionsLook
<1>1. IInv => KeysWhereSessionsLook
  <2> SUFFICES ASSUME IInv, NEW c \in DOMAIN videoFiles, NEW v \in DOMAIN videoFiles[c],
                      NEW i \in DOMAIN videoFiles[c][v]
      PROVE  videoFiles[c][v][i].key <=> (i - 1) % gop = 0
    BY DEF KeysWhereSessionsLook
  <2>1. videoFiles[c][v] \in Seq(VideoSample) /\ KeysFit(videoFiles[c][v], gop)
    BY LoadedHas
  <2>2. i \in 1 .. Len(videoFiles[c][v])
    BY <2>1
  <2> QED BY <2>1, <2>2, Zenon DEF KeysFit
<1> QED BY <1>1, Invariance, PTL

\* Each packet of each loaded video is found exactly as long as all of its packets
\* are shorter than half the range of a size.
THEOREM VideoPacketsFound == Spec => []PacketsFound
<1>1. IInv => PacketsFound
  <2> SUFFICES ASSUME IInv, NEW c \in DOMAIN videoFiles, NEW v \in DOMAIN videoFiles[c],
                      NEW meta, meta = disk.cams[c].videos[v], Whole(meta)
      PROVE  /\ Len(videoFiles[c][v]) = Cardinality(Markers(meta, Sizes(meta)))
             /\ (\A i \in Packets(meta, Sizes(meta)) : FoundWhereItIs(videoFiles[c][v], meta, i))
                  <=> (\A i \in Packets(meta, Sizes(meta)) : Size(meta, i) < SizeLimit)
    BY DEF PacketsFound
  <2>1. c \in DOMAIN disk.cams /\ Loaded(c)
    BY DEF IInv
  <2>2. v \in DOMAIN disk.cams[c].videos /\ meta \in Seq(Bytes)
    BY <2>1, LoadedHas, OnDisk
  <2>3. PICK beyond \in Bytes :
          /\ VideoLoads(meta, getSizes(meta, beyond), gop)
          /\ videoFiles[c][v] = videoSamples(getSizes(meta, beyond), gop)
    BY <2>1, <2>2 DEF Loaded
  <2> QED BY <2>2, <2>3, VideoFileFound
<1> QED BY <1>1, Invariance, PTL

\* Each audio sample of a content with one reference camera and one audio file is
\* found exactly as long as all are short enough and begin below the limit of an int.
THEOREM AudioSamplesFound == Spec => []AudioFound
<1>1. IInv => AudioFound
  <2> SUFFICES ASSUME IInv, NEW c \in DOMAIN videoFiles, RefsLoaded = {c},
                      Cardinality(disk.cams[c].asa) = 1,
                      NEW meta, meta = CHOOSE a \in disk.cams[c].asa : TRUE, Whole(meta)
      PROVE  (\A i \in 1 .. Sizes(meta) :
                audioFile[i] = [len |-> Size(meta, i), offset |-> Place(meta, {}, i)])
             <=> \A i \in 1 .. Sizes(meta) :
                   Size(meta, i) < SizeLimit /\ Place(meta, {}, i) < OffsetLimit
    BY DEF AudioFound, RefsLoaded
  <2>1. c \in DOMAIN disk.cams /\ AudioShape
    BY DEF IInv
  <2>2. disk.cams[c].asa \subseteq Seq(Bytes) /\ IsFiniteSet(disk.cams[c].asa)
    BY <2>1, OnDisk
  <2>3. PICK a : disk.cams[c].asa = {a}
    BY <2>2, FS_Singleton
  <2>4. meta = a /\ meta \in Seq(Bytes)
    BY <2>2, <2>3
  <2>5. PICK beyond \in Bytes : audioFile = audioSamples(getSizes(meta, beyond))
    BY <2>1, <2>3, <2>4 DEF AudioShape
  <2> QED BY <2>4, <2>5, AudioFileFound
<1> QED BY <1>1, Invariance, PTL
===============================================================================
