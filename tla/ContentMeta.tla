----------------------------- MODULE ContentMeta -----------------------------
(***************************************************************************)
(* What the server learns of a content before it accepts clients           *)
(* (server/file/ContentFileMeta.cpp, server/ContentsStorage.cpp), and what  *)
(* a session takes from it (StreamHandler::setReaderAndContentTitle,        *)
(* setVideoAudioSampleMetaDataCache).  A media file ends with a table of     *)
(* 16-bit packet sizes, in which 0xFFFF stands before each video sample;     *)
(* from it come the place of every packet in the file and its key frames.   *)
(* Bytes have ByteBase values, so that a size has ByteBase * ByteBase.       *)
(***************************************************************************)
EXTENDS Integers, Sequences, SequencesExt, FiniteSetsExt

CONSTANTS
  ByteBase,    \* values of a byte (256)
  OffsetLimit, \* an int is in -OffsetLimit .. OffsetLimit - 1
  Names,       \* names of camera directories, ascending
  RefNames,    \* those that are part of "cam0-10m", which counts as reference camera
  Contents,    \* bound: what may be on disk
  Missing      \* of a number or a file: there is none

ASSUME ContentAssumption ==
  /\ ByteBase \in Nat \ {0, 1} /\ ByteBase % 2 = 0
  /\ OffsetLimit \in Nat \ {0}
  /\ Range(Names) \subseteq STRING /\ "cam0" \in RefNames /\ RefNames \subseteq STRING
  /\ DOMAIN Names \subseteq Nat
  /\ \A content \in Contents :
       /\ DOMAIN content.cams \subseteq Range(Names)
       /\ \A name \in DOMAIN content.cams :
            /\ content.cams[name].videos \in Seq(Seq(0 .. ByteBase - 1))
            /\ content.cams[name].asa \subseteq Seq(0 .. ByteBase - 1)
            /\ IsFiniteSet(content.cams[name].asa) /\ Missing \notin content.cams[name].asa

SizeLimit == (ByteBase * ByteBase) \div 2
Invalid == -1

VARIABLES
  disk,        \* the content's directory: by camera its files, and two flags
  todo,        \* camera directories that handleCamDirectories has still to load
  gop,         \* rtpInfo.kv[GOP_KEY], which stands for all of rtpInfo, or Missing
  audioFile,   \* sizes and offsets of the audio samples
  videoFiles,  \* by camera: by member video its samples
  stage,       \* "cams", "acc", "images" (what init handles next), "ready", "invalid"
               \* (init was false), "terminated" (by an exception), "closed"
  maxSampleNo, \* of a session that opened the content: by stream
  cached       \* the cameras whose front and rear lists that session has

loadVars == <<disk, todo, gop, audioFile, videoFiles, stage>>
sessionVars == <<maxSampleNo, cached>>
vars == <<loadVars, sessionVars>>

Init ==
  /\ disk \in Contents
  /\ todo = DOMAIN disk.cams
  /\ gop = Missing
  /\ audioFile = <<>>
  /\ videoFiles = [c \in {} |-> <<>>]
  /\ stage = "cams"
  /\ maxSampleNo = [s \in {} |-> 0]
  /\ cached = {}

-----------------------------------------------------------------------------
(* The table of sizes *)

\* A size is read as a signed number, and an odd table beyond its end.
Signed(n) == IF n < SizeLimit THEN n ELSE n - ByteBase * ByteBase

getSizes(meta, beyond) ==
  [i \in 1 .. (Len(meta) + 1) \div 2 |->
     Signed(ByteBase * meta[2 * i - 1] + IF 2 * i <= Len(meta) THEN meta[2 * i] ELSE beyond)]

\* An offset of an audio sample goes through an int.
ToInt(n) == ((n + OffsetLimit) % (2 * OffsetLimit)) - OffsetLimit

\* Faulty variant: the size is added before the sample is entered.
audioSamplesBehind(sizes) ==
  LET Add(acc, size) ==
        [samples |-> Append(acc.samples, [len |-> size, offset |-> ToInt(acc.offset + size)]),
         offset |-> acc.offset + size]
  IN FoldLeft(Add, [samples |-> <<>>, offset |-> 0], sizes).samples

audioSamples(sizes) ==
  LET Add(acc, size) ==
        [samples |-> Append(acc.samples, [len |-> size, offset |-> ToInt(acc.offset)]),
         offset |-> acc.offset + size]
  IN FoldLeft(Add, [samples |-> <<>>, offset |-> 0], sizes).samples

\* Faulty variant: the offset starts anew with every sample.
videoSamplesAnew(sizes, g) ==
  LET Add(acc, size) ==
        IF size = Invalid
          THEN [samples |-> Append(acc.samples,
                  [offset |-> 0, key |-> Len(acc.samples) % g = 0, size |-> 0, packets |-> <<>>]),
                offset |-> 0]
          ELSE [samples |-> [acc.samples EXCEPT
                  ![Len(acc.samples)].packets = Append(@, [len |-> size, offset |-> acc.offset]),
                  ![Len(acc.samples)].size = @ + size],
                offset |-> acc.offset + size]
  IN FoldLeft(Add, [samples |-> <<>>, offset |-> 0], sizes).samples

\* The sizes start with a marker and the group of pictures is not empty.
videoSamples(sizes, g) ==
  LET Add(acc, size) ==
        IF size = Invalid
          THEN [acc EXCEPT !.samples = Append(@,
                  [offset |-> acc.offset, key |-> Len(acc.samples) % g = 0, size |-> 0,
                   packets |-> <<>>])]
          ELSE [samples |-> [acc.samples EXCEPT
                  ![Len(acc.samples)].packets = Append(@, [len |-> size, offset |-> acc.offset]),
                  ![Len(acc.samples)].size = @ + size],
                offset |-> acc.offset + size]
  IN FoldLeft(Add, [samples |-> <<>>, offset |-> 0], sizes).samples

\* showVideoMinMaxSize and showAudioMinMaxSize take the first of a list of sizes
\* that has no zero in it, also when it is empty, which ends the process.
Shown(sizes) == \E i \in DOMAIN sizes : sizes[i] # 0

AudioLoads(meta, sizes) == Len(meta) > 0 /\ Shown(sizes)

VideoLoads(meta, sizes, g) ==
  /\ Len(meta) > 0
  /\ g # Missing /\ g # 0
  /\ sizes[1] = Invalid
  /\ LET samples == videoSamples(sizes, g)
     IN Shown([i \in DOMAIN samples |-> samples[i].size])

-----------------------------------------------------------------------------
(* init: the camera directories in the order of their names, then the rest *)

isRefCam(name) == name \in RefNames

\* Faulty variant: a reference camera may have no audio.
WellFormedSilent(name) ==
  LET dir == disk.cams[name] IN
    /\ ~dir.many
    /\ dir.videos # <<>>
    /\ (dir.asc # {}) = isRefCam(name)
    /\ dir.asa # {} => isRefCam(name)

\* Not more than ten files, videos, and a config and audio just for a reference.
WellFormed(name) ==
  LET dir == disk.cams[name] IN
    /\ ~dir.many
    /\ dir.videos # <<>>
    /\ (dir.asc # {}) = isRefCam(name)
    /\ (dir.asa # {}) = isRefCam(name)

\* Faulty variant: a later config replaces the value.
kvInsertOrAssign(config) == IF config = Missing THEN gop ELSE config

\* kv.insert leaves a key that is there as it is.
kvInsert(config) == IF gop = Missing THEN config ELSE gop

\* Of several configs or audio files the last one counts that the iteration
\* comes by; without one nothing is loaded.
LastOf(files) == IF files = {} THEN {Missing} ELSE files

loadStreamFilesInCamDirectories(name) ==
  LET videos == disk.cams[name].videos IN
  \E config \in LastOf(disk.cams[name].asc), audio \in LastOf(disk.cams[name].asa),
     beyond \in 0 .. ByteBase - 1 :
    LET audioSizes == getSizes(audio, beyond)
        Sizes(v) == getSizes(videos[v], beyond)
        loads == /\ audio # Missing => AudioLoads(audio, audioSizes)
                 /\ \A v \in DOMAIN videos :
                      VideoLoads(videos[v], Sizes(v), kvInsert(config))
    IN
    \/ /\ loads
       /\ gop' = kvInsert(config)
       /\ audioFile' = audioFile \o (IF audio = Missing THEN <<>> ELSE audioSamples(audioSizes))
       /\ videoFiles' = [c \in DOMAIN videoFiles \cup {name} |->
            IF c = name THEN [v \in DOMAIN videos |-> videoSamples(Sizes(v), gop')]
            ELSE videoFiles[c]]
       /\ todo' = todo \ {name}
       /\ UNCHANGED stage
    \/ /\ ~loads
       /\ stage' = "terminated"
       /\ UNCHANGED <<todo, gop, audioFile, videoFiles>>

\* The directories are sorted by their names.
Foremost(names) == Names[Min({i \in DOMAIN Names : Names[i] \in names})]

handleCamDirectories ==
  /\ stage = "cams"
  /\ \/ /\ todo # {} /\ WellFormed(Foremost(todo))
        /\ loadStreamFilesInCamDirectories(Foremost(todo))
     \/ /\ todo # {} /\ ~WellFormed(Foremost(todo))
        /\ stage' = "invalid"
        /\ UNCHANGED <<todo, gop, audioFile, videoFiles>>
     \/ /\ todo = {}
        /\ stage' = "acc"
        /\ UNCHANGED <<todo, gop, audioFile, videoFiles>>
  /\ UNCHANGED <<disk, sessionVars>>

handleConfigFile ==
  /\ stage = "acc"
  /\ stage' = IF disk.acc THEN "images" ELSE "invalid"
  /\ UNCHANGED <<disk, todo, gop, audioFile, videoFiles, sessionVars>>

handleV0Images ==
  /\ stage = "images"
  /\ stage' = IF disk.images THEN "ready" ELSE "invalid"
  /\ UNCHANGED <<disk, todo, gop, audioFile, videoFiles, sessionVars>>

-----------------------------------------------------------------------------
(* A session opens the content; ContentsStorage lists it whatever init returned *)

getVideoSampleSize ==
  IF "cam0" \in DOMAIN videoFiles THEN Len(videoFiles["cam0"][1])
  ELSE IF "cam0-10m" \in DOMAIN videoFiles THEN Len(videoFiles["cam0-10m"][1])
  ELSE Invalid

\* A PLAY fails with an error when a camera has no second video.
setVideoAudioSampleMetaDataCache ==
  LET cams == {"cam0", "cam1", "cam2"} \cap DOMAIN videoFiles IN
    /\ \A c \in cams : Len(videoFiles[c]) >= 2
    /\ cached' = cams

open ==
  /\ stage \in {"ready", "invalid"} /\ cached = {}
  /\ videoFiles # <<>>
  /\ getVideoSampleSize # Invalid
  /\ maxSampleNo' = [video |-> getVideoSampleSize - 1, audio |-> Len(audioFile) - 1]
  /\ setVideoAudioSampleMetaDataCache
  /\ UNCHANGED loadVars

shutdown ==
  /\ stage \in {"ready", "invalid"}
  /\ stage' = "closed"
  /\ videoFiles' = [c \in {} |-> <<>>]
  /\ UNCHANGED <<disk, todo, gop, audioFile, sessionVars>>

Next == handleCamDirectories \/ handleConfigFile \/ handleV0Images \/ open \/ shutdown

Spec == Init /\ [][Next]_vars

-----------------------------------------------------------------------------
(* Properties *)

\* The reference reading of a table: the file holds the packets one after the
\* other, each as long as its size, an unsigned number, says.
Marker == ByteBase * ByteBase - 1
Size(meta, i) == ByteBase * meta[2 * i - 1] + meta[2 * i]
Markers(meta, upTo) == {i \in 1 .. upTo : Size(meta, i) = Marker}
Packets(meta, upTo) == {i \in 1 .. upTo : Size(meta, i) # Marker}
Whole(meta) == Len(meta) % 2 = 0
Sizes(meta) == Len(meta) \div 2

\* Where the bytes of the i-th size are, if the sizes in signs have no bytes.
Place(meta, signs, i) ==
  LET After[n \in 0 .. Sizes(meta)] ==
        IF n = 0 THEN 0
        ELSE After[n - 1] + IF Size(meta, n) \in signs THEN 0 ELSE Size(meta, n)
  IN After[i - 1]

FoundWhereItIs(samples, meta, i) ==
  LET first == Max(Markers(meta, i)) IN
    samples[Cardinality(Markers(meta, i))].packets[i - first]
      = [len |-> Size(meta, i), offset |-> Place(meta, {Marker}, i)]

\* Every packet of a video is found where it is in the file exactly as long as
\* all packets are shorter than 2^15 bytes, though a size has 16 bits; one longer
\* packet and its sample, or those behind it, are read from elsewhere.
PacketsFound ==
  \A c \in DOMAIN videoFiles : \A v \in DOMAIN videoFiles[c] :
    LET meta == disk.cams[c].videos[v]
        packets == Packets(meta, Sizes(meta)) IN
      Whole(meta) =>
        /\ Len(videoFiles[c][v]) = Cardinality(Markers(meta, Sizes(meta)))
        /\ (\A i \in packets : FoundWhereItIs(videoFiles[c][v], meta, i))
             <=> (\A i \in packets : Size(meta, i) < SizeLimit)

\* The same of the audio samples of a content with one reference camera: they are
\* found exactly as long as each is shorter than 2^15 bytes and no one starts
\* 2^31 bytes or more into the file, though the offsets are 64 bits wide.  (With
\* two reference cameras the samples of the second file follow those of the first.)
AudioFound ==
  \A c \in DOMAIN videoFiles :
    isRefCam(c) /\ {d \in DOMAIN videoFiles : isRefCam(d)} = {c} /\ Cardinality(disk.cams[c].asa) = 1 =>
      LET meta == CHOOSE a \in disk.cams[c].asa : TRUE
          Before(i) == Place(meta, {}, i) IN
        Whole(meta) =>
          ((\A i \in 1 .. Sizes(meta) :
              audioFile[i] = [len |-> Size(meta, i), offset |-> Before(i)])
           <=> \A i \in 1 .. Sizes(meta) : Size(meta, i) < SizeLimit /\ Before(i) < OffsetLimit)

\* All cameras and members have their key frames where the sessions, which compute
\* with the gop of rtpInfo, look for them (StreamHandler::findKeySampleNumber),
\* even when several reference cameras have a config of their own.
KeysWhereSessionsLook ==
  \A c \in DOMAIN videoFiles : \A v \in DOMAIN videoFiles[c] :
    \A i \in DOMAIN videoFiles[c][v] :
      videoFiles[c][v][i].key <=> (i - 1) % gop = 0

\* ContentsStorage lists a content also when init was false, and sessions open it;
\* but what opens always has the config and the audio that came before its videos.
OpenHasReference ==
  cached # {} =>
    /\ gop # Missing /\ gop # 0
    /\ audioFile # <<>>
    /\ maxSampleNo["video"] >= 0 /\ maxSampleNo["audio"] >= 0
=============================================================================
