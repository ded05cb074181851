---------------------------- MODULE MCContentMeta ----------------------------
(* Bytes of two bits: sizes up to 14, of which those from 8 on are negative, and  *)
(* the marker 15.  One content for each table of a video, each table of an audio    *)
(* file, and each arrangement of three cameras over a few files.                    *)
EXTENDS ContentMeta

MCNames == <<"cam0", "cam0-10m", "cam1">>
MCRefNames == {"cam0", "cam0-10m"}

Word(n) == <<n \div ByteBase, n % ByteBase>>
Words(ns) == FoldLeft(LAMBDA acc, n : acc \o Word(n), <<>>, ns)

\* Tables of up to five sizes, and odd ones.
VideoTables ==
  LET whole == {Words(<<15>> \o ns) : ns \in UNION {[1 .. k -> {15, 1, 3, 9}] : k \in 0 .. 4}}
               \cup {Words(<<1, 15, 1>>), <<>>} IN
    whole \cup {Append(w, 0) : w \in {x \in whole : Len(x) \in {4, 6}}}

AudioTables ==
  LET whole == {Words(ns) : ns \in UNION {[1 .. k -> {0, 3, 5, 9}] : k \in 0 .. 3}} IN
    whole \cup {Append(w, 0) : w \in {x \in whole : Len(x) = 4}}

Dir(asc, asa, videos, many) ==
  [asc |-> asc, asa |-> asa, videos |-> videos, many |-> many]

\* Front and rear video of five samples.
FrontVideo == Words(<<15, 3, 1, 15, 1, 15, 2, 15, 1, 15, 1>>)
RearVideo == Words(<<15, 1, 15, 1, 15, 1, 15, 1, 15, 1>>)
AudioTrack == Words(<<3, 0, 2>>)

Complete(cams) == [cams |-> cams, acc |-> TRUE, images |-> TRUE]

OneVideo ==
  {Complete([c \in {"cam0"} |-> Dir({2}, {AudioTrack}, <<v, RearVideo>>, FALSE)]) : v \in VideoTables}
OneAudio ==
  {Complete([c \in {"cam0"} |-> Dir({2}, {a}, <<FrontVideo, RearVideo>>, FALSE)]) : a \in AudioTables}

RefDirs ==
  {Dir(asc, asa, videos, FALSE) :
     asc \in {{}, {2}, {0}, {Missing}, {2, 3}}, asa \in {{}, {AudioTrack}, {AudioTrack, Words(<<1>>)}},
     videos \in {<<>>, <<FrontVideo>>, <<FrontVideo, RearVideo>>}}
OtherDirs ==
  {Dir(asc, asa, <<FrontVideo, RearVideo>>, many) :
     asc \in {{}, {2}}, asa \in {{}, {AudioTrack}}, many \in BOOLEAN}
  \cup {Dir({}, {}, videos, FALSE) : videos \in {<<>>, <<FrontVideo>>}}

Arrangements ==
  [cams : {[c \in {"cam0", "cam1"} |-> IF c = "cam0" THEN r ELSE o] : r \in RefDirs, o \in OtherDirs}
          \cup {[c \in {"cam0"} |-> o] : o \in OtherDirs}
          \cup {[c \in {"cam0-10m", "cam1"} |-> IF c = "cam1" THEN o ELSE
                   Dir({2}, {AudioTrack}, <<FrontVideo, RearVideo>>, FALSE)] : o \in OtherDirs}
          \cup {[c \in {"cam0", "cam0-10m"} |-> IF c = "cam0" THEN
                   Dir({2}, {AudioTrack}, <<FrontVideo, RearVideo>>, FALSE) ELSE r] :
                   r \in {x \in RefDirs \cup {Dir({3}, {AudioTrack}, <<FrontVideo, RearVideo>>, FALSE)} :
                            Missing \notin x.asc /\ 0 \notin x.asc}},
   acc : BOOLEAN, images : BOOLEAN]

MCContents == OneVideo \cup OneAudio \cup Arrangements
=============================================================================
