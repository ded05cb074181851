---------------------------- MODULE MCStreamCursor ----------------------------
(* A short content for TLC: four video samples, a key frame the first and the   *)
(* last of them, and one audio sample, the play time of each stream the sum of   *)
(* its samples.  The client names a negative number, one of a video sample, and  *)
(* one behind both lists.                                                        *)
EXTENDS StreamCursor

MCUnit == [video |-> 2, audio |-> 3]
MCSamples == [video |-> 4, audio |-> 1]
MCPlayTime == [video |-> 8, audio |-> 3]
MCUnset == -1
MCTimes == {MCUnset, 0, 1, 7}
MCIndices == {-3, 1, 8}
=============================================================================
