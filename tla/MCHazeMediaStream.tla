------------------------- MODULE MCHazeMediaStream -------------------------
(***************************************************************************)
(* Two streams one after the other, so that the second is added before or  *)
(* after the client is ready for the call; the streams of a call share no  *)
(* state, apart from the test that all of them have codecs.                *)
(***************************************************************************)
EXTENDS HazeMediaStream, TLC

CONSTANTS opus, h264, c

MCCodecs == {opus, h264}
MCCandidates == {c}
MCSymmetry == Permutations(MCCodecs)
=============================================================================
