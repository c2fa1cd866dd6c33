------------------------- MODULE MCRecorderControl -------------------------
(* Instances of RecorderControl for TLC.  Channels are alike.              *)
EXTENDS RecorderControl, TLC

Symmetry == Permutations(Channels)

\* start now, with a frame of pre-roll, or when the next frame comes
Around == {-1, 0, 1}
=============================================================================
