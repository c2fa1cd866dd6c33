--------------------------- MODULE MCRecordThread ---------------------------
(***************************************************************************)
(* RecordThread for TLC.  The threads of the MtEncoder are alike, so runs  *)
(* without liveness properties may take Symmetry.                          *)
(***************************************************************************)
EXTENDS RecordThread, TLC

Symmetry == Permutations(Workers)

With(e, b) == [encoder |-> e, bitc |-> b]
AtOnce == -1 .. 1
Soon == -1 .. 2
AllKinds == {With("mt", FALSE), With("inline", FALSE), With("raw", TRUE)}
=============================================================================
