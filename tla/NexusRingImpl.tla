--------------------------- MODULE NexusRingImpl ---------------------------
(***************************************************************************)
(* The capture thread implements what its readers assume of the ring.      *)
(***************************************************************************)
EXTENDS NexusRing

\* The stage of the element being filled, from where the thread is.
Stage ==
  CASE cpc \in {"get", "wait", "dstamp"} -> "idle"
    [] cpc = "begin"   -> "cleared"
    [] cpc = "fill"    -> "torn"
    [] cpc = "recover" -> "filled"
    [] cpc = "stamp"   -> "placed"
    [] cpc = "dbegin"  -> "marked"
    [] cpc = "dfill"   -> "faking"
    [] cpc \in {"publish", "dpublish"} -> "ready"

Promise == INSTANCE FrameRing
             WITH MaxSkip <- MaxRecover, last <- lastframe, data <- owner,
                  stage <- Stage

(***************************************************************************)
(* Whatever the capture thread does with the card and the clock, a reader  *)
(* of the shared memory only ever sees elements cleared, overwritten,      *)
(* numbered and published in the order of FrameRing.                       *)
(***************************************************************************)
ImplementsFrameRing == Promise!FrameRingSpec
=============================================================================
