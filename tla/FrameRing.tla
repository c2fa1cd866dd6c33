----------------------------- MODULE FrameRing -----------------------------
(***************************************************************************)
(* What a reader of the shared memory sees of one capture channel: the     *)
(* order in which the capture daemon clears, overwrites, completes, numbers*)
(* and publishes the elements of the ring.  Signal, card, fifo, timecode   *)
(* and clock are gone.  The recorder's threads are modelled against this   *)
(* module, and NexusRing, the capture thread, implements it.               *)
(*                                                                         *)
(* The data of an element is named by the frame it is the picture of.      *)
(***************************************************************************)
EXTENDS Integers

CONSTANTS
  RingLen,        \* ringlen
  SignalMayFail,  \* whether there may be dummy frames and recoveries
  DmaMayFail,     \* whether a frame may be published with a stale picture
  MaxSkip         \* most frames skipped by a recovery from a loss of signal

ASSUME FrameRingAssumption ==
  /\ RingLen \in Nat /\ RingLen >= 2 /\ MaxSkip \in Nat
  /\ SignalMayFail \in BOOLEAN /\ DmaMayFail \in BOOLEAN

Unused == -1  \* an element never written
Torn   == -2  \* data in the middle of being overwritten

VARIABLES
  last,   \* pc->lastframe
  stamp,  \* frame_number of each element
  data,   \* the frame for which each element was last filled
  stage,  \* progress of the element being filled
  unready \* history: frames published without their own picture

frameRingVars == <<last, stamp, data, stage, unready>>

Slots == 0 .. RingLen - 1
Slot(frame) == frame % RingLen
NextFrame == last + 1
Here == Slot(NextFrame)

FrameRingInit ==
  /\ last = -1
  /\ stamp = [s \in Slots |-> 0]
  /\ data = [s \in Slots |-> Unused]
  /\ stage = "idle"
  /\ unready = {}

\* A picture: the number is cleared first and written last.
Clear ==
  /\ stage = "idle" /\ stage' = "cleared"
  /\ stamp' = [stamp EXCEPT ![Here] = 0]
  /\ UNCHANGED <<last, data, unready>>

\* overwrite the element, with another picture if the transfer failed
Tear ==
  /\ stage = "cleared" /\ stage' = "torn"
  /\ data' = [data EXCEPT ![Here] = Torn]
  /\ \/ UNCHANGED unready
     \/ DmaMayFail /\ unready' = unready \cup {NextFrame}
  /\ UNCHANGED <<last, stamp>>

Fill ==
  /\ stage = "torn" /\ stage' = "filled"
  /\ data' = [data EXCEPT ![Here] = NextFrame]
  /\ UNCHANGED <<last, stamp, unready>>

\* recovery from a loss of signal publishes n frames at once, and what was
\* filled in is then not in the place of the frame that comes next
Place(n) ==
  /\ stage = "filled" /\ stage' = "placed"
  /\ n > 0 => SignalMayFail
  /\ last' = last + n
  /\ unready' = IF n > 0 THEN unready \cup (NextFrame .. NextFrame + n)
                ELSE unready
  /\ UNCHANGED <<stamp, data>>

Number ==
  /\ stage = "placed" /\ stage' = "ready"
  /\ stamp' = [stamp EXCEPT ![Here] = NextFrame]
  /\ UNCHANGED <<last, data, unready>>

\* A dummy frame: the number is written first.
NumberDummy ==
  /\ stage = "idle" /\ stage' = "marked"
  /\ SignalMayFail
  /\ stamp' = [stamp EXCEPT ![Here] = NextFrame]
  /\ UNCHANGED <<last, data, unready>>

TearDummy ==
  /\ stage = "marked" /\ stage' = "faking"
  /\ data' = [data EXCEPT ![Here] = Torn]
  /\ UNCHANGED <<last, stamp, unready>>

FillDummy ==
  /\ stage = "faking" /\ stage' = "ready"
  /\ data' = [data EXCEPT ![Here] = NextFrame]
  /\ UNCHANGED <<last, stamp, unready>>

Publish ==
  /\ stage = "ready" /\ stage' = "idle"
  /\ last' = NextFrame
  /\ UNCHANGED <<stamp, data, unready>>

FrameRingNext ==
  \/ Clear \/ Tear \/ Fill \/ Number \/ Publish
  \/ \E n \in 0 .. MaxSkip : Place(n)
  \/ NumberDummy \/ TearDummy \/ FillDummy

FrameRingSpec == FrameRingInit /\ [][FrameRingNext]_frameRingVars
=============================================================================
