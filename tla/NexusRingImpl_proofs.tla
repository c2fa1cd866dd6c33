------------------------ MODULE NexusRingImpl_proofs ------------------------
(***************************************************************************)
(* The proof that the capture thread implements FrameRing, for every ring  *)
(* length and with and without failing signal and DMA transfers.           *)
(***************************************************************************)
EXTENDS NexusRingImpl, NexusRing_proofs

\* What only happens if the signal may fail: no dummy frame and no recovery
\* without it.
LossOnly ==
  (~signal \/ fifoErr \/ recover
   \/ cpc \in {"wait", "dstamp", "dbegin", "dfill", "dpublish"})
    => SignalMayFail

LEMMA LossOnlyInit == RingInit => LossOnly
  BY DEF RingInit, LossOnly

LEMMA LossOnlyStep == TypeOK /\ LossOnly /\ [RingNext]_ringVars => LossOnly'
<1> SUFFICES ASSUME TypeOK, LossOnly, [RingNext]_ringVars PROVE LossOnly'
  OBVIOUS
<1>1. SignalMayFail \in BOOLEAN /\ signal \in BOOLEAN
  BY RingAssumption DEF TypeOK
<1>2. CASE Tick
  BY <1>1, <1>2 DEF Tick, LossOnly, locals
<1>3. CASE LoseSignal \/ SignalRestored \/ PollSignal
  BY <1>3 DEF LoseSignal, SignalRestored, PollSignal, LossOnly, env
<1>4. CASE WritePicture
  BY <1>4 DEF WritePicture, GetBuffer, BeginWrite, FillWrite, Recover,
              StampFrame, Publish, LossOnly, env
<1>5. CASE WriteDummyFrames
  BY <1>5 DEF WriteDummyFrames, DummyStamp, DummyBegin, DummyFill,
              DummyPublish, LossOnly, env
<1>6. CASE UNCHANGED ringVars
  BY <1>6 DEF ringVars, LossOnly
<1> QED BY <1>2, <1>3, <1>4, <1>5, <1>6 DEF RingNext, SdiMonitor

-----------------------------------------------------------------------------
(* Every step is a step of FrameRing or is not seen by a reader *)

LEMMA InitImplements == RingInit => Promise!FrameRingInit
  BY DEF RingInit, Stage, Promise!FrameRingInit, Slots, Promise!Slots, Blank,
         Promise!Unused

LEMMA StepImplements ==
  TypeOK /\ LossOnly /\ [RingNext]_ringVars
    => [Promise!FrameRingNext]_(Promise!frameRingVars)
<1> SUFFICES ASSUME TypeOK, LossOnly, [RingNext]_ringVars
             PROVE  Promise!FrameRingNext \/ UNCHANGED Promise!frameRingVars
  OBVIOUS
<1>a. Promise!NextFrame = Next1 /\ Promise!Here = Cur
  BY DEF Promise!NextFrame, Promise!Here, Promise!Slot, Next1, Cur, Slot
<1>b. Torn = Promise!Torn
  BY DEF Torn, Promise!Torn
<1>1. CASE Tick \/ LoseSignal \/ SignalRestored \/ PollSignal
           \/ UNCHANGED ringVars
  <2>1. UNCHANGED <<lastframe, stamp, owner, unready>>
    BY <1>1 DEF Tick, LoseSignal, SignalRestored, PollSignal, ringVars, shm,
                env, locals, history
  <2>2. \/ UNCHANGED cpc
        \/ cpc \in {"get", "wait"} /\ cpc' \in {"get", "wait", "dstamp"}
    BY <1>1 DEF Tick, LoseSignal, SignalRestored, PollSignal, ringVars, locals
  <2>3. UNCHANGED Stage
    BY <2>2 DEF Stage
  <2> QED BY <2>1, <2>3 DEF Promise!frameRingVars
<1>2. CASE GetBuffer
  <2>1. Stage = "idle" /\ Stage' = "cleared"
    BY <1>2 DEF GetBuffer, Stage
  <2>2. Promise!Clear
    BY <1>2, <1>a, <2>1 DEF GetBuffer, history, Promise!Clear
  <2> QED BY <2>2 DEF Promise!FrameRingNext
<1>3. CASE BeginWrite
  <2>1. Stage = "cleared" /\ Stage' = "torn"
    BY <1>3 DEF BeginWrite, Stage
  <2>2. Promise!Tear
    BY <1>3, <1>a, <1>b, <2>1 DEF BeginWrite, Promise!Tear
  <2> QED BY <2>2 DEF Promise!FrameRingNext
<1>4. CASE FillWrite
  <2>1. Stage = "torn" /\ Stage' = "filled"
    BY <1>4 DEF FillWrite, Stage
  <2>2. Promise!Fill
    BY <1>4, <1>a, <2>1 DEF FillWrite, Promise!Fill
  <2> QED BY <2>2 DEF Promise!FrameRingNext
<1>5. CASE Recover
  <2>1. Stage = "filled" /\ Stage' = "placed"
    BY <1>5 DEF Recover, Stage
  <2>2. lastframe \in Int /\ UNCHANGED <<stamp, owner>>
    BY <1>5 DEF Recover, TypeOK
  <2>3. CASE /\ recover /\ Missing \in 1 .. MaxRecover
             /\ lastframe' = lastframe + Missing
             /\ unready' = unready \cup (Next1 .. Next1 + Missing)
    <3>1. SignalMayFail /\ Missing > 0 /\ Missing \in 0 .. MaxRecover
      BY <2>3, RingAssumption DEF LossOnly
    <3>2. Promise!Place(Missing)
      BY <1>a, <2>1, <2>2, <2>3, <3>1 DEF Promise!Place
    <3> QED BY <3>1, <3>2 DEF Promise!FrameRingNext
  <2>4. CASE UNCHANGED <<lastframe, unready>>
    <3>1. 0 \in 0 .. MaxRecover
      BY RingAssumption
    <3>2. Promise!Place(0)
      BY <2>1, <2>2, <2>4 DEF Promise!Place
    <3> QED BY <3>1, <3>2 DEF Promise!FrameRingNext
  <2> QED BY <1>5, <2>3, <2>4 DEF Recover
<1>6. CASE StampFrame
  <2>1. Stage = "placed" /\ Stage' = "ready"
    BY <1>6 DEF StampFrame, Stage
  <2>2. Promise!Number
    BY <1>6, <1>a, <2>1 DEF StampFrame, history, Promise!Number
  <2> QED BY <2>2 DEF Promise!FrameRingNext
<1>7. CASE DummyStamp
  <2>1. Stage = "idle" /\ Stage' = "marked" /\ SignalMayFail
    BY <1>7 DEF DummyStamp, Stage, LossOnly
  <2>2. Promise!NumberDummy
    BY <1>7, <1>a, <2>1 DEF DummyStamp, history, Promise!NumberDummy
  <2> QED BY <2>2 DEF Promise!FrameRingNext
<1>8. CASE DummyBegin
  <2>1. Stage = "marked" /\ Stage' = "faking"
    BY <1>8 DEF DummyBegin, Stage
  <2>2. Promise!TearDummy
    BY <1>8, <1>a, <1>b, <2>1 DEF DummyBegin, Promise!TearDummy
  <2> QED BY <2>2 DEF Promise!FrameRingNext
<1>9. CASE DummyFill
  <2>1. Stage = "faking" /\ Stage' = "ready"
    BY <1>9 DEF DummyFill, Stage
  <2>2. Promise!FillDummy
    BY <1>9, <1>a, <2>1 DEF DummyFill, Promise!FillDummy
  <2> QED BY <2>2 DEF Promise!FrameRingNext
<1>10. CASE Publish \/ DummyPublish
  <2>1. Stage = "ready" /\ Stage' = "idle"
    BY <1>10 DEF Publish, DummyPublish, Stage
  <2>2. Promise!Publish
    BY <1>10, <1>a, <2>1
    DEF Publish, DummyPublish, history, Next1, Promise!Publish
  <2> QED BY <2>2 DEF Promise!FrameRingNext
<1> QED BY <1>1, <1>2, <1>3, <1>4, <1>5, <1>6, <1>7, <1>8, <1>9, <1>10
        DEF RingNext, SdiMonitor, WritePicture, WriteDummyFrames

(***************************************************************************)
(* The capture thread implements FrameRing, against which the record       *)
(* threads are modelled: whatever the card, the signal and the clock do, a *)
(* reader sees elements cleared, overwritten, numbered and published in    *)
(* that order only.                                                        *)
(***************************************************************************)
THEOREM Implements == RingSpec => ImplementsFrameRing
<1>1. RingInit => Promise!FrameRingInit /\ LossOnly
  BY InitImplements, LossOnlyInit
<1>2. TypeOK /\ LossOnly /\ [RingNext]_ringVars => LossOnly'
  BY LossOnlyStep
<1>3. TypeOK /\ LossOnly /\ [RingNext]_ringVars
        => [Promise!FrameRingNext]_(Promise!frameRingVars)
  BY StepImplements
<1> QED BY <1>1, <1>2, <1>3, TypeCorrect, PTL
        DEF RingSpec, ImplementsFrameRing, Promise!FrameRingSpec
=============================================================================
