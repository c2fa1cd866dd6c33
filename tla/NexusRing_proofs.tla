-------------------------- MODULE NexusRing_proofs --------------------------
(***************************************************************************)
(* Proofs about NexusRing, for every ring length, fifo depth and clock     *)
(* bound, with and without losses of signal and failing DMA transfers.     *)
(***************************************************************************)
EXTENDS NexusRing, RingPlaces, TLAPS

-----------------------------------------------------------------------------
(* Slot arithmetic *)

\* Every frame number has an element.
LEMMA SlotInRing == ASSUME NEW f \in Int PROVE Slot(f) \in Slots
  BY RingAssumption DEF Slot, Slots

\* The element being filled is not the element of a readable frame.
LEMMA ReadableNotCur ==
  ASSUME lastframe \in Int, NEW f \in Readable
  PROVE  f \in Int /\ Slot(f) \in Slots /\ Slot(f) # Cur /\ Cur \in Slots
<1>1. f \in Int /\ f < Next1 /\ Next1 < f + RingLen /\ Next1 \in Int
  BY RingAssumption DEF Readable, Next1
<1>2. RingLen \in Nat \ {0}
  BY RingAssumption
<1>3. f % RingLen # Next1 % RingLen
  BY <1>1, <1>2, ModDistinct
<1>4. Slot(f) \in Slots /\ Slot(Next1) \in Slots
  BY <1>1, SlotInRing
<1> QED BY <1>1, <1>3, <1>4 DEF Slot, Cur

-----------------------------------------------------------------------------
(* Type correctness *)

LEMMA TypeInit == RingInit => TypeOK
<1> SUFFICES ASSUME RingInit PROVE TypeOK
  OBVIOUS
<1>1. 0 \in Periods
  BY RingAssumption DEF Periods
<1>2. /\ stamp \in [Slots -> Nat] /\ tc \in [Slots -> Nat]
      /\ ok \in [Slots -> BOOLEAN]
      /\ video \in [Slots -> Periods \cup {Blank, Torn, NoVideo}]
      /\ owner \in [Slots -> Nat \cup {Blank, Torn}]
  BY DEF RingInit
<1>3. /\ poll \in [tick : Nat, num : Nat, i : Nat]
      /\ lost \in [tick : Nat \cup {-1}, frame : Nat]
  BY DEF RingInit, NoPoll, NoLoss
<1>4. /\ now \in Periods /\ taken \in Periods /\ grab \in Periods
      /\ signal \in BOOLEAN /\ fifoErr \in BOOLEAN /\ recover \in BOOLEAN
  BY <1>1 DEF RingInit
<1>5. /\ dropped \in Nat /\ hwdrop \in Nat /\ good \in Nat
      /\ dma \in Periods \cup {Blank} /\ lastframe \in Nat \cup {-1}
      /\ tickLast \in Int /\ unready \in SUBSET Nat /\ cpc = "get"
  BY DEF RingInit
<1> QED BY <1>2, <1>3, <1>4, <1>5 DEF TypeOK

\* The picture taken from the fifo is one of those delivered so far.
LEMMA PictureType ==
  ASSUME TypeOK, taken < now
  PROVE  Picture \in Periods /\ Picture > taken /\ Picture <= now
  BY RingAssumption DEF TypeOK, Picture, Periods

LEMMA TypeStep == TypeOK /\ [RingNext]_ringVars => TypeOK'
<1> SUFFICES ASSUME TypeOK, [RingNext]_ringVars PROVE TypeOK'
  OBVIOUS
<1> USE RingAssumption
<1>0. Next1 \in Nat /\ Cur \in Slots
  BY SlotInRing DEF TypeOK, Next1, Cur
<1>1. CASE Tick
  <2>1. now' \in Periods
    BY <1>1 DEF Tick, TypeOK, Periods
  <2>2. signal' \in BOOLEAN /\ fifoErr' \in BOOLEAN
    BY <1>1 DEF Tick, TypeOK
  <2>3. UNCHANGED <<taken, dropped, shm, locals, history>>
    BY <1>1 DEF Tick
  <2> QED BY <2>1, <2>2, <2>3 DEF shm, locals, history, TypeOK
<1>2. CASE GetBuffer
  <2>1. Picture \in Periods /\ Picture > taken
    BY <1>2, PictureType DEF GetBuffer
  <2>2. dropped' \in Nat
    BY <1>2, <2>1 DEF GetBuffer, TypeOK, Periods
  <2>3. stamp' \in [Slots -> Nat]
    BY <1>2 DEF GetBuffer, TypeOK
  <2> QED BY <1>2, <2>1, <2>2, <2>3 DEF GetBuffer, TypeOK, history
<1>3. CASE LoseSignal
  <2>1. lost' \in [tick : Nat \cup {-1}, frame : Nat]
    BY <1>3, <1>0 DEF LoseSignal, TypeOK, Periods
  <2>2. /\ UNCHANGED <<env, shm, dma, grab, recover, poll, owner, unready>>
        /\ good' = 0 /\ tickLast' = -1 /\ cpc' = "wait"
    BY <1>3 DEF LoseSignal
  <2> QED BY <2>1, <2>2 DEF env, shm, TypeOK
<1>4. CASE BeginWrite
  <2>1. video' \in [Slots -> Periods \cup {Blank, Torn, NoVideo}]
    BY <1>4 DEF BeginWrite, TypeOK
  <2>2. unready' \in SUBSET Nat
    BY <1>4, <1>0 DEF BeginWrite, TypeOK
  <2>3. dma' \in Periods \cup {Blank} /\ fifoErr' \in BOOLEAN
        /\ taken' \in Periods
    BY <1>4 DEF BeginWrite, TypeOK
  <2>4. owner' \in [Slots -> Nat \cup {Blank, Torn}]
    BY <1>4 DEF BeginWrite, TypeOK
  <2>5. UNCHANGED <<now, signal, dropped, lastframe, hwdrop, stamp, tc, ok,
                    grab, recover, good, tickLast, poll, lost>>
        /\ cpc' = "fill"
    BY <1>4 DEF BeginWrite
  <2> QED BY <2>1, <2>2, <2>3, <2>4, <2>5 DEF TypeOK
<1>5. CASE FillWrite
  <2>1. video' \in [Slots -> Periods \cup {Blank, Torn, NoVideo}]
    BY <1>5 DEF FillWrite, TypeOK
  <2>2. owner' \in [Slots -> Nat \cup {Blank, Torn}]
    BY <1>5, <1>0 DEF FillWrite, TypeOK
  <2>3. UNCHANGED <<env, lastframe, hwdrop, stamp, tc, ok, dma, grab, recover,
                    good, tickLast, poll, unready, lost>> /\ cpc' = "recover"
    BY <1>5 DEF FillWrite
  <2> QED BY <2>1, <2>2, <2>3 DEF TypeOK, env
<1>6. CASE Recover
  <2>1. lastframe' \in Nat \cup {-1} /\ unready' \in SUBSET Nat
    <3>1. CASE lastframe > -1 /\ recover /\ Missing \in 1 .. MaxRecover
      <4>1. /\ lastframe' = lastframe + Missing
            /\ unready' = unready \cup (Next1 .. Next1 + Missing)
        BY <1>6, <3>1 DEF Recover
      <4>2. lastframe \in Nat \cup {-1} /\ unready \in SUBSET Nat
            /\ Missing \in Nat
        BY <3>1 DEF TypeOK
      <4> QED BY <4>1, <4>2, <1>0
    <3>2. CASE ~(lastframe > -1 /\ recover /\ Missing \in 1 .. MaxRecover)
      BY <1>6, <3>2 DEF Recover, TypeOK
    <3> QED BY <3>1, <3>2
  <2>2. UNCHANGED <<env, hwdrop, stamp, tc, ok, video, dma, grab, recover,
                    good, tickLast, poll, owner, lost>> /\ cpc' = "stamp"
    BY <1>6 DEF Recover
  <2> QED BY <2>1, <2>2 DEF TypeOK, env
<1>7. CASE StampFrame
  <2>1. tc' \in [Slots -> Nat] /\ ok' \in [Slots -> BOOLEAN]
    <3>1. grab \in Nat
      BY DEF TypeOK, Periods
    <3> QED BY <1>7, <3>1 DEF StampFrame, TypeOK
  <2>2. stamp' \in [Slots -> Nat]
    BY <1>7, <1>0 DEF StampFrame, TypeOK
  <2> QED BY <1>7, <2>1, <2>2 DEF StampFrame, TypeOK, env, history
<1>8. CASE Publish
  <2>1. lastframe' \in Nat \cup {-1} /\ hwdrop' \in Nat
    BY <1>8 DEF Publish, TypeOK
  <2>2. UNCHANGED <<env, stamp, tc, ok, video, dma, grab, good, tickLast, poll,
                    history>> /\ cpc' = "get" /\ recover' = FALSE
    BY <1>8 DEF Publish
  <2> QED BY <2>1, <2>2 DEF env, history, TypeOK
<1>9. CASE SignalRestored
  BY <1>9 DEF SignalRestored, shm, history, TypeOK
<1>10. CASE PollSignal
  <2>1. DummiesDue \in Int
    BY DEF TypeOK, DummiesDue, Periods
  <2>2. good' \in Nat
    BY <1>10 DEF PollSignal, TypeOK
  <2>3. /\ poll' \in [tick : Nat, num : Nat, i : Nat]
        /\ cpc' \in {"wait", "dstamp"}
    BY <1>10, <2>1 DEF PollSignal, TypeOK, Periods
  <2> QED BY <1>10, <2>2, <2>3 DEF PollSignal, TypeOK, env, shm, history
<1>11. CASE DummyStamp
  <2>1. stamp' \in [Slots -> Nat]
    BY <1>11, <1>0 DEF DummyStamp, TypeOK
  <2> QED BY <1>11, <2>1 DEF DummyStamp, TypeOK, env, history
<1>12. CASE DummyBegin
  <2>1. video' \in [Slots -> Periods \cup {Blank, Torn, NoVideo}]
    BY <1>12 DEF DummyBegin, TypeOK
  <2>2. owner' \in [Slots -> Nat \cup {Blank, Torn}]
    BY <1>12 DEF DummyBegin, TypeOK
  <2>3. UNCHANGED <<env, lastframe, hwdrop, stamp, tc, ok, dma, grab, recover,
                    good, tickLast, poll, unready, lost>> /\ cpc' = "dfill"
    BY <1>12 DEF DummyBegin
  <2> QED BY <2>1, <2>2, <2>3 DEF TypeOK, env
<1>13. CASE DummyFill
  <2>1. video' \in [Slots -> Periods \cup {Blank, Torn, NoVideo}]
    BY <1>13 DEF DummyFill, TypeOK
  <2>2. poll.tick + poll.i \in Nat
    BY DEF TypeOK
  <2>3. tc' = [tc EXCEPT ![Cur] = poll.tick + poll.i]
        /\ ok' = [ok EXCEPT ![Cur] = FALSE]
    BY <1>13 DEF DummyFill
  <2>4. tc' \in [Slots -> Nat] /\ ok' \in [Slots -> BOOLEAN]
    BY <2>2, <2>3 DEF TypeOK
  <2>5. UNCHANGED <<env, lastframe, hwdrop, stamp, dma, grab, recover, good,
                    tickLast, poll, unready, lost>> /\ cpc' = "dpublish"
    BY <1>13 DEF DummyFill
  <2>6. owner' \in [Slots -> Nat \cup {Blank, Torn}]
    BY <1>13, <1>0 DEF DummyFill, TypeOK
  <2> QED BY <2>1, <2>4, <2>5, <2>6 DEF TypeOK, env
<1>14. CASE DummyPublish
  <2>1. poll' \in [tick : Nat, num : Nat, i : Nat]
        /\ cpc' \in {"wait", "dstamp"}
    <3>1. CASE poll.i + 1 < poll.num
      BY <1>14, <3>1 DEF DummyPublish, TypeOK
    <3>2. CASE ~(poll.i + 1 < poll.num)
      BY <1>14, <3>2 DEF DummyPublish, NoPoll
    <3> QED BY <3>1, <3>2
  <2>2. tickLast' \in Int /\ lastframe' \in Nat \cup {-1}
    BY <1>14 DEF DummyPublish, TypeOK
  <2>3. UNCHANGED <<env, hwdrop, stamp, tc, ok, video, dma, grab, recover,
                    good, history>>
    BY <1>14 DEF DummyPublish
  <2> QED BY <2>1, <2>2, <2>3 DEF TypeOK, env, history
<1>15. CASE UNCHANGED ringVars
  BY <1>15 DEF ringVars, TypeOK
<1> QED
  BY <1>1, <1>2, <1>3, <1>4, <1>5, <1>6, <1>7, <1>8, <1>9, <1>10, <1>11,
     <1>12, <1>13, <1>14, <1>15
     DEF RingNext, SdiMonitor, WritePicture, WriteDummyFrames

\* The state of the capture thread and of the ring always has its type.
THEOREM TypeCorrect == RingSpec => []TypeOK
  BY TypeInit, TypeStep, PTL DEF RingSpec
-----------------------------------------------------------------------------
(* A step writes to the ring or moves lastframe, never both *)

\* Of the ring only the element being filled changes.
OnlyCur ==
  /\ lastframe' = lastframe
  /\ \A s \in Slots \ {Cur} : /\ stamp'[s] = stamp[s] /\ tc'[s] = tc[s]
                              /\ ok'[s] = ok[s] /\ video'[s] = video[s]

\* The actions that store into the ring.
Store == GetBuffer \/ BeginWrite \/ FillWrite \/ StampFrame
         \/ DummyStamp \/ DummyBegin \/ DummyFill

LEMMA StoreOnlyCur == ASSUME TypeOK, Store PROVE OnlyCur
<1>1. CASE GetBuffer
  BY <1>1 DEF GetBuffer, OnlyCur, TypeOK
<1>2. CASE BeginWrite
  BY <1>2 DEF BeginWrite, OnlyCur, TypeOK
<1>3. CASE FillWrite
  BY <1>3 DEF FillWrite, OnlyCur, TypeOK
<1>4. CASE StampFrame
  BY <1>4 DEF StampFrame, OnlyCur, TypeOK
<1>5. CASE DummyStamp
  BY <1>5 DEF DummyStamp, OnlyCur, TypeOK
<1>6. CASE DummyBegin
  BY <1>6 DEF DummyBegin, OnlyCur, TypeOK
<1>7. CASE DummyFill
  <2>1. \A x : \A s \in Slots \ {Cur} : [tc EXCEPT ![Cur] = x][s] = tc[s]
    BY DEF TypeOK
  <2>2. \A s \in Slots \ {Cur} : tc'[s] = tc[s]
    BY <1>7, <2>1 DEF DummyFill
  <2>3. \A s \in Slots \ {Cur} : ok'[s] = ok[s] /\ video'[s] = video[s]
    BY <1>7 DEF DummyFill, TypeOK
  <2>4. lastframe' = lastframe /\ stamp' = stamp
    BY <1>7 DEF DummyFill
  <2> QED BY <2>2, <2>3, <2>4 DEF OnlyCur
<1> QED BY <1>1, <1>2, <1>3, <1>4, <1>5, <1>6, <1>7 DEF Store

\* Readable frames are the same after such a step, data included.
LEMMA OnlyCurReadable ==
  ASSUME TypeOK, OnlyCur
  PROVE  /\ Readable' = Readable
         /\ \A f \in Readable :
              /\ stamp'[Slot(f)] = stamp[Slot(f)]
              /\ tc'[Slot(f)] = tc[Slot(f)]
              /\ ok'[Slot(f)] = ok[Slot(f)]
              /\ video'[Slot(f)] = video[Slot(f)]
<1>1. Readable' = Readable
  BY DEF OnlyCur, Readable, Next1
<1>2. lastframe \in Int
  BY DEF TypeOK
<1>3. \A f \in Readable : Slot(f) \in Slots \ {Cur}
  BY <1>2, ReadableNotCur
<1> QED BY <1>1, <1>3 DEF OnlyCur

LEMMA OnlyCurReady ==
  ASSUME TypeOK, ReadyUnlessExcused, OnlyCur, unready \subseteq unready'
  PROVE  ReadyUnlessExcused'
<1> SUFFICES ASSUME NEW f \in (Readable \ unready)' PROVE Complete(f)'
  BY DEF ReadyUnlessExcused
<1>1. f \in Readable \ unready
  BY OnlyCurReadable
<1>2. Complete(f)
  BY <1>1 DEF ReadyUnlessExcused
<1>3. Slot(f)' = Slot(f)
  BY DEF Slot
<1> QED BY <1>1, <1>2, <1>3, OnlyCurReadable DEF Complete

\* The other actions leave the elements alone.
LEMMA OtherwiseSame ==
  ASSUME [RingNext]_ringVars, ~Store
  PROVE  UNCHANGED <<stamp, tc, ok, video>>
<1>1. CASE Tick
  BY <1>1 DEF Tick, shm
<1>2. CASE Recover
  BY <1>2 DEF Recover
<1>3. CASE Publish
  BY <1>3 DEF Publish
<1>4. CASE LoseSignal
  BY <1>4 DEF LoseSignal, shm
<1>5. CASE SignalRestored
  BY <1>5 DEF SignalRestored, shm
<1>6. CASE PollSignal
  BY <1>6 DEF PollSignal, shm
<1>7. CASE DummyPublish
  BY <1>7 DEF DummyPublish
<1>8. CASE UNCHANGED ringVars
  BY <1>8 DEF ringVars
<1> QED BY <1>1, <1>2, <1>3, <1>4, <1>5, <1>6, <1>7, <1>8
        DEF Store, RingNext, SdiMonitor, WritePicture, WriteDummyFrames

\* No step of the capture thread touches a frame a reader may be reading.
THEOREM Stable == RingSpec => ReadableIsStable
<1>1. TypeOK /\ [RingNext]_ringVars
        => [\A f \in Readable \cap Readable' :
              /\ stamp'[Slot(f)] = stamp[Slot(f)]
              /\ tc'[Slot(f)] = tc[Slot(f)]
              /\ ok'[Slot(f)] = ok[Slot(f)]
              /\ video'[Slot(f)] = video[Slot(f)]]_ringVars
  <2>1. CASE TypeOK /\ Store
    BY <2>1, StoreOnlyCur, OnlyCurReadable
  <2>2. CASE [RingNext]_ringVars /\ ~Store
    BY <2>2, OtherwiseSame
  <2> QED BY <2>1, <2>2
<1> QED BY <1>1, TypeCorrect, PTL DEF RingSpec, ReadableIsStable

-----------------------------------------------------------------------------
(* Every published frame is complete, but for the excepted ones *)

\* The frame being filled joins the readable ones when it is published.
LEMMA PublishReady ==
  ASSUME TypeOK, ReadyUnlessExcused, lastframe' = lastframe + 1,
         Next1 \in unready \/ Complete(Next1),
         UNCHANGED <<stamp, tc, ok, video, unready>>
  PROVE  ReadyUnlessExcused'
<1> SUFFICES ASSUME NEW f \in (Readable \ unready)' PROVE Complete(f)'
  BY DEF ReadyUnlessExcused
<1>1. f \notin unready /\ (f = Next1 \/ f \in Readable)
  BY RingAssumption DEF Readable, Next1, TypeOK
<1>2. Complete(f)
  BY <1>1 DEF ReadyUnlessExcused
<1>3. Slot(f)' = Slot(f)
  BY DEF Slot
<1> QED BY <1>2, <1>3 DEF Complete

LEMMA RingInvInit == RingInit => RingInv
<1> SUFFICES ASSUME RingInit PROVE RingInv
  OBVIOUS
<1>1. Readable = {}
  BY DEF RingInit, Readable
<1>2. Filling
  BY DEF RingInit, Filling
<1> QED BY <1>1, <1>2, TypeInit DEF RingInv, ReadyUnlessExcused

LEMMA RingInvStep == RingInv /\ [RingNext]_ringVars => RingInv'
<1> SUFFICES ASSUME RingInv, [RingNext]_ringVars
             PROVE  ReadyUnlessExcused' /\ Filling'
  BY TypeStep DEF RingInv
<1>0. TypeOK /\ ReadyUnlessExcused /\ Filling
  BY DEF RingInv
<1>a. Next1 \in Nat /\ Cur \in Slots
  BY <1>0, SlotInRing DEF TypeOK, Next1, Cur
<1>b. Cur = Slot(Next1)
  BY DEF Cur
<1>1. CASE Tick \/ LoseSignal \/ SignalRestored \/ PollSignal
           \/ UNCHANGED ringVars
  <2>1. UNCHANGED <<lastframe, stamp, tc, ok, video, unready, dma, grab>>
    BY <1>1 DEF Tick, LoseSignal, SignalRestored, PollSignal, ringVars, shm,
                env, locals, history
  <2>2. cpc' = cpc \/ cpc' \in {"wait", "get", "dstamp"}
    BY <1>1 DEF Tick, LoseSignal, SignalRestored, PollSignal, ringVars, locals
  <2>3. UNCHANGED <<Next1, Cur, Complete(Next1)>>
    BY <2>1 DEF Next1, Cur, Slot, Complete
  <2>4. ReadyUnlessExcused'
    BY <1>0, <2>1 DEF ReadyUnlessExcused, Readable, Next1, Complete, Slot
  <2> QED BY <1>0, <2>1, <2>2, <2>3, <2>4 DEF Filling
<1>2. CASE Store
  <2>1. lastframe' = lastframe /\ unready \subseteq unready'
    BY <1>2 DEF Store, GetBuffer, BeginWrite, FillWrite, StampFrame,
                DummyStamp, DummyBegin, DummyFill, history
  <2>2. ReadyUnlessExcused'
    BY <1>0, <1>2, <2>1, StoreOnlyCur, OnlyCurReady
  <2>3. Next1' = Next1 /\ Cur' = Cur
    BY <2>1 DEF Next1, Cur, Slot
  <2>4. CASE GetBuffer
    BY <2>2, <2>4 DEF GetBuffer, Filling
  <2>5. CASE BeginWrite
    BY <2>2, <2>5, <2>3 DEF BeginWrite, Filling
  <2>6. CASE FillWrite
    <3>1. video'[Cur] = dma /\ cpc = "fill" /\ cpc' = "recover"
          /\ UNCHANGED <<unready, grab>>
      BY <2>6, <1>0, <1>a DEF FillWrite, history, TypeOK
    <3> QED BY <2>2, <3>1, <2>3, <1>0 DEF Filling
  <2>7. CASE StampFrame
    <3>1. /\ tc'[Cur] = grab /\ ok'[Cur] = TRUE /\ stamp'[Cur] = Next1
          /\ cpc = "stamp" /\ cpc' = "publish" /\ UNCHANGED <<unready, video>>
      BY <2>7, <1>0, <1>a DEF StampFrame, history, TypeOK
    <3>2. Next1 \in unready \/ video[Cur] = grab
      BY <3>1, <1>0 DEF Filling
    <3>3. Next1' \in unready' \/ Complete(Next1)'
      BY <3>1, <3>2, <2>3, <1>b DEF Complete, Slot
    <3> QED BY <2>2, <3>1, <3>3 DEF Filling
  <2>8. CASE DummyStamp
    <3>1. stamp'[Cur] = Next1 /\ cpc' = "dbegin"
      BY <2>8, <1>0, <1>a DEF DummyStamp, TypeOK
    <3> QED BY <2>2, <3>1, <2>3 DEF Filling
  <2>9. CASE DummyBegin
    BY <2>2, <2>9, <2>3, <1>0 DEF DummyBegin, Filling
  <2>10. CASE DummyFill
    <3>1. /\ ok'[Cur] = FALSE /\ video'[Cur] = NoVideo /\ cpc = "dfill"
          /\ cpc' = "dpublish" /\ UNCHANGED stamp
      <4>1. /\ ok' = [ok EXCEPT ![Cur] = FALSE]
            /\ video' = [video EXCEPT ![Cur] = NoVideo]
            /\ cpc = "dfill" /\ cpc' = "dpublish" /\ UNCHANGED stamp
        BY <2>10 DEF DummyFill
      <4> QED BY <4>1, <1>0, <1>a DEF TypeOK
    <3>2. Complete(Next1)'
      BY <3>1, <2>3, <1>0, <1>b DEF Filling, Complete, Slot
    <3> QED BY <2>2, <3>1, <3>2 DEF Filling
  <2> QED BY <1>2, <2>2, <2>4, <2>5, <2>6, <2>7, <2>8, <2>9, <2>10 DEF Store
<1>3. CASE Recover
  <2>1. /\ cpc = "recover" /\ cpc' = "stamp"
        /\ UNCHANGED <<stamp, tc, ok, video, dma, grab>>
    BY <1>3 DEF Recover
  <2>2. CASE UNCHANGED <<lastframe, unready>>
    <3>1. ReadyUnlessExcused'
      BY <1>0, <2>1, <2>2
         DEF ReadyUnlessExcused, Readable, Next1, Complete, Slot
    <3>2. Next1' = Next1 /\ Cur' = Cur
      BY <2>2 DEF Next1, Cur, Slot
    <3> QED BY <1>0, <2>1, <2>2, <3>1, <3>2 DEF Filling
  <2>3. CASE /\ Missing \in 1 .. MaxRecover
             /\ lastframe' = lastframe + Missing
             /\ unready' = unready \cup (Next1 .. Next1 + Missing)
    <3>1. Missing \in Nat /\ Missing >= 1
      BY <2>3, RingAssumption
    <3>2. Next1' = Next1 + Missing /\ Next1' \in unready'
      BY <2>3, <3>1, <1>a, <1>0 DEF Next1, TypeOK
    <3>3. Filling'
      BY <2>1, <3>2 DEF Filling
    <3>4. ASSUME NEW f \in (Readable \ unready)'
          PROVE  f \in Readable \ unready
      <4>1. f \in 0 .. lastframe' /\ f > Next1' - RingLen
            /\ f \notin unready /\ f \notin Next1 .. Next1 + Missing
        BY <2>3 DEF Readable
      <4> QED BY <4>1, <3>1, <3>2, <2>3, <1>a, <1>0, RingAssumption
              DEF Readable, Next1, TypeOK
    <3>5. ASSUME NEW f \in (Readable \ unready)' PROVE Complete(f)'
      BY <3>4, <2>1, <1>0 DEF ReadyUnlessExcused, Complete, Slot
    <3> QED BY <3>3, <3>5 DEF ReadyUnlessExcused
  <2> QED BY <1>3, <2>2, <2>3 DEF Recover
<1>4. CASE Publish \/ DummyPublish
  <2>1. /\ cpc \in {"publish", "dpublish"} /\ lastframe' = lastframe + 1
        /\ UNCHANGED <<stamp, tc, ok, video, unready>>
        /\ cpc' \in {"get", "dstamp", "wait"}
    BY <1>4 DEF Publish, DummyPublish, history
  <2>2. ReadyUnlessExcused'
    BY <2>1, <1>0, PublishReady DEF Filling
  <2> QED BY <2>1, <2>2 DEF Filling
<1> QED BY <1>1, <1>2, <1>3, <1>4
        DEF RingNext, SdiMonitor, WritePicture, WriteDummyFrames, Store

\* Every published frame that can still be in the ring is complete, but for
\* those a recovery skipped and those whose transfer failed.
THEOREM PublishedReady == RingSpec => []ReadyUnlessExcused
<1>1. RingInv => ReadyUnlessExcused
  BY DEF RingInv
<1> QED BY <1>1, RingInvInit, RingInvStep, PTL DEF RingSpec
-----------------------------------------------------------------------------
(* Until the signal is lost, frame numbers and reported drops add up *)

\* The thread does not leave write_picture() before it finds the signal lost.
Steady ==
  /\ recover = FALSE
  /\ cpc \in {"get", "begin", "fill", "recover", "stamp", "publish"}

\* The picture being filed is the one after the last, but for the drops.
Counting ==
  unready = {} =>
    /\ cpc = "get" => taken = Next1 + dropped
    /\ cpc # "get" => (grab = taken /\ taken = Next1 + 1 + dropped)
    /\ cpc = "publish" => tc[Cur] = grab
    /\ lastframe >= 0 => tc[Slot(lastframe)] = lastframe + 1 + hwdrop

DropInv == TypeOK /\ (lost = NoLoss => Steady /\ Counting)

LEMMA DropInvInit == RingInit => DropInv
<1> SUFFICES ASSUME RingInit PROVE Steady /\ Counting
  BY TypeInit DEF DropInv
<1> QED BY DEF RingInit, Steady, Counting, Next1

LEMMA LastNotCur ==
  ASSUME TypeOK, lastframe >= 0
  PROVE  Slot(lastframe) \in Slots \ {Cur}
<1>1. lastframe \in Int /\ lastframe \in Readable
  BY RingAssumption DEF TypeOK, Readable, Next1
<1> QED BY <1>1, ReadableNotCur

LEMMA DropInvStep ==
  ASSUME DropInv, [RingNext]_ringVars
  PROVE  DropInv'
<1>a. TypeOK /\ TypeOK'
  BY TypeStep DEF DropInv
<1>b. CASE LoseSignal
  <2>1. lost'.tick = now /\ now \in Nat
    BY <1>a, <1>b DEF LoseSignal, TypeOK, Periods
  <2> QED BY <1>a, <2>1 DEF DropInv, NoLoss
<1>c. CASE ~LoseSignal /\ lost # NoLoss
  <2>1. lost' = lost
    BY <1>c DEF RingNext, SdiMonitor, WritePicture, WriteDummyFrames, Tick,
                GetBuffer, BeginWrite, FillWrite, Recover, StampFrame, Publish,
                SignalRestored, PollSignal, DummyStamp, DummyBegin, DummyFill,
                DummyPublish, history, ringVars
  <2> QED BY <1>a, <1>c, <2>1 DEF DropInv, NoLoss
<1> SUFFICES ASSUME ~LoseSignal, lost = NoLoss PROVE DropInv'
  BY <1>b, <1>c
<1>0. TypeOK /\ Steady /\ Counting
  BY DEF DropInv
<1>1. TypeOK'
  BY <1>0, TypeStep
<1>2. Next1 \in Nat /\ Cur \in Slots
  BY <1>0, SlotInRing DEF TypeOK, Next1, Cur
<1>3. CASE Tick
  <2>1. UNCHANGED <<taken, dropped, lastframe, hwdrop, tc, cpc, grab,
                    recover, unready>>
    BY <1>3 DEF Tick, shm, locals, history
  <2> QED BY <2>1, <1>0, <1>1 DEF DropInv, Steady, Counting, Next1, Cur, Slot
<1>4. CASE GetBuffer
  <2>1. /\ cpc = "get" /\ cpc' = "begin" /\ grab' = Picture /\ taken' = Picture
        /\ dropped' = dropped + (Picture - taken - 1)
        /\ UNCHANGED <<lastframe, hwdrop, tc, recover, unready>>
    BY <1>4, <1>0 DEF GetBuffer, Steady, history
  <2>2. Picture \in Int /\ taken \in Int /\ dropped \in Int
    BY <1>4, <1>0, PictureType DEF GetBuffer, TypeOK, Periods
  <2>3. unready = {} => taken' = Next1 + 1 + dropped'
    BY <2>1, <2>2, <1>2, <1>0 DEF Counting
  <2> QED BY <2>1, <2>3, <1>0, <1>1
          DEF DropInv, Steady, Counting, Next1, Cur, Slot
<1>5. CASE BeginWrite
  <2>1. /\ cpc = "begin" /\ cpc' = "fill"
        /\ UNCHANGED <<dropped, lastframe, hwdrop, tc, grab, recover>>
    BY <1>5, <1>0 DEF BeginWrite, Steady
  <2>2. (unready' = {}) => (taken' = taken /\ unready' = unready)
    BY <1>5 DEF BeginWrite
  <2> QED BY <2>1, <2>2, <1>0, <1>1
          DEF DropInv, Steady, Counting, Next1, Cur, Slot
<1>6. CASE FillWrite
  BY <1>6, <1>0, <1>1
     DEF FillWrite, env, history, DropInv, Steady, Counting, Next1, Cur, Slot
<1>7. CASE Recover
  BY <1>7, <1>0, <1>1
     DEF Recover, env, DropInv, Steady, Counting, Next1, Cur, Slot
<1>8. CASE StampFrame
  <2>1. /\ cpc = "stamp" /\ cpc' = "publish" /\ tc'[Cur] = grab
        /\ \A s \in Slots \ {Cur} : tc'[s] = tc[s]
        /\ UNCHANGED <<taken, dropped, lastframe, hwdrop, grab,
                       recover, unready>>
    BY <1>8, <1>0, <1>2 DEF StampFrame, env, history, TypeOK
  <2>2. lastframe >= 0 => tc'[Slot(lastframe)] = tc[Slot(lastframe)]
    BY <2>1, <1>0, LastNotCur
  <2> QED BY <2>1, <2>2, <1>0, <1>1
          DEF DropInv, Steady, Counting, Next1, Cur, Slot
<1>9. CASE Publish
  <2>1. /\ cpc = "publish" /\ cpc' = "get" /\ hwdrop' = dropped
        /\ lastframe' = Next1 /\ recover' = FALSE
        /\ UNCHANGED <<taken, dropped, tc, grab, unready>>
    BY <1>9 DEF Publish, env, history, Next1
  <2>2. unready = {} => tc[Cur] = Next1 + 1 + dropped
    BY <2>1, <1>0 DEF Counting
  <2>3. Slot(lastframe') = Cur
    BY <2>1 DEF Cur
  <2>4. Next1' = Next1 + 1
    BY <2>1 DEF Next1
  <2>5. dropped \in Nat
    BY <1>0 DEF TypeOK
  <2>6. Counting'
    BY <2>1, <2>2, <2>3, <2>4, <2>5, <1>2, <1>0 DEF Counting, Slot
  <2> QED BY <2>1, <2>6, <1>0, <1>1 DEF DropInv, Steady
<1>10. CASE UNCHANGED ringVars
  BY <1>10, <1>0, <1>1
     DEF ringVars, DropInv, Steady, Counting, Next1, Cur, Slot
<1>11. ~(SignalRestored \/ PollSignal \/ WriteDummyFrames)
  BY <1>0 DEF Steady, SignalRestored, PollSignal, WriteDummyFrames,
              DummyStamp, DummyBegin, DummyFill, DummyPublish
<1> QED BY <1>3, <1>4, <1>5, <1>6, <1>7, <1>8, <1>9, <1>10, <1>11
        DEF RingNext, SdiMonitor, WritePicture

\* Until the signal is lost or a transfer fails, every drop of the capture
\* card is in the count published with the frame that follows it.
THEOREM DropsReported == RingSpec => []DropsAccounted
<1>1. DropInv => DropsAccounted
  BY DEF DropInv, Counting, DropsAccounted
<1>2. DropInv /\ [RingNext]_ringVars => DropInv'
  BY DropInvStep
<1> QED BY <1>1, <1>2, DropInvInit, PTL DEF RingSpec
=============================================================================
