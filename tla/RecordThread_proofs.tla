------------------------ MODULE RecordThread_proofs ------------------------
(***************************************************************************)
(* Proofs about RecordThread, for every ring length, number of MtEncoder   *)
(* threads, encoding and target duration: first the accounting, which is   *)
(* inductive with the counts alone, then what needs the invariant          *)
(* RecordInv, which relates the ring, the tracks, the message queue and    *)
(* the threads.                                                            *)
(***************************************************************************)
EXTENDS RecordThread, FiniteSetTheorems, SequenceTheorems, TLAPS

-----------------------------------------------------------------------------
(* The accounting *)

\* What the counts are, and that nothing is counted before the recording has
\* begun.
Counts ==
  /\ last \in Int /\ lastcoded \in Nat \cup {-1} /\ start \in Int
  /\ written \in Int /\ skipped \in Int
  /\ toSave \in Seq(Nat)
  /\ rpc = "start" => written = 0 /\ skipped = 0 /\ toSave = <<>>

AccountingInv == Counts /\ Accounting

LEMMA AccountingInit == RecordInit => AccountingInv
  BY DEF RecordInit, FrameRingInit, AccountingInv, Counts, Accounting

\* The capture daemon only moves lastframe.
LEMMA CaptureLast == last \in Int /\ FrameRingNext => last' \in Int
  BY DEF FrameRingNext, Clear, Tear, Fill, Place, Number, NumberDummy,
         TearDummy, FillDummy, Publish, NextFrame

\* The elements of a queue when something is added or taken.
LEMMA AppendElements ==
  ASSUME NEW S, NEW s \in Seq(S), NEW x \in S
  PROVE  /\ Append(s, x) \in Seq(S) /\ Len(Append(s, x)) = Len(s) + 1
         /\ \A i \in 1 .. Len(s) : Append(s, x)[i] = s[i]
         /\ Append(s, x)[Len(s) + 1] = x
  OBVIOUS

LEMMA TailElements ==
  ASSUME NEW S, NEW s \in Seq(S), s # <<>>
  PROVE  /\ Tail(s) \in Seq(S) /\ Len(Tail(s)) = Len(s) - 1
         /\ \A i \in 1 .. Len(s) - 1 : Tail(s)[i] = s[i + 1]
         /\ Len(s) \in Nat \ {0} /\ s[1] = Head(s)
  OBVIOUS

LEMMA AccountingStep == AccountingInv /\ [RecordNext]_vars => AccountingInv'
<1> SUFFICES ASSUME AccountingInv, [RecordNext]_vars PROVE AccountingInv'
  OBVIOUS
<1> USE DEF AccountingInv, Counts, Accounting
<1>a. Len(toSave) \in Nat
  OBVIOUS
<1>1. CASE Capture
  BY <1>1, CaptureLast DEF Capture, recordVars
<1>2. CASE CaptureDies \/ UNCHANGED vars
  BY <1>2 DEF CaptureDies, vars, recordVars, frameRingVars
<1>3. CASE Begin
  <2>1. PICK f \in Int : f >= 0 /\ start' = f /\ lastcoded' = f - 1
    BY <1>3 DEF Begin
  <2>2. /\ rpc' = "loop" /\ written' = 0 /\ skipped' = 0
        /\ toSave' = <<>> /\ UNCHANGED last
    BY <1>3 DEF Begin, frameRingVars
  <2>3. toSave' \in Seq(Nat) /\ Len(toSave') = 0
    BY <2>2
  <2>4. f - 1 \in Nat \cup {-1}
    BY <2>1
  <2> QED BY <2>1, <2>2, <2>3, <2>4
<1>4. CASE Plan
  <2>1. Excess \in Nat
    BY FrameRingAssumption, RecordAssumption DEF Excess, Allowed, LastFrame
  <2>2. /\ rpc = "loop" /\ rpc' = "take"
        /\ lastcoded' = lastcoded + Excess /\ skipped' = skipped + Excess
        /\ UNCHANGED <<last, start, written, toSave>>
    BY <1>4 DEF Plan, frameRingVars
  <2> QED BY <2>1, <2>2, <1>a
<1>5. CASE HeartbeatLost \/ Close \/ Finish
  <2>1. /\ rpc \notin {"start", "submit", "encode"}
        /\ rpc' \notin {"start", "submit", "encode"}
        /\ UNCHANGED <<last, lastcoded, start, written, skipped, toSave>>
    BY <1>5 DEF HeartbeatLost, Close, Finish, frameRingVars
  <2> QED BY <2>1
<1>6. CASE Take
  <2>1. /\ rpc = "take" /\ rpc' = "submit"
        /\ toSave' = Append(toSave, lastcoded + 1)
        /\ UNCHANGED <<last, lastcoded, start, written, skipped>>
    BY <1>6 DEF Take, frameRingVars
  <2>2. toSave' \in Seq(Nat) /\ Len(toSave') = Len(toSave) + 1
    BY <2>1, AppendElements
  <2> QED BY <2>1, <2>2, <1>a
<1>7. CASE BeginEncode
  BY <1>7 DEF BeginEncode, frameRingVars
<1>8. CASE Submit \/ EndEncode \/ MarkCoded
  <2>1. /\ rpc \in {"submit", "encode"} /\ rpc' = "save"
        /\ lastcoded' = lastcoded + 1
        /\ UNCHANGED <<last, start, written, skipped, toSave>>
    BY <1>8 DEF Submit, EndEncode, MarkCoded, frameRingVars
  <2> QED BY <2>1, <1>a
<1>9. CASE Save
  <2>1. /\ rpc = "save" /\ rpc' \in {"close", "save"} /\ toSave # <<>>
        /\ toSave' = Tail(toSave) /\ written' = written + 1
        /\ UNCHANGED <<last, lastcoded, start, skipped>>
    BY <1>9 DEF Save, FrontCoded, frameRingVars
  <2>2. toSave' \in Seq(Nat) /\ Len(toSave') = Len(toSave) - 1
    BY <2>1, TailElements
  <2> QED BY <2>1, <2>2, <1>a
<1>10. CASE SaveNoMore
  <2>1. /\ rpc = "save" /\ rpc' \in {"take", "loop"}
        /\ UNCHANGED <<last, lastcoded, start, written, skipped, toSave>>
    BY <1>10 DEF SaveNoMore, frameRingVars
  <2> QED BY <2>1
<1>11. ASSUME NEW w \in Workers, WorkerStep(w) PROVE AccountingInv'
  BY <1>11 DEF WorkerStep, GetFrame, EncodeFrame, Deliver, Miss, MarkError,
               GetHangUp, mtOthers, frameRingVars
<1> QED BY <1>1, <1>2, <1>3, <1>4, <1>5, <1>6, <1>7, <1>8, <1>9, <1>10, <1>11
        DEF RecordNext, RecordStep

(***************************************************************************)
(* No frame from the start of the recording on is lost or counted twice:   *)
(* each is written, dropped and counted as such, or still to be written.   *)
(***************************************************************************)
THEOREM Accounted == RecordSpec => []Accounting
<1>1. RecordInit => AccountingInv
  BY AccountingInit
<1>2. AccountingInv /\ [RecordNext]_vars => AccountingInv'
  BY AccountingStep
<1>3. AccountingInv => Accounting
  BY DEF AccountingInv
<1> QED BY <1>1, <1>2, <1>3, PTL DEF RecordSpec

-----------------------------------------------------------------------------
(* The inductive invariant *)

Held(w) == worker[w].pc \in {"encode", "check"}
AtHand(f) == rpc \in {"submit", "encode"} /\ f = lastcoded + 1

\* The ring: an element that bears the number of a published frame holds that
\* frame's picture, unless it was published without.  This is so because the
\* number is cleared before the data is overwritten and written after, or is
\* that of a frame yet to come.
RingHolds ==
  /\ stage \in {"cleared", "torn", "filled"} => stamp[Here] = 0
  /\ stage \in {"marked", "faking"} => stamp[Here] = NextFrame
  /\ stage = "filled" => data[Here] = NextFrame
  /\ stage \in {"placed", "ready"} =>
       data[Here] = NextFrame \/ NextFrame \in unready
  /\ \A f \in 1 .. last :
       stamp[Slot(f)] = f => data[Slot(f)] = f \/ f \in unready

\* frames_to_save and the tracks: in order, none twice, all of them published.
TracksKept ==
  /\ \A i, j \in 1 .. Len(toSave) : i < j => toSave[i] < toSave[j]
  /\ DOMAIN track = IF rpc = "done" THEN {} ELSE Buffered
  /\ \A f \in Buffered : f \in 0 .. LastFrame /\ (f <= lastcoded \/ AtHand(f))
  /\ rpc \in {"submit", "encode"} => lastcoded + 1 \in Buffered
  /\ rpc = "start" => toSave = <<>>
  /\ rpc \in {"take", "submit", "encode"} =>
       batch >= 1 /\ lastcoded + batch <= LastFrame
  /\ rpc = "save" => batch >= 1 /\ lastcoded + batch - 1 <= LastFrame

\* Who has a frame that is not coded: the queue, a thread of the MtEncoder or
\* the record thread, and never two of them.
InQueue(f) == \E i \in 1 .. Len(mtq) : mtq[i] = f
NoneTwice ==
  \A i, j \in 1 .. Len(mtq) : mtq[i] # HangUp /\ mtq[i] = mtq[j] => i = j

QueueSound ==
  rpc # "done" =>
    /\ NoneTwice
    /\ \A f \in Nat : InQueue(f) =>
         f \in Buffered /\ ~track[f].coded /\ ~AtHand(f)
HoldersSound ==
  /\ \A w \in Workers : Held(w) =>
       /\ rpc # "done"
       /\ worker[w].frame \in Buffered /\ ~track[worker[w].frame].coded
       /\ ~AtHand(worker[w].frame) /\ ~InQueue(worker[w].frame)
  /\ \A v, w \in Workers :
       Held(v) /\ Held(w) /\ worker[v].frame = worker[w].frame => v = w
NoneForgotten ==
  rpc # "done" =>
    \A f \in Buffered :
      IF track[f].coded THEN ~AtHand(f)
      ELSE \/ AtHand(f) \/ InQueue(f)
           \/ \E w \in Workers : Held(w) /\ worker[w].frame = f

\* Only an MtEncoder has a queue and threads, and they are gone at the end.
EncoderUsed ==
  /\ opt.encoder # "mt" => mtq = <<>> /\ \A w \in Workers : worker[w] = Idle
  /\ opt.encoder = "mt" =>
       /\ rpc # "encode"
       /\ rpc = "done" => \A w \in Workers : worker[w].pc = "exit"

\* What a frame's track, and a thread that has the frame, know of the picture
\* when every frame was taken from an element with its number.  Of frame 0
\* nothing is known, because its number is that of a cleared element.
Fits(f, d) == d = f \/ f \in unready
TrackFits(f) ==
  IF track[f].coded
  THEN track[f].src = "own" /\ (track[f].val = Empty \/ Fits(f, track[f].val))
  ELSE track[f].src = "ring" /\ track[f].checked /\ track[f].idx = f
WorkerFits(w) ==
  stamp[Slot(worker[w].frame)] = worker[w].frame =>
    /\ worker[w].pc = "encode" => Fits(worker[w].frame, worker[w].seen)
    /\ worker[w].pc = "check" => \/ worker[w].seen = Empty
                                 \/ Fits(worker[w].frame, worker[w].seen)
PictureKept ==
  (opt.encoder = "mt" /\ ~opt.bitc /\ ~mistaken) =>
    /\ wrong \subseteq {0}
    /\ \A f \in DOMAIN track \ {0} : TrackFits(f)
    /\ \A w \in Workers : worker[w].frame # 0 => WorkerFits(w)

RecordInv ==
  /\ RecordTypeOK /\ RingHolds /\ TracksKept
  /\ QueueSound /\ HoldersSound /\ NoneForgotten /\ EncoderUsed
  /\ PictureKept

-----------------------------------------------------------------------------
(* The ring *)

LEMMA SlotType == ASSUME NEW f \in Nat PROVE Slot(f) \in Slots
  BY FrameRingAssumption DEF Slot, Slots

\* The part of the type invariant that is about the ring.
RingType ==
  /\ last \in Nat \cup {-1}
  /\ stamp \in [Slots -> Nat]
  /\ data \in [Slots -> Data]
  /\ stage \in {"idle", "cleared", "torn", "filled", "placed", "ready",
                "marked", "faking"}
  /\ unready \subseteq Nat

LEMMA HereType == RingType => NextFrame \in Nat /\ Here \in Slots
<1> SUFFICES ASSUME RingType PROVE NextFrame \in Nat /\ Here \in Slots
  OBVIOUS
<1>1. NextFrame \in Nat
  BY DEF RingType, NextFrame
<1> QED BY <1>1, SlotType DEF Here

\* A step of the capture daemon keeps the types; frames are published and
\* never withdrawn, and no element takes the number of a published frame.
LEMMA RingStep ==
  ASSUME RingType, RingHolds, FrameRingNext
  PROVE  /\ RingType' /\ last <= last' /\ unready \subseteq unready'
         /\ \A f \in 1 .. last : stamp'[Slot(f)] = f => stamp[Slot(f)] = f
<1> USE DEF RingType
<1>1. NextFrame \in Nat /\ Here \in Slots /\ NextFrame = last + 1
  BY HereType DEF NextFrame
<1>2. \A f \in 1 .. last : Slot(f) \in Slots
  BY SlotType
<1>3. NextFrame \in Data /\ Torn \in Data
  BY <1>1 DEF Data
<1>4. CASE Clear
  BY <1>4, <1>1, <1>2 DEF Clear
<1>5. CASE Tear
  <2>1. /\ stage' = "torn" /\ data' = [data EXCEPT ![Here] = Torn]
        /\ unready' \in {unready, unready \cup {NextFrame}}
        /\ UNCHANGED <<last, stamp>>
    BY <1>5 DEF Tear
  <2> QED BY <2>1, <1>1, <1>2, <1>3
<1>6. CASE Fill
  BY <1>6, <1>1, <1>2, <1>3 DEF Fill
<1>7. ASSUME NEW n \in 0 .. MaxSkip, Place(n)
      PROVE  /\ RingType' /\ last <= last' /\ unready \subseteq unready'
             /\ \A f \in 1 .. last : stamp'[Slot(f)] = f => stamp[Slot(f)] = f
  BY <1>7, <1>1, FrameRingAssumption DEF Place
<1>8. CASE Number
  BY <1>8, <1>1, <1>2 DEF Number
<1>9. CASE NumberDummy
  BY <1>9, <1>1, <1>2 DEF NumberDummy
<1>10. CASE TearDummy
  BY <1>10, <1>1, <1>2, <1>3 DEF TearDummy
<1>11. CASE FillDummy
  BY <1>11, <1>1, <1>2, <1>3 DEF FillDummy
<1>12. CASE Publish
  BY <1>12, <1>1, <1>2 DEF Publish
<1> QED BY <1>4, <1>5, <1>6, <1>7, <1>8, <1>9, <1>10, <1>11, <1>12
        DEF FrameRingNext

LEMMA RingHoldsStep ==
  ASSUME RingType, RingHolds, FrameRingNext PROVE RingHolds'
<1> USE DEF RingType
<1>1. NextFrame \in Nat /\ Here \in Slots /\ NextFrame = last + 1
  BY HereType DEF NextFrame
<1>2. \A f \in 1 .. last : Slot(f) \in Slots
  BY SlotType
<1>3. /\ last' = last => NextFrame' = NextFrame /\ Here' = Here
      /\ Here = Slot(NextFrame)
  BY DEF Here, NextFrame
<1>4. CASE Clear
  <2>1. /\ stage' = "cleared" /\ last' = last
        /\ stamp' = [stamp EXCEPT ![Here] = 0]
        /\ UNCHANGED <<data, unready>>
    BY <1>4 DEF Clear
  <2> QED BY <2>1, <1>1, <1>2, <1>3 DEF RingHolds
<1>5. CASE Tear
  <2>1. /\ stage = "cleared" /\ stage' = "torn" /\ last' = last
        /\ data' = [data EXCEPT ![Here] = Torn]
        /\ unready \subseteq unready' /\ UNCHANGED stamp
    BY <1>5 DEF Tear
  <2> QED BY <2>1, <1>1, <1>2, <1>3 DEF RingHolds
<1>6. CASE Fill
  <2>1. /\ stage = "torn" /\ stage' = "filled" /\ last' = last
        /\ data' = [data EXCEPT ![Here] = NextFrame]
        /\ UNCHANGED <<stamp, unready>>
    BY <1>6 DEF Fill
  <2> QED BY <2>1, <1>1, <1>2, <1>3 DEF RingHolds
<1>7. ASSUME NEW n \in 0 .. MaxSkip, Place(n) PROVE RingHolds'
  <2>0. n \in Nat
    BY <1>7, FrameRingAssumption
  <2>1. /\ stage = "filled" /\ stage' = "placed" /\ last' = last + n
        /\ unready' = IF n > 0 THEN unready \cup (NextFrame .. NextFrame + n)
                      ELSE unready
        /\ UNCHANGED <<stamp, data>>
    BY <1>7 DEF Place
  <2>2. CASE n = 0
    BY <2>1, <2>2, <1>1, <1>2, <1>3 DEF RingHolds
  <2>3. CASE n > 0
    <3>1. NextFrame' = NextFrame + n
      BY <2>1, <2>0, <1>1 DEF NextFrame
    <3>2. NextFrame .. NextFrame + n \subseteq unready'
      BY <2>1, <2>3
    <3>3. NextFrame' \in unready'
      BY <3>1, <3>2, <2>0, <1>1
    <3>4. ASSUME NEW f \in 1 .. last', stamp'[Slot(f)] = f
          PROVE  data'[Slot(f)] = f \/ f \in unready'
      <4>1. CASE f <= last
        BY <4>1, <3>4, <2>1, <2>3, <2>0 DEF RingHolds
      <4>2. CASE f > last
        BY <4>2, <3>2, <2>1, <2>0, <1>1
      <4> QED BY <4>1, <4>2
    <3> QED BY <2>1, <3>3, <3>4 DEF RingHolds
  <2> QED BY <2>0, <2>2, <2>3
<1>8. CASE Number
  <2>1. /\ stage = "placed" /\ stage' = "ready" /\ last' = last
        /\ stamp' = [stamp EXCEPT ![Here] = NextFrame]
        /\ UNCHANGED <<data, unready>>
    BY <1>8 DEF Number
  <2> QED BY <2>1, <1>1, <1>2, <1>3 DEF RingHolds
<1>9. CASE NumberDummy
  <2>1. /\ stage = "idle" /\ stage' = "marked" /\ last' = last
        /\ stamp' = [stamp EXCEPT ![Here] = NextFrame]
        /\ UNCHANGED <<data, unready>>
    BY <1>9 DEF NumberDummy
  <2> QED BY <2>1, <1>1, <1>2, <1>3 DEF RingHolds
<1>10. CASE TearDummy
  <2>1. /\ stage = "marked" /\ stage' = "faking" /\ last' = last
        /\ data' = [data EXCEPT ![Here] = Torn]
        /\ UNCHANGED <<stamp, unready>>
    BY <1>10 DEF TearDummy
  <2> QED BY <2>1, <1>1, <1>2, <1>3 DEF RingHolds
<1>11. CASE FillDummy
  <2>1. /\ stage = "faking" /\ stage' = "ready" /\ last' = last
        /\ data' = [data EXCEPT ![Here] = NextFrame]
        /\ UNCHANGED <<stamp, unready>>
    BY <1>11 DEF FillDummy
  <2> QED BY <2>1, <1>1, <1>2, <1>3 DEF RingHolds
<1>12. CASE Publish
  <2>1. /\ stage = "ready" /\ stage' = "idle" /\ last' = NextFrame
        /\ UNCHANGED <<stamp, data, unready>>
    BY <1>12 DEF Publish
  <2> QED BY <2>1, <1>1, <1>2, <1>3 DEF RingHolds
<1> QED BY <1>4, <1>5, <1>6, <1>7, <1>8, <1>9, <1>10, <1>11, <1>12
        DEF FrameRingNext
-----------------------------------------------------------------------------
(* Types *)

LEMMA VideoType ==
  ASSUME RecordTypeOK, NEW f \in DOMAIN track PROVE VideoOf(f) \in Data
<1>1. f \in Nat /\ track[f] \in Tracks
  BY DEF RecordTypeOK
<1>2. data[Slot(f)] \in Data /\ overlay \in Data /\ track[f].val \in Data
  BY <1>1, SlotType DEF RecordTypeOK, Tracks
<1>3. track[f].src \in {"ring", "overlay", "own"}
  BY <1>1 DEF Tracks
<1> QED BY <1>2, <1>3 DEF VideoOf

\* Init() with coded data changes one track.
LEMMA CodedTrack ==
  ASSUME \A g \in DOMAIN track : track[g] \in Tracks,
         NEW f, NEW val \in Data
  PROVE  /\ DOMAIN Coded(f, val) = DOMAIN track
         /\ \A g \in DOMAIN track :
              /\ Coded(f, val)[g] \in Tracks
              /\ g # f => Coded(f, val)[g] = track[g]
              /\ g = f => /\ Coded(f, val)[g].coded
                          /\ Coded(f, val)[g].src = "own"
                          /\ Coded(f, val)[g].val = val
<1>1. DOMAIN Coded(f, val) = DOMAIN track
  BY DEF Coded
<1>2. ASSUME NEW g \in DOMAIN track, g # f
      PROVE  Coded(f, val)[g] = track[g]
  BY <1>2 DEF Coded
<1>3. ASSUME f \in DOMAIN track
      PROVE  Coded(f, val)[f] = [track[f] EXCEPT !.checked = FALSE,
                       !.src = "own", !.val = val, !.coded = TRUE]
  BY <1>3 DEF Coded
<1>4. ASSUME f \in DOMAIN track
      PROVE  /\ Coded(f, val)[f] \in Tracks /\ Coded(f, val)[f].coded
             /\ Coded(f, val)[f].src = "own" /\ Coded(f, val)[f].val = val
  <2>1. track[f] \in Tracks
    BY <1>4
  <2> QED BY <1>3, <1>4, <2>1 DEF Tracks
<1> QED BY <1>1, <1>2, <1>4

LEMMA EncodedType ==
  ASSUME NEW f, NEW d \in Data PROVE Encoded(f, d) \in Data
  BY DEF Encoded, Data

LEMMA Constants ==
  /\ Nothing \in Data /\ Empty \in Data /\ HangUp \notin Nat
  BY DEF Nothing, Empty, HangUp, Data

LEMMA LastFrameType ==
  ASSUME last \in Nat \cup {-1}
  PROVE  LastFrame \in Nat /\ last <= LastFrame
         /\ (LastFrame # last => last = -1 /\ LastFrame = 0)
  BY DEF LastFrame

LEMMA ExcessType ==
  ASSUME last \in Nat \cup {-1}, lastcoded \in Nat \cup {-1},
         LastFrame > lastcoded
  PROVE  Excess \in Nat /\ LastFrame - lastcoded - Excess \in Nat \ {0}
<1>1. LastFrame \in Nat
  BY LastFrameType
<1> QED BY <1>1, FrameRingAssumption, RecordAssumption DEF Excess, Allowed

LEMMA WorkersFinite == Cardinality(Workers) \in Nat \ {0}
  BY RecordAssumption, FS_CardinalityType, FS_EmptySet

LEMMA RecordTypeStep ==
  RecordInv /\ [RecordNext]_vars => RecordTypeOK'
<1> SUFFICES ASSUME RecordInv, [RecordNext]_vars PROVE RecordTypeOK'
  OBVIOUS
<1>a. RecordTypeOK /\ RingType
  BY DEF RecordInv, RecordTypeOK, RingType
<1>b. Idle.pc = "get" /\ Idle.frame = 0 /\ Idle.seen = Nothing
  BY DEF Idle
<1> USE <1>a DEF RecordTypeOK
<1>1. CASE Capture
  <2>1. RingType'
    BY <1>1, RingStep DEF Capture, RecordInv
  <2> QED BY <1>1, <2>1 DEF Capture, recordVars, RingType
<1>2. CASE CaptureDies
  BY <1>2 DEF CaptureDies, frameRingVars
<1>22. CASE UNCHANGED vars
  BY <1>22 DEF vars, recordVars, frameRingVars
<1>3. CASE Begin
  <2>1. PICK f \in (LastFrame - SearchLimit + 1) .. (LastFrame + MaxAhead) :
          f >= 0 /\ start' = f /\ lastcoded' = f - 1
    BY <1>3 DEF Begin
  <2>2. f \in Nat /\ f - 1 \in Nat \cup {-1}
    BY <2>1, RecordAssumption, LastFrameType
  <2> QED BY <1>3, <2>1, <2>2 DEF Begin, frameRingVars
<1>4. CASE Plan
  <2>1. lastcoded' \in Nat \cup {-1} /\ skipped' \in Nat /\ batch' \in Nat
    BY <1>4, ExcessType DEF Plan
  <2> QED BY <1>4, <2>1 DEF Plan, frameRingVars
<1>5. CASE HeartbeatLost
  BY <1>5 DEF HeartbeatLost, frameRingVars
<1>6. CASE Take
  <2> DEFINE f == lastcoded + 1
  <2>1. f \in Nat /\ Slot(f) \in Slots
    BY SlotType
  <2>2. InputTrack(f) \in Tracks
    <3>1. NoTrack \in Tracks
      BY Constants DEF NoTrack, Tracks
    <3>2. stamp[Slot(f)] \in Nat /\ opt.bitc \in BOOLEAN
      BY <2>1, RecordAssumption
    <3> QED BY <3>1, <3>2 DEF InputTrack, Tracks
  <2>3. DOMAIN track' = DOMAIN track \cup {f}
        /\ \A g \in DOMAIN track' : track'[g] \in Tracks
    BY <1>6, <2>2 DEF Take
  <2>4. toSave' \in Seq(Nat)
    BY <1>6, <2>1, AppendElements DEF Take
  <2>5. overlay' \in Data /\ mistaken' \in BOOLEAN
    BY <1>6, <2>1 DEF Take
  <2> QED BY <1>6, <2>1, <2>3, <2>4, <2>5 DEF Take, frameRingVars
<1>7. CASE Submit
  <2>1. mtq' \in Seq(Nat \cup {HangUp}) /\ lastcoded' \in Nat
    BY <1>7 DEF Submit
  <2> QED BY <1>7, <2>1 DEF Submit, frameRingVars
<1>8. CASE BeginEncode
  <2>1. lastcoded + 1 \in DOMAIN track
    BY <1>8 DEF BeginEncode, RecordInv, TracksKept
  <2>2. peek' \in Data
    BY <1>8, <2>1, VideoType DEF BeginEncode
  <2> QED BY <1>8, <2>2 DEF BeginEncode, frameRingVars
<1>9. CASE EndEncode
  <2>1. track' = Coded(lastcoded + 1, Encoded(lastcoded + 1, peek))
    BY <1>9 DEF EndEncode
  <2>2. Encoded(lastcoded + 1, peek) \in Data
    BY EncodedType
  <2>3. DOMAIN track' = DOMAIN track
        /\ \A g \in DOMAIN track' : track'[g] \in Tracks
    BY <2>1, <2>2, CodedTrack
  <2> QED BY <1>9, <2>3, Constants DEF EndEncode, frameRingVars
<1>10. CASE MarkCoded
  <2>1. track' = [track EXCEPT ![lastcoded + 1].coded = TRUE]
    BY <1>10 DEF MarkCoded
  <2>2. DOMAIN track' = DOMAIN track
        /\ \A g \in DOMAIN track' : track'[g] \in Tracks
    BY <2>1 DEF Tracks
  <2>3. lastcoded' \in Nat
    BY <1>10 DEF MarkCoded
  <2> QED BY <1>10, <2>2, <2>3 DEF MarkCoded, frameRingVars
<1>11. CASE Save
  <2>1. /\ DOMAIN track' = DOMAIN track \ {Front}
        /\ \A g \in DOMAIN track' : track'[g] = track[g]
        /\ toSave' \in Seq(Nat) /\ written' \in Nat
    BY <1>11, TailElements DEF Save, FrontCoded
  <2>2. /\ failure' \in BOOLEAN /\ wrong' \subseteq Nat
        /\ rpc' \in {"close", "save"}
    <3>1. Front \in DOMAIN track
      <4>1. toSave # <<>> /\ rpc = "save"
        BY <1>11 DEF Save, FrontCoded
      <4>2. 1 \in 1 .. Len(toSave) /\ toSave[1] = Front
        BY <4>1 DEF Front
      <4> QED BY <4>1, <4>2 DEF RecordInv, TracksKept, Buffered
    <3>2. track[Front].error \in BOOLEAN /\ Front \in Nat
      BY <3>1 DEF Tracks
    <3>3. wrong' \subseteq wrong \cup {Front}
      BY <1>11 DEF Save
    <3> QED BY <1>11, <3>2, <3>3 DEF Save
  <2> QED BY <1>11, <2>1, <2>2 DEF Save, frameRingVars
<1>12. CASE SaveNoMore
  <2>1. batch' \in Nat
    BY <1>12 DEF SaveNoMore, RecordInv, TracksKept
  <2> QED BY <1>12, <2>1 DEF SaveNoMore, frameRingVars
<1>13. CASE Close
  <2>1. mtq' \in Seq(Nat \cup {HangUp})
    <3>1. [i \in 1 .. Cardinality(Workers) |-> HangUp]
            \in Seq(Nat \cup {HangUp})
      BY WorkersFinite
    <3> QED BY <1>13, <3>1, ConcatProperties DEF Close
  <2> QED BY <1>13, <2>1 DEF Close, frameRingVars
<1>14. CASE Finish
  BY <1>14 DEF Finish, frameRingVars
<1>15. ASSUME NEW w \in Workers, GetFrame(w) PROVE RecordTypeOK'
  <2> DEFINE f == Head(mtq)
  <2>1. /\ f \in Nat /\ mtq' \in Seq(Nat \cup {HangUp}) /\ mtq # <<>>
    BY <1>15 DEF GetFrame
  <2>2. f \in DOMAIN track
    <3>1. 1 \in 1 .. Len(mtq) /\ mtq[1] = f
      BY <2>1
    <3>2. rpc # "done"
      BY <1>15, <2>1 DEF GetFrame, RecordInv, EncoderUsed
    <3>3. InQueue(f)
      BY <3>1 DEF InQueue
    <3> QED BY <3>2, <3>3, <2>1 DEF RecordInv, QueueSound, TracksKept
  <2>3. VideoOf(f) \in Data
    BY <2>2, VideoType
  <2>4. worker' \in [Workers -> [pc : {"get", "encode", "check", "error",
                                       "exit"}, frame : Nat, seen : Data]]
    BY <1>15, <2>1, <2>3, Constants DEF GetFrame
  <2> QED BY <1>15, <2>1, <2>4 DEF GetFrame, mtOthers, frameRingVars
<1>16. ASSUME NEW w \in Workers, EncodeFrame(w) PROVE RecordTypeOK'
  <2>1. Encoded(worker[w].frame, worker[w].seen) \in Data
    BY EncodedType
  <2>2. worker' \in [Workers -> [pc : {"get", "encode", "check", "error",
                                       "exit"}, frame : Nat, seen : Data]]
    BY <1>16, <2>1 DEF EncodeFrame
  <2> QED BY <1>16, <2>2 DEF EncodeFrame, mtOthers, frameRingVars
<1>17. Again \in [pc : {"get", "encode", "check", "error", "exit"},
                  frame : Nat, seen : Data]
  BY Constants DEF Again, Idle
<1>18. ASSUME NEW w \in Workers, Deliver(w) PROVE RecordTypeOK'
  <2>1. DOMAIN track' = DOMAIN track
        /\ \A g \in DOMAIN track' : track'[g] \in Tracks
    BY <1>18, CodedTrack DEF Deliver
  <2>2. worker' \in [Workers -> [pc : {"get", "encode", "check", "error",
                                       "exit"}, frame : Nat, seen : Data]]
    BY <1>18, <1>17 DEF Deliver
  <2> QED BY <1>18, <2>1, <2>2 DEF Deliver, mtOthers, frameRingVars
<1>19. ASSUME NEW w \in Workers, Miss(w) PROVE RecordTypeOK'
  <2>1. DOMAIN track' = DOMAIN track
        /\ \A g \in DOMAIN track' : track'[g] \in Tracks
    BY <1>19, CodedTrack, Constants DEF Miss
  <2>2. worker' \in [Workers -> [pc : {"get", "encode", "check", "error",
                                       "exit"}, frame : Nat, seen : Data]]
    BY <1>19, Constants DEF Miss
  <2> QED BY <1>19, <2>1, <2>2 DEF Miss, mtOthers, frameRingVars
<1>20. ASSUME NEW w \in Workers, MarkError(w) PROVE RecordTypeOK'
  <2>1. DOMAIN track' = DOMAIN track
        /\ \A g \in DOMAIN track' : track'[g] \in Tracks
    BY <1>20 DEF MarkError, Tracks
  <2>2. worker' \in [Workers -> [pc : {"get", "encode", "check", "error",
                                       "exit"}, frame : Nat, seen : Data]]
    BY <1>20, <1>17 DEF MarkError
  <2> QED BY <1>20, <2>1, <2>2 DEF MarkError, mtOthers, frameRingVars
<1>21. ASSUME NEW w \in Workers, GetHangUp(w) PROVE RecordTypeOK'
  <2>1. mtq' \in Seq(Nat \cup {HangUp})
    BY <1>21 DEF GetHangUp
  <2>2. worker' \in [Workers -> [pc : {"get", "encode", "check", "error",
                                       "exit"}, frame : Nat, seen : Data]]
    BY <1>21 DEF GetHangUp
  <2> QED BY <1>21, <2>1, <2>2 DEF GetHangUp, mtOthers, frameRingVars
<1> QED BY <1>1, <1>2, <1>3, <1>4, <1>5, <1>6, <1>7, <1>8, <1>9, <1>10,
           <1>11, <1>12, <1>13, <1>14, <1>15, <1>16, <1>18, <1>19, <1>20,
           <1>21, <1>22
        DEF RecordNext, RecordStep, WorkerStep
-----------------------------------------------------------------------------
(* frames_to_save and the tracks *)

\* Writing the frame at the front takes it, and no other, from the buffer.
LEMMA SaveBuffer ==
  ASSUME toSave \in Seq(Nat), toSave # <<>>, TracksKept,
         toSave' = Tail(toSave)
  PROVE  /\ Buffered' = Buffered \ {Front} /\ Front \in Buffered
         /\ \A i, j \in 1 .. Len(toSave') : i < j => toSave'[i] < toSave'[j]
<1>1. /\ toSave' \in Seq(Nat) /\ Len(toSave') = Len(toSave) - 1
      /\ \A i \in 1 .. Len(toSave) - 1 : toSave'[i] = toSave[i + 1]
      /\ Len(toSave) \in Nat \ {0} /\ toSave[1] = Front
  BY TailElements DEF Front
<1>2. \A i, j \in 1 .. Len(toSave) : i < j => toSave[i] < toSave[j]
  BY DEF TracksKept
<1>3. ASSUME NEW i \in 1 .. Len(toSave')
      PROVE  toSave'[i] \in Buffered /\ toSave'[i] # Front
  <2>1. i + 1 \in 1 .. Len(toSave) /\ toSave'[i] = toSave[i + 1]
    BY <1>1, <1>3
  <2>2. toSave[1] < toSave[i + 1] /\ toSave[1] \in Nat
    BY <2>1, <1>1, <1>2
  <2> QED BY <2>1, <2>2, <1>1 DEF Buffered
<1>4. ASSUME NEW i \in 1 .. Len(toSave), toSave[i] # Front
      PROVE  toSave[i] \in Buffered'
  <2>1. i - 1 \in 1 .. Len(toSave') /\ toSave'[i - 1] = toSave[i]
    BY <1>1, <1>4
  <2> QED BY <2>1 DEF Buffered
<1>5. Front \in Buffered
  BY <1>1 DEF Buffered
<1>6. Buffered' = Buffered \ {Front}
  <2>1. Buffered' \subseteq Buffered \ {Front}
    BY <1>3 DEF Buffered
  <2>2. Buffered \ {Front} \subseteq Buffered'
    BY <1>4 DEF Buffered
  <2> QED BY <2>1, <2>2
<1>7. ASSUME NEW i \in 1 .. Len(toSave'), NEW j \in 1 .. Len(toSave'), i < j
      PROVE  toSave'[i] < toSave'[j]
  <2>1. /\ i + 1 \in 1 .. Len(toSave) /\ toSave'[i] = toSave[i + 1]
        /\ j + 1 \in 1 .. Len(toSave) /\ toSave'[j] = toSave[j + 1]
    BY <1>1
  <2> QED BY <2>1, <1>2, <1>7
<1> QED BY <1>5, <1>6, <1>7

LEMMA TakeBuffer ==
  ASSUME toSave \in Seq(Nat), NEW f \in Nat,
         \A g \in Buffered : g < f,
         \A i, j \in 1 .. Len(toSave) : i < j => toSave[i] < toSave[j],
         toSave' = Append(toSave, f)
  PROVE  /\ Buffered' = Buffered \cup {f}
         /\ \A i, j \in 1 .. Len(toSave') : i < j => toSave'[i] < toSave'[j]
<1>1. /\ toSave' \in Seq(Nat) /\ Len(toSave') = Len(toSave) + 1
      /\ \A i \in 1 .. Len(toSave) : toSave'[i] = toSave[i]
      /\ toSave'[Len(toSave) + 1] = f /\ Len(toSave) \in Nat
  BY AppendElements
<1>2. \A i \in 1 .. Len(toSave) : toSave[i] \in Buffered
  BY DEF Buffered
<1>3. \A i \in 1 .. Len(toSave') : i \in 1 .. Len(toSave) \/ i = Len(toSave) + 1
  BY <1>1
<1>4. \A i \in 1 .. Len(toSave) : i \in 1 .. Len(toSave')
  BY <1>1
<1>5. Len(toSave) + 1 \in 1 .. Len(toSave')
  BY <1>1
<1>6. Buffered' = Buffered \cup {f}
  <2>1. Buffered' \subseteq Buffered \cup {f}
    BY <1>1, <1>3 DEF Buffered
  <2>2. Buffered \cup {f} \subseteq Buffered'
    BY <1>1, <1>4, <1>5 DEF Buffered
  <2> QED BY <2>1, <2>2
<1>7. \A i, j \in 1 .. Len(toSave') : i < j => toSave'[i] < toSave'[j]
  BY <1>1, <1>2, <1>3
<1> QED BY <1>6, <1>7

\* A thread of the MtEncoder leaves the buffer as it is, and the tracks but
\* for that of its frame.
LEMMA WorkerTracks ==
  ASSUME RecordTypeOK, NEW w \in Workers, WorkerStep(w)
  PROVE  /\ UNCHANGED <<mtOthers, Buffered>> /\ DOMAIN track' = DOMAIN track
<1>1. UNCHANGED mtOthers
  BY DEF WorkerStep, GetFrame, EncodeFrame, Deliver, Miss, MarkError,
         GetHangUp
<1>2. DOMAIN track' = DOMAIN track
  BY DEF WorkerStep, GetFrame, EncodeFrame, Deliver, Miss, MarkError,
         GetHangUp, Coded
<1> QED BY <1>1, <1>2 DEF mtOthers, Buffered

LEMMA TracksStep ==
  RecordInv /\ [RecordNext]_vars => TracksKept'
<1> SUFFICES ASSUME RecordInv, [RecordNext]_vars PROVE TracksKept'
  OBVIOUS
<1>a. TracksKept /\ RecordTypeOK /\ RingHolds
  BY DEF RecordInv
<1>b. /\ last \in Int /\ lastcoded \in Nat \cup {-1} /\ batch \in Nat
      /\ toSave \in Seq(Nat) /\ Buffered \subseteq Int /\ LastFrame \in Nat
  BY <1>a, LastFrameType DEF RecordTypeOK, TracksKept
<1>c. UNCHANGED last => UNCHANGED LastFrame
  BY DEF LastFrame
<1>1. CASE Capture
  <2>1. LastFrame <= LastFrame' /\ LastFrame' \in Int
    <3>1. last <= last' /\ last' \in Int
      BY <1>1, <1>a, RingStep DEF Capture, RecordTypeOK, RingType
    <3> QED BY <3>1, <1>b DEF LastFrame
  <2>2. UNCHANGED <<rpc, lastcoded, batch, toSave, track>>
    BY <1>1 DEF Capture, recordVars
  <2> QED BY <2>1, <2>2, <1>a, <1>b DEF TracksKept, Buffered, AtHand
<1>2. CASE CaptureDies \/ UNCHANGED vars
  <2>1. UNCHANGED <<LastFrame, rpc, lastcoded, batch, toSave, track>>
    BY <1>2, <1>c DEF CaptureDies, vars, recordVars, frameRingVars
  <2> QED BY <2>1, <1>a DEF TracksKept, Buffered, AtHand
<1>3. CASE Begin
  <2>1. /\ rpc = "start" /\ rpc' = "loop" /\ UNCHANGED <<toSave, track>>
    BY <1>3 DEF Begin
  <2>2. toSave' = <<>> /\ Buffered' = {} /\ Buffered = {}
    BY <2>1, <1>a DEF TracksKept, Buffered
  <2> QED BY <2>1, <2>2, <1>a DEF TracksKept
<1>4. CASE Plan
  <2>1. /\ Excess \in Nat /\ LastFrame - lastcoded - Excess \in Nat \ {0}
    BY <1>4, <1>a, ExcessType DEF Plan, RecordTypeOK
  <2>2. /\ rpc = "loop" /\ rpc' = "take" /\ lastcoded' = lastcoded + Excess
        /\ batch' = LastFrame - lastcoded - Excess
        /\ UNCHANGED <<LastFrame, toSave, track>>
    BY <1>4, <1>c DEF Plan, frameRingVars
  <2>3. /\ lastcoded <= lastcoded' /\ lastcoded' + batch' = LastFrame
        /\ batch' >= 1 /\ lastcoded' \in Int
    BY <2>1, <2>2, <1>b
  <2>4. UNCHANGED <<toSave, Buffered>> /\ \A f : ~AtHand(f)
    BY <2>2 DEF Buffered, AtHand
  <2>5. \A f \in Buffered : f \in 0 .. LastFrame /\ f <= lastcoded
    BY <2>4, <1>a DEF TracksKept
  <2>6. \A f \in Buffered' : f \in 0 .. LastFrame' /\ f <= lastcoded'
    BY <2>2, <2>3, <2>4, <2>5, <1>b
  <2> QED BY <2>2, <2>3, <2>4, <2>6, <1>a DEF TracksKept
<1>5. CASE HeartbeatLost \/ Close
  <2>1. /\ rpc \in {"loop", "close"} /\ rpc' \in {"close", "wait"}
        /\ UNCHANGED <<LastFrame, lastcoded, batch, toSave, track>>
    BY <1>5, <1>c DEF HeartbeatLost, Close, frameRingVars
  <2> QED BY <2>1, <1>a DEF TracksKept, Buffered, AtHand
<1>6. CASE Take
  <2> DEFINE f == lastcoded + 1
  <2>1. /\ rpc = "take" /\ rpc' = "submit" /\ toSave' = Append(toSave, f)
        /\ DOMAIN track' = DOMAIN track \cup {f}
        /\ UNCHANGED <<LastFrame, lastcoded, batch>>
    BY <1>6, <1>c DEF Take, frameRingVars
  <2>2. f \in Nat /\ \A g \in Buffered : g < f
    BY <2>1, <1>a, <1>b DEF TracksKept, AtHand
  <2>3. /\ Buffered' = Buffered \cup {f}
        /\ \A i, j \in 1 .. Len(toSave') : i < j => toSave'[i] < toSave'[j]
    BY <2>1, <2>2, <1>a, <1>b, TakeBuffer DEF TracksKept
  <2>4. f \in 0 .. LastFrame
    BY <2>1, <1>a, <1>b DEF TracksKept
  <2> QED BY <2>1, <2>2, <2>3, <2>4, <1>a, <1>b DEF TracksKept, AtHand
<1>7. CASE BeginEncode
  <2>1. /\ rpc = "submit" /\ rpc' = "encode"
        /\ UNCHANGED <<LastFrame, lastcoded, batch, toSave, track>>
    BY <1>7, <1>c DEF BeginEncode, frameRingVars
  <2> QED BY <2>1, <1>a DEF TracksKept, Buffered, AtHand
<1>8. CASE Submit \/ EndEncode \/ MarkCoded
  <2>1. /\ rpc \in {"submit", "encode"} /\ rpc' = "save"
        /\ lastcoded' = lastcoded + 1 /\ DOMAIN track' = DOMAIN track
        /\ UNCHANGED <<LastFrame, batch, toSave>>
    BY <1>8, <1>c DEF Submit, EndEncode, MarkCoded, Coded, frameRingVars
  <2> QED BY <2>1, <1>a, <1>b DEF TracksKept, Buffered, AtHand
<1>9. CASE Save
  <2>1. /\ rpc = "save" /\ rpc' \in {"close", "save"} /\ toSave # <<>>
        /\ toSave' = Tail(toSave) /\ DOMAIN track' = DOMAIN track \ {Front}
        /\ UNCHANGED <<LastFrame, lastcoded, batch>>
    BY <1>9, <1>c DEF Save, FrontCoded, frameRingVars
  <2>2. /\ Buffered' = Buffered \ {Front} /\ Front \in Buffered
        /\ \A i, j \in 1 .. Len(toSave') : i < j => toSave'[i] < toSave'[j]
    BY <2>1, <1>a, <1>b, SaveBuffer
  <2> QED BY <2>1, <2>2, <1>a DEF TracksKept, AtHand
<1>10. CASE SaveNoMore
  <2>1. /\ rpc = "save" /\ batch' = batch - 1
        /\ rpc' = IF batch' > 0 THEN "take" ELSE "loop"
        /\ UNCHANGED <<LastFrame, lastcoded, toSave, track>>
    BY <1>10, <1>c DEF SaveNoMore, frameRingVars
  <2> QED BY <2>1, <1>a, <1>b DEF TracksKept, Buffered, AtHand
<1>11. CASE Finish
  <2>1. /\ rpc = "wait" /\ rpc' = "done" /\ DOMAIN track' = {}
        /\ UNCHANGED <<LastFrame, lastcoded, batch, toSave>>
    BY <1>11, <1>c DEF Finish, frameRingVars
  <2> QED BY <2>1, <1>a DEF TracksKept, Buffered, AtHand
<1>12. ASSUME NEW w \in Workers, WorkerStep(w) PROVE TracksKept'
  <2>1. /\ UNCHANGED <<LastFrame, rpc, lastcoded, batch, toSave, Buffered>>
        /\ DOMAIN track' = DOMAIN track
    BY <1>12, <1>a, <1>c, WorkerTracks DEF mtOthers, frameRingVars
  <2> QED BY <2>1, <1>a DEF TracksKept, AtHand
<1> QED BY <1>1, <1>2, <1>3, <1>4, <1>5, <1>6, <1>7, <1>8, <1>9, <1>10,
           <1>11, <1>12
        DEF RecordNext, RecordStep
-----------------------------------------------------------------------------
(* The frames that are not coded *)

QueueType == mtq \in Seq(Nat \cup {HangUp})
HandsSound == QueueSound /\ HoldersSound /\ NoneForgotten /\ EncoderUsed

\* The queue of the MtEncoder when a frame is put into it, when a frame or a
\* message to hang up is taken from it, and when those messages are put there.
LEMMA QueuePut ==
  ASSUME QueueType, NEW f \in Nat, mtq' = Append(mtq, f)
  PROVE  /\ \A g \in Nat : InQueue(g)' <=> InQueue(g) \/ g = f
         /\ NoneTwice /\ ~InQueue(f) => NoneTwice'
<1>1. /\ Len(mtq) \in Nat /\ Len(mtq') = Len(mtq) + 1
      /\ \A i \in 1 .. Len(mtq) : mtq'[i] = mtq[i]
      /\ mtq'[Len(mtq) + 1] = f
  BY AppendElements DEF QueueType
<1>2. /\ \A i \in 1 .. Len(mtq') : i \in 1 .. Len(mtq) \/ i = Len(mtq) + 1
      /\ \A i \in 1 .. Len(mtq) : i \in 1 .. Len(mtq')
      /\ Len(mtq) + 1 \in 1 .. Len(mtq')
  BY <1>1
<1>3. \A g \in Nat : InQueue(g)' <=> InQueue(g) \/ g = f
  BY <1>1, <1>2 DEF InQueue
<1>4. NoneTwice /\ ~InQueue(f) => NoneTwice'
  BY <1>1, <1>2 DEF NoneTwice, InQueue
<1> QED BY <1>3, <1>4

LEMMA QueueGet ==
  ASSUME QueueType, mtq # <<>>, mtq' = Tail(mtq), NoneTwice
  PROVE  /\ NoneTwice' /\ InQueue(Head(mtq))
         /\ \A g \in Nat : InQueue(g)' <=> InQueue(g) /\ g # Head(mtq)
<1>1. /\ Len(mtq) \in Nat \ {0} /\ Len(mtq') = Len(mtq) - 1
      /\ \A i \in 1 .. Len(mtq) - 1 : mtq'[i] = mtq[i + 1]
      /\ mtq[1] = Head(mtq)
  BY TailElements DEF QueueType
<1>2. \A i \in 1 .. Len(mtq') : i + 1 \in 1 .. Len(mtq) /\ mtq'[i] = mtq[i + 1]
  BY <1>1
<1>3. \A i \in 1 .. Len(mtq) :
        i = 1 \/ (i - 1 \in 1 .. Len(mtq') /\ mtq'[i - 1] = mtq[i])
  BY <1>1
<1>4. NoneTwice'
  BY <1>1, <1>2 DEF NoneTwice
<1>5. ASSUME NEW g \in Nat, InQueue(g)' PROVE InQueue(g) /\ g # Head(mtq)
  <2>1. PICK i \in 1 .. Len(mtq') : mtq'[i] = g
    BY <1>5 DEF InQueue
  <2>2. mtq[i + 1] = g /\ i + 1 \in 1 .. Len(mtq) /\ i + 1 # 1
    BY <2>1, <1>1, <1>2
  <2>3. 1 \in 1 .. Len(mtq) /\ g # HangUp
    BY <1>1, Constants
  <2> QED BY <2>2, <2>3, <1>1 DEF InQueue, NoneTwice
<1>6. ASSUME NEW g \in Nat, InQueue(g), g # Head(mtq) PROVE InQueue(g)'
  BY <1>1, <1>3, <1>6 DEF InQueue
<1>7. InQueue(Head(mtq))
  BY <1>1 DEF InQueue
<1> QED BY <1>4, <1>5, <1>6, <1>7

LEMMA QueueClose ==
  ASSUME QueueType, NEW n \in Nat, mtq' = mtq \o [i \in 1 .. n |-> HangUp]
  PROVE  /\ \A g \in Nat : InQueue(g)' <=> InQueue(g)
         /\ NoneTwice => NoneTwice'
<1> DEFINE t == [i \in 1 .. n |-> HangUp]
<1>1. /\ t \in Seq(Nat \cup {HangUp}) /\ Len(t) = n
      /\ \A i \in 1 .. n : t[i] = HangUp
  OBVIOUS
<1>2. /\ Len(mtq) \in Nat /\ Len(mtq') = Len(mtq) + n
      /\ \A i \in 1 .. Len(mtq) + n :
           mtq'[i] = IF i <= Len(mtq) THEN mtq[i] ELSE t[i - Len(mtq)]
  <2> HIDE DEF t
  <2> QED BY <1>1, ConcatProperties DEF QueueType
<1>3. /\ \A i \in 1 .. Len(mtq) : i \in 1 .. Len(mtq') /\ mtq'[i] = mtq[i]
      /\ \A i \in 1 .. Len(mtq') : i \in 1 .. Len(mtq) \/ mtq'[i] = HangUp
  BY <1>1, <1>2
<1>4. \A g \in Nat : InQueue(g)' <=> InQueue(g)
  BY <1>3, Constants DEF InQueue
<1>5. NoneTwice => NoneTwice'
  BY <1>3 DEF NoneTwice
<1> QED BY <1>4, <1>5

\* A step that moves no frame.
LEMMA HandsQuiet ==
  ASSUME HandsSound, UNCHANGED <<Buffered, track, mtq, worker, opt>>,
         rpc # "done", rpc' # "done",
         opt.encoder = "mt" => rpc' # "encode",
         \A f : AtHand(f)' <=> AtHand(f)
  PROVE  HandsSound'
  BY DEF HandsSound, QueueSound, HoldersSound, NoneForgotten, EncoderUsed,
         Held, InQueue, NoneTwice

LEMMA HandsSame ==
  ASSUME HandsSound,
         UNCHANGED <<rpc, lastcoded, toSave, track, mtq, worker, opt>>
  PROVE  HandsSound'
<1>1. /\ UNCHANGED Buffered /\ (NoneTwice' <=> NoneTwice)
      /\ \A g : (AtHand(g)' <=> AtHand(g)) /\ (InQueue(g)' <=> InQueue(g))
      /\ \A w : Held(w)' <=> Held(w)
  BY DEF Buffered, NoneTwice, AtHand, InQueue, Held
<1>2. QueueSound'
  BY <1>1 DEF HandsSound, QueueSound
<1>3. HoldersSound'
  BY <1>1 DEF HandsSound, HoldersSound
<1>4. NoneForgotten'
  BY <1>1 DEF HandsSound, NoneForgotten
<1> QED BY <1>2, <1>3, <1>4 DEF HandsSound, EncoderUsed

\* A thread of the MtEncoder that marks its frame as coded, or has it no more.
LEMMA HandsDone ==
  ASSUME HandsSound, RecordTypeOK, NEW w \in Workers, NEW val \in Data,
         Held(w), track' = Coded(worker[w].frame, val),
         ~Held(w)', \A v \in Workers : v # w => worker'[v] = worker[v],
         UNCHANGED <<Buffered, rpc, lastcoded, mtq, opt>>,
         DOMAIN track = Buffered
  PROVE  QueueSound' /\ HoldersSound' /\ NoneForgotten'
<1> DEFINE f == worker[w].frame
<1>1. /\ rpc # "done" /\ f \in Buffered
      /\ ~AtHand(f) /\ ~InQueue(f)
  BY DEF HandsSound, HoldersSound
<1>2. /\ track'[f].coded
      /\ \A g \in Buffered : g # f => track'[g] = track[g]
  BY <1>1, CodedTrack DEF RecordTypeOK
<1>3. /\ \A g : AtHand(g)' <=> AtHand(g)
      /\ \A g : InQueue(g)' <=> InQueue(g)
      /\ NoneTwice' <=> NoneTwice
      /\ \A v \in Workers : Held(v)' <=> Held(v) /\ v # w
  BY DEF AtHand, InQueue, NoneTwice, Held
<1>4. \A v \in Workers : Held(v) /\ worker[v].frame = f => v = w
  BY DEF HandsSound, HoldersSound
<1> HIDE DEF f
<1>5. QueueSound'
  BY <1>1, <1>2, <1>3 DEF HandsSound, QueueSound
<1>6. HoldersSound'
  <2>1. ASSUME NEW v \in Workers, Held(v)'
        PROVE  /\ rpc' # "done" /\ worker'[v].frame \in Buffered'
               /\ ~track'[worker'[v].frame].coded
               /\ ~AtHand(worker[v].frame)' /\ ~InQueue(worker[v].frame)'
    <3>1. Held(v) /\ v # w /\ worker'[v] = worker[v] /\ worker[v].frame # f
      BY <2>1, <1>3, <1>4
    <3> QED BY <3>1, <1>2, <1>3 DEF HandsSound, HoldersSound
  <2>2. ASSUME NEW u \in Workers, NEW v \in Workers, Held(u)', Held(v)',
               worker'[u].frame = worker'[v].frame
        PROVE  u = v
    BY <2>2, <1>3 DEF HandsSound, HoldersSound
  <2> QED BY <2>1, <2>2 DEF HoldersSound
<1>7. NoneForgotten'
  <2>1. ASSUME NEW g \in Buffered', g # f, ~track'[g].coded,
               ~AtHand(g)', ~InQueue(g)'
        PROVE  \E v \in Workers : Held(v)' /\ worker'[v].frame = g
    <3>1. PICK v \in Workers : Held(v) /\ worker[v].frame = g
      BY <2>1, <1>1, <1>2, <1>3 DEF HandsSound, NoneForgotten
    <3>2. v # w
      BY <3>1, <2>1 DEF f
    <3> QED BY <3>1, <3>2, <1>3
  <2>2. ASSUME NEW g \in Buffered', track'[g].coded PROVE ~AtHand(g)'
    BY <2>2, <1>1, <1>2, <1>3 DEF HandsSound, NoneForgotten
  <2> QED BY <2>1, <2>2, <1>2 DEF NoneForgotten
<1> QED BY <1>5, <1>6, <1>7

LEMMA HandsStep ==
  RecordInv /\ [RecordNext]_vars => HandsSound'
<1> SUFFICES ASSUME RecordInv, [RecordNext]_vars PROVE HandsSound'
  OBVIOUS
<1>a. /\ HandsSound /\ RecordTypeOK /\ TracksKept /\ QueueType
      /\ lastcoded \in Nat \cup {-1}
      /\ Buffered \subseteq Nat
  BY DEF RecordInv, HandsSound, RecordTypeOK, QueueType, TracksKept
<1>b. Idle.pc = "get"
  BY DEF Idle
<1>c. \A w \in Workers : worker[w].frame \in Nat
  BY <1>a DEF RecordTypeOK
<1>d. rpc # "done" => DOMAIN track = Buffered
  BY <1>a DEF TracksKept
<1>1. CASE Capture
  <2>1. UNCHANGED <<rpc, lastcoded, toSave, track, mtq, worker, opt>>
    BY <1>1 DEF Capture, recordVars
  <2> QED BY <2>1, <1>a, HandsSame
<1>2. CASE CaptureDies \/ UNCHANGED vars
  <2>1. UNCHANGED <<rpc, lastcoded, toSave, track, mtq, worker, opt>>
    BY <1>2 DEF CaptureDies, vars, recordVars, frameRingVars
  <2> QED BY <2>1, <1>a, HandsSame
<1>3. CASE Begin \/ Plan \/ HeartbeatLost \/ SaveNoMore
  <2>1. /\ rpc \in {"start", "loop", "save"}
        /\ rpc' \in {"loop", "take", "close"}
        /\ UNCHANGED <<toSave, track, mtq, worker, opt>>
    BY <1>3 DEF Begin, Plan, HeartbeatLost, SaveNoMore
  <2>2. UNCHANGED Buffered /\ \A f : ~AtHand(f) /\ ~AtHand(f)'
    BY <2>1 DEF Buffered, AtHand
  <2> QED BY <2>1, <2>2, <1>a, HandsQuiet
<1>4. CASE BeginEncode
  <2>1. /\ rpc = "submit" /\ rpc' = "encode" /\ opt.encoder = "inline"
        /\ UNCHANGED <<lastcoded, toSave, track, mtq, worker, opt>>
    BY <1>4 DEF BeginEncode
  <2>2. UNCHANGED Buffered /\ \A f : AtHand(f)' <=> AtHand(f)
    BY <2>1 DEF Buffered, AtHand
  <2> QED BY <2>1, <2>2, <1>a, HandsQuiet
<1>5. CASE Take
  <2> DEFINE f == lastcoded + 1
  <2>1. /\ rpc = "take" /\ rpc' = "submit" /\ toSave' = Append(toSave, f)
        /\ track' = [g \in DOMAIN track \cup {f} |->
                       IF g = f THEN InputTrack(f) ELSE track[g]]
        /\ UNCHANGED <<lastcoded, mtq, worker, opt>>
    BY <1>5 DEF Take
  <2>2. f \in Nat /\ \A g \in Buffered : g < f
    BY <2>1, <1>a DEF TracksKept, AtHand
  <2>3. Buffered' = Buffered \cup {f} /\ f \notin Buffered
    <3>1. toSave \in Seq(Nat)
      BY <1>a DEF TracksKept, RecordTypeOK
    <3>2. \A i, j \in 1 .. Len(toSave) : i < j => toSave[i] < toSave[j]
      BY <1>a DEF TracksKept
    <3>3. Buffered' = Buffered \cup {f}
      BY <3>1, <3>2, <2>1, <2>2, TakeBuffer
    <3>4. f \notin Buffered
      BY <2>2
    <3> QED BY <3>3, <3>4
  <2>4. /\ ~track'[f].coded
        /\ \A g \in Buffered : g # f /\ track'[g] = track[g]
    <3>1. ~InputTrack(f).coded
      BY DEF InputTrack, NoTrack
    <3> QED BY <3>1, <2>1, <2>3, <1>d
  <2>5. \A g : ~AtHand(g) /\ (AtHand(g)' <=> g = f)
    BY <2>1 DEF AtHand
  <2>6. /\ \A g : InQueue(g)' <=> InQueue(g)
        /\ NoneTwice' <=> NoneTwice
        /\ \A w \in Workers : Held(w)' <=> Held(w)
    BY <2>1 DEF InQueue, NoneTwice, Held
  <2> HIDE DEF f
  <2>7. QueueSound'
    BY <2>1, <2>3, <2>4, <2>5, <2>6, <1>a DEF HandsSound, QueueSound
  <2>8. HoldersSound'
    BY <2>1, <2>3, <2>4, <2>5, <2>6, <1>a DEF HandsSound, HoldersSound
  <2>9. NoneForgotten'
    BY <2>1, <2>3, <2>4, <2>5, <2>6, <1>a DEF HandsSound, NoneForgotten
  <2>10. EncoderUsed'
    BY <2>1, <1>a DEF HandsSound, EncoderUsed
  <2> QED BY <2>7, <2>8, <2>9, <2>10 DEF HandsSound
<1>6. CASE Submit
  <2> DEFINE f == lastcoded + 1
  <2>1. /\ rpc = "submit" /\ rpc' = "save" /\ opt.encoder = "mt"
        /\ mtq' = Append(mtq, f)
        /\ UNCHANGED <<toSave, track, worker, opt>>
    BY <1>6 DEF Submit
  <2>2. UNCHANGED Buffered /\ f \in Buffered /\ f \in Nat
    BY <2>1, <1>a DEF Buffered, TracksKept
  <2>3. \A g : ~AtHand(g)' /\ (AtHand(g) <=> g = f)
    BY <2>1 DEF AtHand
  <2>4. ~InQueue(f) /\ NoneTwice
    BY <2>1, <2>2, <2>3, <1>a DEF HandsSound, QueueSound
  <2>5. /\ \A g \in Nat : InQueue(g)' <=> InQueue(g) \/ g = f
        /\ NoneTwice'
    BY <2>1, <2>2, <2>4, <1>a, QueuePut
  <2>6. ~track[f].coded
    BY <2>1, <2>2, <2>3, <1>a DEF HandsSound, NoneForgotten
  <2>7. \A w \in Workers : Held(w)' <=> Held(w)
    BY <2>1 DEF Held
  <2> HIDE DEF f
  <2>8. QueueSound'
    BY <2>1, <2>2, <2>3, <2>5, <2>6, <1>a DEF HandsSound, QueueSound
  <2>9. HoldersSound'
    BY <2>1, <2>2, <2>3, <2>5, <2>7, <1>a, <1>c
    DEF HandsSound, HoldersSound
  <2>10. NoneForgotten'
    BY <2>1, <2>2, <2>3, <2>5, <2>7, <1>a DEF HandsSound, NoneForgotten
  <2>11. EncoderUsed'
    BY <2>1 DEF EncoderUsed
  <2> QED BY <2>8, <2>9, <2>10, <2>11 DEF HandsSound
<1>7. CASE EndEncode \/ MarkCoded
  <2> DEFINE f == lastcoded + 1
  <2>1. /\ rpc \in {"submit", "encode"} /\ rpc' = "save"
        /\ opt.encoder # "mt"
        /\ UNCHANGED <<toSave, mtq, worker, opt>>
    BY <1>7, <1>a DEF EndEncode, MarkCoded, HandsSound, EncoderUsed
  <2>2. UNCHANGED Buffered /\ f \in Buffered /\ DOMAIN track = Buffered
    BY <2>1, <1>a, <1>d DEF Buffered, TracksKept
  <2>3. /\ track'[f].coded
        /\ \A g \in Buffered : g # f => track'[g] = track[g]
    <3>1. CASE EndEncode
      <4>1. Encoded(f, peek) \in Data /\ track' = Coded(f, Encoded(f, peek))
        BY <3>1, <1>a, EncodedType DEF EndEncode, RecordTypeOK
      <4> QED BY <4>1, <2>2, <1>a, CodedTrack DEF RecordTypeOK
    <3>2. CASE MarkCoded
      <4>1. track' = [track EXCEPT ![f].coded = TRUE] /\ track[f] \in Tracks
        BY <3>2, <2>2, <1>a DEF MarkCoded, RecordTypeOK
      <4> QED BY <4>1, <2>2 DEF Tracks
    <3> QED BY <3>1, <3>2, <1>7
  <2>4. \A g : ~AtHand(g)' /\ (AtHand(g) <=> g = f)
    BY <2>1 DEF AtHand
  <2>5. /\ mtq = <<>> /\ \A w \in Workers : worker[w].pc = "get"
    BY <2>1, <1>a, <1>b DEF HandsSound, EncoderUsed
  <2>6. /\ \A g : ~InQueue(g) /\ ~InQueue(g)'
        /\ NoneTwice'
        /\ \A w \in Workers : ~Held(w) /\ ~Held(w)'
    BY <2>1, <2>5 DEF InQueue, NoneTwice, Held
  <2> HIDE DEF f
  <2>7. NoneForgotten'
    BY <2>1, <2>2, <2>3, <2>4, <2>6, <1>a DEF HandsSound, NoneForgotten
  <2>8. QueueSound' /\ HoldersSound'
    BY <2>6 DEF QueueSound, HoldersSound
  <2>9. EncoderUsed'
    BY <2>1, <1>a DEF HandsSound, EncoderUsed
  <2> QED BY <2>7, <2>8, <2>9 DEF HandsSound
<1>8. CASE Save
  <2>1. /\ rpc = "save" /\ rpc' \in {"close", "save"} /\ toSave # <<>>
        /\ toSave' = Tail(toSave) /\ track[Front].coded
        /\ track' = [g \in DOMAIN track \ {Front} |-> track[g]]
        /\ UNCHANGED <<mtq, worker, opt>>
    BY <1>8 DEF Save, FrontCoded
  <2>2. Buffered' = Buffered \ {Front} /\ Front \in Buffered
    BY <2>1, <1>a, SaveBuffer DEF RecordTypeOK
  <2>3. \A g : ~AtHand(g) /\ ~AtHand(g)'
    BY <2>1 DEF AtHand
  <2>4. /\ \A g : InQueue(g)' <=> InQueue(g)
        /\ NoneTwice' <=> NoneTwice
        /\ \A w \in Workers : Held(w)' <=> Held(w)
    BY <2>1 DEF InQueue, NoneTwice, Held
  <2>5. \A g \in Buffered' : g \in Buffered /\ track'[g] = track[g]
    BY <2>1, <2>2, <1>d
  <2>6. QueueSound'
    BY <2>1, <2>2, <2>3, <2>4, <2>5, <1>a DEF HandsSound, QueueSound
  <2>7. HoldersSound'
    BY <2>1, <2>2, <2>3, <2>4, <2>5, <1>a DEF HandsSound, HoldersSound
  <2>8. NoneForgotten'
    BY <2>1, <2>2, <2>3, <2>4, <2>5, <1>a DEF HandsSound, NoneForgotten
  <2>9. EncoderUsed'
    BY <2>1, <1>a DEF HandsSound, EncoderUsed
  <2> QED BY <2>6, <2>7, <2>8, <2>9 DEF HandsSound
<1>9. CASE Close
  <2>1. /\ rpc = "close" /\ rpc' = "wait"
        /\ mtq' = IF opt.encoder = "mt"
                  THEN mtq \o [i \in 1 .. Cardinality(Workers) |-> HangUp]
                  ELSE mtq
        /\ UNCHANGED <<toSave, track, worker, opt>>
    BY <1>9 DEF Close
  <2>2. UNCHANGED Buffered /\ \A g : ~AtHand(g) /\ ~AtHand(g)'
    BY <2>1 DEF AtHand, Buffered
  <2>3. CASE opt.encoder # "mt"
    BY <2>1, <2>2, <2>3, <1>a, HandsQuiet
  <2>4. CASE opt.encoder = "mt"
    <3>1. /\ \A g \in Nat : InQueue(g)' <=> InQueue(g)
          /\ NoneTwice => NoneTwice'
      BY <2>1, <2>4, <1>a, QueueClose, WorkersFinite
    <3>2. \A w \in Workers : Held(w)' <=> Held(w)
      BY <2>1 DEF Held
    <3>3. QueueSound'
      BY <2>1, <2>2, <3>1, <1>a DEF HandsSound, QueueSound
    <3>4. HoldersSound'
      BY <2>1, <2>2, <3>1, <3>2, <1>a, <1>c DEF HandsSound, HoldersSound
    <3>5. NoneForgotten'
      BY <2>1, <2>2, <3>1, <3>2, <1>a DEF HandsSound, NoneForgotten
    <3> QED BY <2>1, <2>4, <3>3, <3>4, <3>5 DEF HandsSound, EncoderUsed
  <2> QED BY <2>3, <2>4
<1>10. CASE Finish
  <2>1. /\ rpc' = "done" /\ UNCHANGED <<mtq, worker, opt>>
        /\ opt.encoder = "mt" => \A w \in Workers : worker[w].pc = "exit"
    BY <1>10 DEF Finish
  <2>2. \A w \in Workers : ~Held(w)'
    BY <2>1, <1>a, <1>b DEF HandsSound, EncoderUsed, Held
  <2> QED BY <2>1, <2>2, <1>a
          DEF HandsSound, QueueSound, HoldersSound, NoneForgotten, EncoderUsed
<1>11. ASSUME NEW w \in Workers, WorkerStep(w)
       PROVE  /\ opt.encoder = "mt" /\ EncoderUsed'
              /\ UNCHANGED <<rpc, lastcoded, opt, Buffered>>
              /\ \A v \in Workers : v # w => worker'[v] = worker[v]
              /\ rpc # "done" /\ DOMAIN track = Buffered
  <2>1. /\ \A v \in Workers : v # w => worker'[v] = worker[v]
        /\ worker[w].pc # "exit" /\ (mtq # <<>> \/ worker[w].pc # "get")
    BY <1>11, <1>a
    DEF WorkerStep, GetFrame, EncodeFrame, Deliver, Miss, MarkError,
        GetHangUp, RecordTypeOK
  <2>2. UNCHANGED <<rpc, lastcoded, opt, Buffered>>
    BY <1>11, <1>a, WorkerTracks DEF mtOthers
  <2>3. opt.encoder = "mt" /\ rpc # "done" /\ EncoderUsed'
    BY <2>1, <2>2, <1>a, <1>b DEF HandsSound, EncoderUsed
  <2> QED BY <2>1, <2>2, <2>3, <1>d
<1>12. ASSUME NEW w \in Workers, GetFrame(w) PROVE HandsSound'
  <2> DEFINE f == Head(mtq)
  <2>0. /\ opt.encoder = "mt" /\ EncoderUsed'
        /\ UNCHANGED <<rpc, lastcoded, opt, Buffered>>
        /\ \A v \in Workers : v # w => worker'[v] = worker[v]
        /\ rpc # "done"
    BY <1>11, <1>12 DEF WorkerStep
  <2>1. /\ worker[w].pc = "get" /\ mtq # <<>> /\ f # HangUp
        /\ mtq' = Tail(mtq) /\ UNCHANGED track
        /\ worker'[w].pc \in {"encode", "check"} /\ worker'[w].frame = f
    BY <1>12, <1>a DEF GetFrame, RecordTypeOK
  <2>2. f \in Nat
    BY <2>1, <1>a DEF QueueType
  <2>3. /\ NoneTwice' /\ InQueue(f)
        /\ \A g \in Nat : InQueue(g)' <=> InQueue(g) /\ g # f
    BY <2>0, <2>1, <1>a, QueueGet DEF HandsSound, QueueSound
  <2>4. /\ \A g : AtHand(g)' <=> AtHand(g)
        /\ \A v \in Workers : Held(v)' <=> Held(v) \/ v = w
    BY <2>0, <2>1 DEF AtHand, Held
  <2>5. ~Held(w) /\ \A v \in Workers : Held(v) => worker[v].frame # f
    BY <2>1, <2>3, <1>a DEF HandsSound, HoldersSound, Held
  <2>6. f \in Buffered /\ ~track[f].coded /\ ~AtHand(f)
    BY <2>0, <2>2, <2>3, <1>a DEF HandsSound, QueueSound
  <2> HIDE DEF f
  <2>7. QueueSound'
    BY <2>0, <2>1, <2>3, <2>4, <1>a DEF HandsSound, QueueSound
  <2>8. HoldersSound'
    <3>1. ASSUME NEW v \in Workers, Held(v)'
          PROVE  /\ rpc' # "done" /\ worker'[v].frame \in Buffered'
                 /\ ~track'[worker'[v].frame].coded
                 /\ ~AtHand(worker[v].frame)' /\ ~InQueue(worker[v].frame)'
      <4>1. CASE v = w
        BY <4>1, <2>0, <2>1, <2>2, <2>3, <2>4, <2>6
      <4>2. CASE v # w
        <5>1. Held(v) /\ worker'[v] = worker[v] /\ worker[v].frame \in Nat
          BY <4>2, <3>1, <2>0, <2>4, <1>c
        <5> QED BY <5>1, <2>0, <2>1, <2>3, <2>4, <1>a
                DEF HandsSound, HoldersSound
      <4> QED BY <4>1, <4>2
    <3>2. ASSUME NEW u \in Workers, NEW v \in Workers, Held(u)', Held(v)',
                 worker'[u].frame = worker'[v].frame
          PROVE  u = v
      BY <3>2, <2>0, <2>1, <2>4, <2>5, <1>a DEF HandsSound, HoldersSound
    <3> QED BY <3>1, <3>2 DEF HoldersSound
  <2>9. NoneForgotten'
    <3>1. ASSUME NEW g \in Buffered', ~track'[g].coded,
                 ~AtHand(g)', ~InQueue(g)'
          PROVE  \E v \in Workers : Held(v)' /\ worker'[v].frame = g
      <4>1. CASE g = f
        BY <4>1, <2>1, <2>4
      <4>2. CASE g # f
        <5>1. PICK v \in Workers : Held(v) /\ worker[v].frame = g
          BY <4>2, <3>1, <2>0, <2>1, <2>3, <2>4, <1>a
          DEF HandsSound, NoneForgotten
        <5> QED BY <5>1, <2>0, <2>4, <2>5
      <4> QED BY <4>1, <4>2
    <3>2. ASSUME NEW g \in Buffered', track'[g].coded PROVE ~AtHand(g)'
      BY <3>2, <2>0, <2>1, <2>4, <1>a DEF HandsSound, NoneForgotten
    <3> QED BY <3>1, <3>2 DEF NoneForgotten
  <2> QED BY <2>0, <2>7, <2>8, <2>9 DEF HandsSound
<1>13. ASSUME NEW w \in Workers, EncodeFrame(w) \/ MarkError(w) \/ GetHangUp(w)
       PROVE  HandsSound'
  <2>0. /\ opt.encoder = "mt" /\ EncoderUsed'
        /\ UNCHANGED <<rpc, lastcoded, opt, Buffered>>
        /\ \A v \in Workers : v # w => worker'[v] = worker[v]
        /\ rpc # "done" /\ DOMAIN track = Buffered
    BY <1>11, <1>13 DEF WorkerStep
  <2>1. /\ Held(w)' <=> Held(w)
        /\ Held(w) => worker'[w].frame = worker[w].frame
    BY <1>13, <1>a DEF EncodeFrame, MarkError, GetHangUp, Held, RecordTypeOK,
                       Again, Idle
  <2>2. \A g \in Buffered : track'[g].coded <=> track[g].coded
    <3>1. CASE MarkError(w)
      <4>1. ASSUME NEW g \in Buffered
            PROVE  track'[g].coded <=> track[g].coded
        <5>1. track'[g] = IF g = worker[w].frame
                          THEN [track[g] EXCEPT !.error = TRUE]
                          ELSE track[g]
          BY <3>1, <2>0 DEF MarkError
        <5>2. track[g] \in Tracks
          BY <2>0, <1>a DEF RecordTypeOK
        <5> QED BY <5>1, <5>2 DEF Tracks
      <4> QED BY <4>1
    <3>2. CASE EncodeFrame(w) \/ GetHangUp(w)
      BY <3>2 DEF EncodeFrame, GetHangUp
    <3> QED BY <3>1, <3>2, <1>13
  <2>3. NoneTwice' /\ \A g \in Nat : InQueue(g)' <=> InQueue(g)
    <3>1. NoneTwice
      BY <2>0, <1>a DEF HandsSound, QueueSound
    <3>2. CASE EncodeFrame(w) \/ MarkError(w)
      <4>1. UNCHANGED mtq
        BY <3>2 DEF EncodeFrame, MarkError
      <4> QED BY <4>1, <3>1 DEF NoneTwice, InQueue
    <3>3. CASE GetHangUp(w)
      <4>1. mtq # <<>> /\ Head(mtq) = HangUp /\ mtq' = Tail(mtq)
        BY <3>3 DEF GetHangUp
      <4> QED BY <4>1, <3>1, <1>a, QueueGet, Constants
    <3> QED BY <3>2, <3>3, <1>13
  <2>4. /\ \A g : AtHand(g)' <=> AtHand(g)
        /\ \A v \in Workers : /\ Held(v)' <=> Held(v)
                              /\ Held(v) => worker'[v].frame = worker[v].frame
    BY <2>0, <2>1 DEF AtHand, Held
  <2>5. QueueSound'
    BY <2>0, <2>2, <2>3, <2>4, <1>a DEF HandsSound, QueueSound
  <2>6. HoldersSound'
    BY <2>0, <2>2, <2>3, <2>4, <1>a, <1>c DEF HandsSound, HoldersSound
  <2>7. NoneForgotten'
    BY <2>0, <2>2, <2>3, <2>4, <1>a DEF HandsSound, NoneForgotten
  <2> QED BY <2>0, <2>5, <2>6, <2>7 DEF HandsSound
<1>14. ASSUME NEW w \in Workers, Deliver(w) \/ Miss(w) PROVE HandsSound'
  <2>0. /\ EncoderUsed' /\ UNCHANGED <<rpc, lastcoded, opt, Buffered>>
        /\ \A v \in Workers : v # w => worker'[v] = worker[v]
        /\ DOMAIN track = Buffered
    BY <1>11, <1>14 DEF WorkerStep
  <2>1. /\ Held(w) /\ ~Held(w)' /\ UNCHANGED mtq
        /\ track' \in {Coded(worker[w].frame, worker[w].seen),
                       Coded(worker[w].frame, Empty)}
    BY <1>14, <1>a DEF Deliver, Miss, Held, RecordTypeOK, Again, Idle
  <2>2. worker[w].seen \in Data /\ Empty \in Data
    BY <1>a, Constants DEF RecordTypeOK
  <2> QED BY <2>0, <2>1, <2>2, <1>a, HandsDone DEF HandsSound
<1> QED BY <1>1, <1>2, <1>3, <1>4, <1>5, <1>6, <1>7, <1>8, <1>9, <1>10,
           <1>12, <1>13, <1>14
        DEF RecordNext, RecordStep, WorkerStep
-----------------------------------------------------------------------------
(* The pictures *)

\* What is known of the tracks and the threads, with the excuses made.
Faithful ==
  /\ wrong \subseteq {0}
  /\ \A f \in DOMAIN track \ {0} : TrackFits(f)
  /\ \A w \in Workers : worker[w].frame # 0 => WorkerFits(w)

LEMMA FaithfulKept ==
  PictureKept <=> ((opt.encoder = "mt" /\ ~opt.bitc /\ ~mistaken) => Faithful)
  BY DEF PictureKept, Faithful

\* A step that touches neither tracks nor threads nor the ring.
LEMMA FaithfulSame ==
  ASSUME Faithful, UNCHANGED <<stamp, unready, track, worker, wrong>>
  PROVE  Faithful'
  BY DEF Faithful, TrackFits, WorkerFits, Fits

LEMMA PictureStep ==
  RecordInv /\ [RecordNext]_vars => PictureKept'
<1> SUFFICES ASSUME RecordInv, [RecordNext]_vars,
                    opt'.encoder = "mt", ~opt'.bitc, ~mistaken'
             PROVE  Faithful'
  BY FaithfulKept DEF Faithful, PictureKept
<1>a. /\ RecordTypeOK /\ RingType /\ RingHolds /\ TracksKept
      /\ QueueSound /\ HoldersSound
  BY DEF RecordInv, RecordTypeOK, RingType
<1>b. UNCHANGED opt
  BY DEF RecordNext, RecordStep, WorkerStep, Capture, CaptureDies, Begin,
         Plan, HeartbeatLost, Take, Submit, BeginEncode, EndEncode,
         MarkCoded, Save, SaveNoMore, Close, Finish, GetFrame, EncodeFrame,
         Deliver, Miss, MarkError, GetHangUp, vars, recordVars, mtOthers
<1>c. mistaken' = mistaken \/ \E f : mistaken' = (mistaken \/ f)
  BY DEF RecordNext, RecordStep, WorkerStep, Capture, CaptureDies, Begin,
         Plan, HeartbeatLost, Take, Submit, BeginEncode, EndEncode,
         MarkCoded, Save, SaveNoMore, Close, Finish, GetFrame, EncodeFrame,
         Deliver, Miss, MarkError, GetHangUp, vars, recordVars, mtOthers
<1>d. Faithful
  <2>1. mistaken \in BOOLEAN /\ ~mistaken
    BY <1>a, <1>c DEF RecordTypeOK
  <2> QED BY <2>1, <1>b, FaithfulKept DEF RecordInv
<1>e. \A f \in DOMAIN track :
        f \in Nat /\ f \in Buffered /\ (f # 0 => f \in 1 .. last)
  BY <1>a, LastFrameType DEF TracksKept, RecordTypeOK
<1>f. \A w \in Workers : Held(w) => worker[w].frame \in DOMAIN track
  BY <1>a DEF HoldersSound, TracksKept
<1>g. \A f \in DOMAIN track \ {0} : TrackFits(f)
  BY <1>d DEF Faithful
<1>h. \A w \in Workers : worker[w].frame # 0 => WorkerFits(w)
  BY <1>d DEF Faithful
<1>1. CASE Capture
  <2>1. /\ unready \subseteq unready'
        /\ \A f \in 1 .. last : stamp'[Slot(f)] = f => stamp[Slot(f)] = f
        /\ UNCHANGED <<track, worker, wrong>>
    BY <1>1, <1>a, RingStep DEF Capture, recordVars
  <2>2. ASSUME NEW f \in DOMAIN track' \ {0} PROVE TrackFits(f)'
    BY <2>1, <1>g DEF TrackFits, Fits
  <2>3. ASSUME NEW w \in Workers, worker'[w].frame # 0 PROVE WorkerFits(w)'
    <3>1. CASE Held(w)
      BY <3>1, <2>3, <2>1, <1>e, <1>f, <1>h DEF WorkerFits, Fits
    <3>2. CASE ~Held(w)
      BY <3>2, <2>1 DEF WorkerFits, Held
    <3> QED BY <3>1, <3>2
  <2> QED BY <2>1, <2>2, <2>3, <1>d DEF Faithful
<1>2. CASE CaptureDies \/ UNCHANGED vars
  <2>1. UNCHANGED <<stamp, unready, track, worker, wrong>>
    BY <1>2 DEF CaptureDies, vars, recordVars, frameRingVars
  <2> QED BY <2>1, <1>d, FaithfulSame
<1>3. CASE Begin \/ Plan \/ HeartbeatLost \/ Submit \/ SaveNoMore \/ Close
  <2>1. UNCHANGED <<stamp, unready, track, worker, wrong>>
    BY <1>3 DEF Begin, Plan, HeartbeatLost, Submit, SaveNoMore, Close,
                frameRingVars
  <2> QED BY <2>1, <1>d, FaithfulSame
<1>4. CASE Take
  <2>a. PICK f \in Nat : f = lastcoded + 1
    BY <1>a DEF RecordTypeOK
  <2>1. /\ track' = [g \in DOMAIN track \cup {f} |->
                       IF g = f THEN InputTrack(f) ELSE track[g]]
        /\ mistaken' = (mistaken \/ stamp[Slot(f)] # f)
        /\ UNCHANGED <<stamp, unready, worker, wrong>>
    BY <1>4, <2>a DEF Take, frameRingVars
  <2>2. TrackFits(f)'
    <3>1. track'[f] = InputTrack(f) /\ stamp[Slot(f)] = f
      BY <2>1
    <3>2. /\ ~InputTrack(f).coded /\ InputTrack(f).src = "ring"
          /\ InputTrack(f).checked /\ InputTrack(f).idx = f
      BY <3>1, <1>b DEF InputTrack, NoTrack
    <3> QED BY <3>1, <3>2 DEF TrackFits
  <2>3. ASSUME NEW g \in DOMAIN track' \ {0}, g # f PROVE TrackFits(g)'
    BY <2>1, <2>3, <1>g DEF TrackFits, Fits
  <2>4. ASSUME NEW w \in Workers, worker'[w].frame # 0 PROVE WorkerFits(w)'
    BY <2>1, <2>4, <1>h DEF WorkerFits, Fits
  <2> QED BY <2>1, <2>2, <2>3, <2>4, <1>d DEF Faithful
<1>5. CASE BeginEncode \/ EndEncode \/ MarkCoded
  BY <1>5, <1>b DEF BeginEncode, EndEncode, MarkCoded, RecordInv, EncoderUsed
<1>6. CASE Save
  <2>1. /\ toSave # <<>> /\ track[Front].coded /\ rpc = "save"
        /\ wrong' \subseteq wrong \cup {Front}
        /\ ~WrittenWrong => wrong' = wrong
        /\ track' = [g \in DOMAIN track \ {Front} |-> track[g]]
        /\ toSave' = Tail(toSave)
        /\ UNCHANGED <<stamp, unready, worker>>
    BY <1>6 DEF Save, FrontCoded, frameRingVars
  <2>2. Front \in DOMAIN track
    BY <2>1, <1>a, SaveBuffer DEF TracksKept, RecordTypeOK
  <2>3. Front # 0 => VideoOf(Front) = track[Front].val
    BY <2>1, <2>2, <1>g DEF TrackFits, VideoOf
  <2>4. Front # 0 => ~WrittenWrong
    BY <2>1, <2>2, <2>3, <1>g DEF TrackFits, WrittenWrong, Foreign, Fits
  <2>5. ASSUME NEW g \in DOMAIN track' \ {0} PROVE TrackFits(g)'
    BY <2>1, <2>5, <1>g DEF TrackFits, Fits
  <2>6. ASSUME NEW w \in Workers, worker'[w].frame # 0 PROVE WorkerFits(w)'
    BY <2>1, <2>6, <1>h DEF WorkerFits, Fits
  <2>7. wrong' \subseteq {0}
    <3>1. wrong \subseteq {0}
      BY <1>d DEF Faithful
    <3> QED BY <3>1, <2>1, <2>4
  <2> QED BY <2>5, <2>6, <2>7 DEF Faithful
<1>7. CASE Finish
  <2>1. DOMAIN track' = {} /\ UNCHANGED <<stamp, unready, worker, wrong>>
    BY <1>7 DEF Finish, frameRingVars
  <2> QED BY <2>1, <1>d DEF Faithful, WorkerFits, Fits
<1>8. ASSUME NEW w \in Workers, WorkerStep(w)
      PROVE  /\ UNCHANGED <<stamp, unready, wrong>>
             /\ \A v \in Workers : v # w /\ worker'[v].frame # 0 => WorkerFits(v)'
  <2>1. UNCHANGED <<stamp, unready, wrong>>
    BY <1>8, <1>a, WorkerTracks DEF mtOthers, frameRingVars
  <2>2. \A v \in Workers : v # w => worker'[v] = worker[v]
    BY <1>8, <1>a
    DEF WorkerStep, GetFrame, EncodeFrame, Deliver, Miss, MarkError,
        GetHangUp, RecordTypeOK
  <2> QED BY <2>1, <2>2, <1>h DEF WorkerFits, Fits
<1>i. \A w \in Workers : Held(w) /\ worker[w].frame # 0 =>
        LET f == worker[w].frame
        IN  /\ f \in 1 .. last /\ track[f].src = "ring" /\ track[f].checked
            /\ track[f].idx = f /\ ~track[f].coded
            /\ Valid(f) <=> stamp[Slot(f)] = f
            /\ VideoOf(f) = data[Slot(f)]
  <2>1. ASSUME NEW w \in Workers, Held(w), worker[w].frame # 0
        PROVE  LET f == worker[w].frame
               IN  /\ f \in 1 .. last /\ track[f].src = "ring"
                   /\ track[f].checked /\ track[f].idx = f
                   /\ ~track[f].coded
                   /\ Valid(f) <=> stamp[Slot(f)] = f
                   /\ VideoOf(f) = data[Slot(f)]
    <3>1. worker[w].frame \in DOMAIN track /\ ~track[worker[w].frame].coded
      BY <2>1, <1>a, <1>f DEF HoldersSound
    <3> QED BY <3>1, <2>1, <1>e, <1>g DEF TrackFits, Valid, VideoOf
  <2> QED BY <2>1
<1>9. ASSUME NEW w \in Workers, GetFrame(w) PROVE Faithful'
  <2> DEFINE f == Head(mtq)
  <2>1. /\ mtq # <<>> /\ f # HangUp /\ UNCHANGED track
        /\ worker'[w] = IF Valid(f)
                        THEN [pc |-> "encode", frame |-> f,
                              seen |-> VideoOf(f)]
                        ELSE [pc |-> "check", frame |-> f, seen |-> Empty]
    BY <1>9, <1>a DEF GetFrame, RecordTypeOK
  <2>2. f \in Nat /\ InQueue(f)
    <3>1. mtq \in Seq(Nat \cup {HangUp}) /\ 1 \in 1 .. Len(mtq) /\ mtq[1] = f
      BY <2>1, <1>a, TailElements DEF RecordTypeOK
    <3> QED BY <3>1, <2>1 DEF InQueue
  <2>3. f \in DOMAIN track /\ ~track[f].coded
    <3>1. rpc # "done"
      BY <1>9, <1>b DEF GetFrame, RecordInv, EncoderUsed
    <3> QED BY <3>1, <2>2, <1>a DEF QueueSound, TracksKept
  <2>4. f # 0 => /\ f \in 1 .. last /\ Valid(f) <=> stamp[Slot(f)] = f
                 /\ VideoOf(f) = data[Slot(f)]
    BY <2>3, <1>e, <1>g DEF TrackFits, Valid, VideoOf
  <2>5. f # 0 /\ stamp[Slot(f)] = f => Fits(f, data[Slot(f)])
    BY <2>4, <1>a DEF RingHolds, Fits
  <2>6. worker'[w].frame # 0 => WorkerFits(w)'
    <3> SUFFICES ASSUME worker'[w].frame # 0 PROVE WorkerFits(w)'
      OBVIOUS
    <3>1. UNCHANGED <<stamp, unready>>
      BY <1>8, <1>9 DEF WorkerStep
    <3>2. worker'[w].frame = f /\ f # 0
      BY <2>1
    <3>3. CASE Valid(f)
      BY <3>1, <3>2, <3>3, <2>1, <2>4, <2>5 DEF WorkerFits, Fits
    <3>4. CASE ~Valid(f)
      BY <3>1, <3>2, <3>4, <2>1, <2>4 DEF WorkerFits
    <3> QED BY <3>3, <3>4
  <2>7. \A g \in DOMAIN track' \ {0} : TrackFits(g)'
    BY <2>1, <1>8, <1>9, <1>g DEF TrackFits, Fits, WorkerStep
  <2> QED BY <2>6, <2>7, <1>8, <1>9, <1>d DEF Faithful, WorkerStep
<1>10. ASSUME NEW w \in Workers, EncodeFrame(w) PROVE Faithful'
  <2> DEFINE f == worker[w].frame
  <2>1. /\ worker[w].pc = "encode" /\ UNCHANGED track
        /\ worker'[w].pc = "check" /\ worker'[w].frame = f
        /\ worker'[w].seen = Encoded(f, worker[w].seen)
    BY <1>10, <1>a DEF EncodeFrame, RecordTypeOK
  <2>2. f # 0 => f \in 1 .. last /\ VideoOf(f) = data[Slot(f)]
    BY <2>1, <1>i DEF Held
  <2>3. f # 0 /\ stamp[Slot(f)] = f => Fits(f, Encoded(f, worker[w].seen))
    <3>1. ASSUME f # 0, stamp[Slot(f)] = f
          PROVE  Fits(f, data[Slot(f)]) /\ Fits(f, worker[w].seen)
      BY <3>1, <2>1, <2>2, <1>a, <1>h DEF RingHolds, Fits, WorkerFits
    <3> QED BY <3>1, <2>2 DEF Fits, Encoded
  <2>4. worker'[w].frame # 0 => WorkerFits(w)'
    <3>1. UNCHANGED <<stamp, unready>>
      BY <1>8, <1>10 DEF WorkerStep
    <3> QED BY <3>1, <2>1, <2>3 DEF WorkerFits, Fits
  <2>5. \A g \in DOMAIN track' \ {0} : TrackFits(g)'
    BY <2>1, <1>8, <1>10, <1>g DEF TrackFits, Fits, WorkerStep
  <2> QED BY <2>4, <2>5, <1>8, <1>10, <1>d DEF Faithful, WorkerStep
<1>11. ASSUME NEW w \in Workers, Deliver(w) \/ Miss(w) PROVE Faithful'
  <2>a. PICK f \in Nat : f = worker[w].frame
    BY <1>a DEF RecordTypeOK
  <2>1. worker[w].pc = "check" /\ worker'[w].pc \notin {"encode", "check"}
    BY <1>11, <1>a DEF Deliver, Miss, RecordTypeOK, Again, Idle
  <2>2. PICK val \in Data : /\ track' = Coded(f, val)
                            /\ f # 0 => (val = Empty \/ Fits(f, val))
    <3>1. CASE Deliver(w)
      <4>1. f # 0 => stamp[Slot(f)] = f
        BY <3>1, <2>a, <2>1, <1>i DEF Deliver, Held
      <4>2. f # 0 => worker[w].seen = Empty \/ Fits(f, worker[w].seen)
        BY <4>1, <2>a, <2>1, <1>h DEF WorkerFits
      <4> QED BY <3>1, <4>2, <2>a, <1>a DEF Deliver, RecordTypeOK
    <3>2. CASE Miss(w)
      BY <3>2, <2>a, Constants DEF Miss
    <3> QED BY <3>1, <3>2, <1>11
  <2>3. /\ DOMAIN track' = DOMAIN track /\ f \in DOMAIN track
        /\ \A g \in DOMAIN track : g # f => track'[g] = track[g]
        /\ track'[f].coded /\ track'[f].src = "own" /\ track'[f].val = val
    BY <2>a, <2>1, <2>2, <1>a, <1>f, CodedTrack DEF RecordTypeOK, Held
  <2>4. UNCHANGED <<stamp, unready, wrong>>
    BY <1>8, <1>11 DEF WorkerStep
  <2>5. f # 0 => TrackFits(f)'
    BY <2>2, <2>3, <2>4 DEF TrackFits, Fits
  <2>6. ASSUME NEW g \in DOMAIN track' \ {0}, g # f PROVE TrackFits(g)'
    BY <2>3, <2>4, <2>6, <1>g DEF TrackFits, Fits
  <2>7. WorkerFits(w)'
    BY <2>1 DEF WorkerFits
  <2> QED BY <2>4, <2>5, <2>6, <2>7, <1>8, <1>11, <1>d
          DEF Faithful, WorkerStep
<1>12. ASSUME NEW w \in Workers, MarkError(w) \/ GetHangUp(w) PROVE Faithful'
  <2>1. /\ worker'[w].pc \notin {"encode", "check"}
        /\ DOMAIN track' = DOMAIN track
    BY <1>12, <1>a DEF MarkError, GetHangUp, RecordTypeOK, Again, Idle
  <2>2. UNCHANGED <<stamp, unready, wrong>>
    BY <1>8, <1>12 DEF WorkerStep
  <2>3. ASSUME NEW g \in DOMAIN track' \ {0} PROVE TrackFits(g)'
    <3>1. track'[g] \in {track[g], [track[g] EXCEPT !.error = TRUE]}
      BY <2>1, <1>12 DEF MarkError, GetHangUp
    <3>2. track[g] \in Tracks
      BY <2>1, <1>a DEF RecordTypeOK
    <3>3. /\ track'[g].coded = track[g].coded /\ track'[g].src = track[g].src
          /\ track'[g].val = track[g].val /\ track'[g].idx = track[g].idx
          /\ track'[g].checked = track[g].checked
      BY <3>1, <3>2 DEF Tracks
    <3> QED BY <3>3, <2>1, <2>2, <1>g DEF TrackFits, Fits
  <2>4. WorkerFits(w)'
    BY <2>1 DEF WorkerFits
  <2> QED BY <2>2, <2>3, <2>4, <1>8, <1>12, <1>d DEF Faithful, WorkerStep
<1> QED BY <1>1, <1>2, <1>3, <1>4, <1>5, <1>6, <1>7, <1>9, <1>10, <1>11,
           <1>12
        DEF RecordNext, RecordStep, WorkerStep

-----------------------------------------------------------------------------
(* The theorems *)

LEMMA RecordInit_Inv == RecordInit => RecordInv
<1> SUFFICES ASSUME RecordInit PROVE RecordInv
  OBVIOUS
<1>1. RecordTypeOK
  <2>1. /\ Unused \in Data /\ Nothing \in Data
        /\ <<>> \in Seq(Nat) /\ <<>> \in Seq(Nat \cup {HangUp})
    BY DEF Data
  <2>2. /\ last \in Nat \cup {-1} /\ stamp \in [Slots -> Nat]
        /\ data \in [Slots -> Data] /\ stage = "idle" /\ unready = {}
    BY <2>1 DEF RecordInit, FrameRingInit
  <2>3. DOMAIN track = {}
    BY DEF RecordInit
  <2>4. worker \in [Workers -> [pc : {"get", "encode", "check", "error", "exit"},
                               frame : Nat, seen : Data]]
    BY <2>1 DEF RecordInit, Idle
  <2>5. /\ alive \in BOOLEAN /\ overlay \in Data /\ opt \in Options
        /\ rpc = "start" /\ lastcoded \in Nat /\ batch \in Nat
        /\ toSave = <<>> /\ peek \in Data
        /\ written \in Nat /\ skipped \in Nat /\ start \in Nat
        /\ failure = FALSE /\ shutdown = FALSE /\ mistaken = FALSE
        /\ mtq = <<>> /\ wrong = {}
    BY <2>1 DEF RecordInit
  <2> QED BY <2>1, <2>2, <2>3, <2>4, <2>5 DEF RecordTypeOK
<1>2. RingHolds
  BY DEF RecordInit, FrameRingInit, RingHolds
<1>3. TracksKept
  <2>1. Buffered = {} /\ toSave = <<>> /\ DOMAIN track = {} /\ rpc = "start"
    BY DEF RecordInit, Buffered
  <2> QED BY <2>1 DEF TracksKept
<1>4. QueueSound /\ HoldersSound /\ NoneForgotten
  <2>1. /\ \A f : ~InQueue(f)
        /\ \A w \in Workers : ~Held(w)
        /\ Buffered = {} /\ NoneTwice
    BY DEF RecordInit, InQueue, Held, Idle, Buffered, NoneTwice
  <2> QED BY <2>1 DEF QueueSound, HoldersSound, NoneForgotten
<1>5. EncoderUsed
  BY DEF RecordInit, EncoderUsed
<1>6. PictureKept
  BY DEF RecordInit, PictureKept, Idle
<1> QED BY <1>1, <1>2, <1>3, <1>4, <1>5, <1>6 DEF RecordInv

LEMMA RingStays ==
  RecordInv /\ [RecordNext]_vars => RingHolds'
<1> SUFFICES ASSUME RecordInv, [RecordNext]_vars PROVE RingHolds'
  OBVIOUS
<1>1. CASE Capture
  BY <1>1, RingHoldsStep DEF Capture, RecordInv, RecordTypeOK, RingType
<1>2. CASE UNCHANGED frameRingVars
  BY <1>2 DEF frameRingVars, RecordInv, RingHolds, Here, NextFrame
<1>3. Capture \/ UNCHANGED frameRingVars
  BY DEF RecordNext, RecordStep, WorkerStep, CaptureDies, Begin, Plan,
         HeartbeatLost, Take, Submit, BeginEncode, EndEncode, MarkCoded,
         Save, SaveNoMore, Close, Finish, GetFrame, EncodeFrame, Deliver,
         Miss, MarkError, GetHangUp, vars, mtOthers
<1> QED BY <1>1, <1>2, <1>3

LEMMA RecordInvariant == RecordSpec => []RecordInv
<1>1. RecordInit => RecordInv
  BY RecordInit_Inv
<1>2. RecordInv /\ [RecordNext]_vars => RecordInv'
  BY RecordTypeStep, RingStays, TracksStep, HandsStep, PictureStep
  DEF RecordInv, HandsSound
<1> QED BY <1>1, <1>2, PTL DEF RecordSpec

\* Every variable of the record thread and the MtEncoder keeps its type.
THEOREM RecordTypeCorrect == RecordSpec => []RecordTypeOK
<1>1. RecordInv => RecordTypeOK
  BY DEF RecordInv
<1> QED BY <1>1, RecordInvariant, PTL

\* In a finite set, one element or none.
LEMMA AtMostOne ==
  ASSUME NEW S, \A x, y \in S : x = y
  PROVE  Cardinality(S) = IF S = {} THEN 0 ELSE 1
<1>1. CASE S = {}
  BY <1>1, FS_EmptySet
<1>2. CASE S # {}
  <2>1. PICK x \in S : TRUE
    BY <1>2
  <2>2. S = {x}
    BY <2>1
  <2> QED BY <1>2, <2>2, FS_Singleton
<1> QED BY <1>1, <1>2

(***************************************************************************)
(* A frame to be written that is not coded is in exactly one hand: it is   *)
(* queued once, or one thread of the MtEncoder has it, or the record thread*)
(* is about to submit it.  None is encoded twice, none is forgotten.       *)
(***************************************************************************)
THEOREM HeldOnce == RecordSpec => []InOneHand
<1>1. RecordInv => InOneHand
  <2> SUFFICES ASSUME RecordInv, rpc # "done", NEW f \in Buffered
               PROVE  Cardinality(Queued(f)) + Cardinality(Holders(f))
                        + (IF AtHand(f) THEN 1 ELSE 0)
                        = IF track[f].coded THEN 0 ELSE 1
    BY DEF InOneHand, AtHand
  <2>1. f \in Nat /\ f # HangUp
    BY Constants DEF RecordInv, TracksKept, RecordTypeOK
  <2>2. /\ Cardinality(Queued(f)) = IF Queued(f) = {} THEN 0 ELSE 1
        /\ Queued(f) # {} <=> InQueue(f)
    <3>1. \A i, j \in Queued(f) : i = j
      BY <2>1 DEF RecordInv, QueueSound, NoneTwice, Queued
    <3> QED BY <3>1, AtMostOne DEF Queued, InQueue
  <2>3. /\ Cardinality(Holders(f)) = IF Holders(f) = {} THEN 0 ELSE 1
        /\ Holders(f) # {} <=> \E w \in Workers : Held(w) /\ worker[w].frame = f
    <3>1. \A v, w \in Holders(f) : v = w
      BY DEF RecordInv, HoldersSound, Holders, Held
    <3> QED BY <3>1, AtMostOne DEF Holders, Held
  <2>4. CASE track[f].coded
    <3>1. ~InQueue(f) /\ ~AtHand(f)
      BY <2>1, <2>4 DEF RecordInv, QueueSound, NoneForgotten
    <3>2. ~\E w \in Workers : Held(w) /\ worker[w].frame = f
      BY <2>4 DEF RecordInv, HoldersSound
    <3> QED BY <2>2, <2>3, <2>4, <3>1, <3>2
  <2>5. CASE ~track[f].coded
    <3>1. CASE AtHand(f)
      <4>1. ~InQueue(f)
        BY <2>1, <3>1 DEF RecordInv, QueueSound
      <4>2. ~\E w \in Workers : Held(w) /\ worker[w].frame = f
        BY <3>1 DEF RecordInv, HoldersSound
      <4> QED BY <2>2, <2>3, <2>5, <3>1, <4>1, <4>2
    <3>2. CASE ~AtHand(f) /\ InQueue(f)
      <4>1. ~\E w \in Workers : Held(w) /\ worker[w].frame = f
        BY <3>2 DEF RecordInv, HoldersSound
      <4> QED BY <2>2, <2>3, <2>5, <3>2, <4>1
    <3>3. CASE ~AtHand(f) /\ ~InQueue(f)
      <4>1. \E w \in Workers : Held(w) /\ worker[w].frame = f
        BY <2>5, <3>3 DEF RecordInv, NoneForgotten
      <4> QED BY <2>2, <2>3, <2>5, <3>3, <4>1
    <3> QED BY <3>1, <3>2, <3>3
  <2> QED BY <2>4, <2>5
<1> QED BY <1>1, RecordInvariant, PTL

(***************************************************************************)
(* Checking the frame number in the ring before and after encoding is      *)
(* enough for every frame but 0: no picture but the frame's own is written *)
(* as good, whatever the capture daemon overwrites, if each frame was      *)
(* still in the ring when the record thread took it.  Frame 0, the first   *)
(* of the daemon, has the number of a cleared element: the checks pass     *)
(* while its element is filled again, and a torn picture may be written.   *)
(***************************************************************************)
THEOREM PicturesFaithful == RecordSpec => []VideoFaithful
<1>1. RecordInv => VideoFaithful
  BY DEF RecordInv, PictureKept, VideoFaithful
<1> QED BY <1>1, RecordInvariant, PTL
=============================================================================
