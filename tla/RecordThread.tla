---------------------------- MODULE RecordThread ----------------------------
(***************************************************************************)
(* A record thread of the recorder, start_record_thread(), recording one   *)
(* channel from the ring in shared memory, with the threads of its         *)
(* MtEncoder.  Frames are taken from the ring without copying them, encoded*)
(* in the background and written to file in the order they were taken.     *)
(***************************************************************************)
EXTENDS FrameRing, FiniteSets, Sequences

CONSTANTS
  Workers,         \* the threads of the MtEncoder
  Options,         \* the settings an encoding may have: [encoder, bitc]
  Target,          \* mTargetDuration in frames
  SearchLimit,     \* frames CheckStartTimecode() searches back
  MaxAhead,        \* frames it predicts ahead (4 in the code)
  CaptureMayDie,   \* whether the capture daemon may stop
  StartAt,         \* bound: values of lastframe when the recording starts
  MaxLag,          \* bound: frames the capture daemon gets ahead of encoding
  MaxFrame         \* bound: frames published in a behaviour

\* MtEncoder, an encoder in the record thread, or no encoding (ENCODER_UNC)
Encoders == {"mt", "inline", "raw"}

ASSUME RecordAssumption ==
  /\ RingLen >= 4
  /\ IsFiniteSet(Workers) /\ Workers # {}
  /\ Options \subseteq [encoder : Encoders, bitc : BOOLEAN]
  /\ CaptureMayDie \in BOOLEAN
  /\ Target \in Nat \ {0}
  /\ SearchLimit \in Nat \ {0} /\ MaxAhead \in Nat /\ MaxFrame \in Nat
  /\ MaxLag \in Nat /\ StartAt \subseteq Nat \cup {-1}

Empty  == -4  \* zero size
HangUp == -5  \* the MB_HANGUP message
Nothing == -6 \* no coded data yet

VARIABLES
  alive,      \* is the capture daemon's heartbeat less than 5 s old?
  \* record thread
  opt,        \* RecordOptions: encoder, and is the timecode burnt in?
  overlay,    \* picture in tc_overlay_buffer
  rpc,        \* where it is
  lastcoded,  \* last frame taken and queued for coding
  batch,      \* frames of this round of the loop still to be taken
  toSave,     \* frames_to_save
  track,      \* video track of each frame in encode_frame_buffer
  peek,       \* data an encoder running in the record thread started with
  written,    \* FramesWritten()
  skipped,    \* FramesDropped()
  failure,    \* NoteFailure() was called
  start,      \* start_frame
  \* MtEncoder
  mtq,        \* message queue
  shutdown,   \* mShutdown
  worker,     \* [pc, frame, seen] of each thread
  \* history
  wrong,      \* frames written as good with a picture not their own
  mistaken    \* a frame was taken from an element that has another number

recordVars == <<alive, opt, overlay, rpc, lastcoded, batch, toSave, track,
                peek, written, skipped, failure, start, mtq, shutdown, worker,
                wrong, mistaken>>
vars == <<frameRingVars, recordVars>>

Allowed == RingLen - 3                    \* allowed_backlog
Front == Head(toSave)
LastFrame == IF last < 0 THEN 0 ELSE last \* 0 before there is a frame, too
Buffered == {toSave[i] : i \in 1 .. Len(toSave)}
NoTrack == [idx |-> 0, checked |-> FALSE, src |-> "own", val |-> Nothing,
            coded |-> FALSE, error |-> FALSE]
Idle == [pc |-> "get", frame |-> 0, seen |-> Nothing]

RecordInit ==
  /\ FrameRingInit
  /\ alive = TRUE /\ overlay = Nothing /\ opt \in Options
  /\ rpc = "start" /\ lastcoded = 0 /\ batch = 0 /\ toSave = <<>>
  /\ track = [f \in {} |-> NoTrack] /\ peek = Nothing
  /\ written = 0 /\ skipped = 0 /\ failure = FALSE /\ start = 0
  /\ mtq = <<>> /\ shutdown = FALSE
  /\ worker = [w \in Workers |-> Idle]
  /\ wrong = {} /\ mistaken = FALSE

-----------------------------------------------------------------------------
(* The capture daemon *)

\* how far the encoders, and then the record thread, are behind
Lag == (IF toSave # <<>> /\ rpc # "done" /\ ~track[Front].coded
        THEN Len(toSave) ELSE 0)
       + (IF rpc = "start" THEN 0 ELSE LastFrame - lastcoded)

Capture ==
  /\ alive /\ last < MaxFrame /\ Lag < MaxLag
  /\ FrameRingNext
  /\ UNCHANGED recordVars

CaptureDies ==
  /\ CaptureMayDie /\ alive
  /\ alive' = FALSE
  /\ UNCHANGED <<frameRingVars, opt, overlay, rpc, lastcoded, batch, toSave,
                 track, peek, written, skipped, failure, start, mtq, shutdown,
                 worker, wrong, mistaken>>

-----------------------------------------------------------------------------
(* EncodeFrameTrack *)

ValidAlways(f) == TRUE   \* mutant of Valid: no check

\* Valid(): is the input data still in memory?
Valid(f) == ~track[f].checked \/ stamp[Slot(f)] = track[f].idx

\* what a read of the video data gives just now
VideoOf(f) ==
  CASE track[f].src = "ring"    -> data[Slot(f)]
    [] track[f].src = "overlay" -> overlay
    [] track[f].src = "own"     -> track[f].val

\* what an encoder makes of data that it read as was at first
Encoded(f, was) == IF VideoOf(f) = was THEN was ELSE Torn

\* mutant of Coded: the flag is left out
CodedUnmarked(f, val) == [track EXCEPT ![f].checked = FALSE, ![f].src = "own",
                                       ![f].val = val]

\* Init() with coded data
Coded(f, val) == [track EXCEPT ![f].checked = FALSE, ![f].src = "own",
                               ![f].val = val, ![f].coded = TRUE]

\* a frame that is not what the capture daemon published as frame f
Foreign(f, d) == d # f /\ f \notin unready

-----------------------------------------------------------------------------
(* The record thread *)

\* CheckStartTimecode() found the frame, or predicted it.  It may be frame 0,
\* the capture daemon's first, even if that is not published yet.  The search
\* may also go on below frame 0, where it reads what lies before the ring in
\* memory: that this matches is left out.
Begin ==
  /\ rpc = "start" /\ last \in StartAt
  /\ \E f \in (LastFrame - SearchLimit + 1) .. (LastFrame + MaxAhead) :
       /\ f >= 0
       /\ start' = f
       /\ lastcoded' = f - 1
  /\ rpc' = "loop"
  /\ UNCHANGED <<frameRingVars, alive, opt, overlay, batch, toSave, track,
                 peek, written, skipped, failure, mtq, shutdown, worker,
                 wrong, mistaken>>

\* mutant of Excess: the whole backlog is dropped
ExcessAll ==
  IF LastFrame - lastcoded > Allowed THEN LastFrame - lastcoded ELSE 0

\* new frames: a backlog the ring cannot hold is dropped
Excess ==
  IF LastFrame - lastcoded > Allowed THEN LastFrame - lastcoded - Allowed
  ELSE 0

\* mutant of Plan: dropped frames are not counted
PlanUncounted ==
  /\ rpc = "loop" /\ LastFrame > lastcoded
  /\ lastcoded' = lastcoded + Excess
  /\ batch' = LastFrame - lastcoded - Excess
  /\ rpc' = "take"
  /\ UNCHANGED <<frameRingVars, alive, opt, overlay, toSave, track, peek,
                 written, skipped, failure, start, mtq, shutdown, worker,
                 wrong, mistaken>>

Plan ==
  /\ rpc = "loop" /\ LastFrame > lastcoded
  /\ lastcoded' = lastcoded + Excess
  /\ skipped' = skipped + Excess
  /\ batch' = LastFrame - lastcoded - Excess
  /\ rpc' = "take"
  /\ UNCHANGED <<frameRingVars, alive, opt, overlay, toSave, track, peek,
                 written, failure, start, mtq, shutdown, worker, wrong,
                 mistaken>>

\* "Shared memory lost - stopping recording!"
HeartbeatLost ==
  /\ rpc = "loop" /\ LastFrame = lastcoded /\ ~alive
  /\ failure' = TRUE
  /\ rpc' = "close"
  /\ UNCHANGED <<frameRingVars, alive, opt, overlay, lastcoded, batch, toSave,
                 track, peek, written, skipped, start, mtq, shutdown, worker,
                 wrong, mistaken>>

\* Init() with input data: the video track points at the ring, or at the copy
\* with the timecode burnt in, which has no frame number to check
InputTrack(f) ==
  [NoTrack EXCEPT !.idx = stamp[Slot(f)], !.checked = ~opt.bitc,
                  !.src = IF opt.bitc THEN "overlay" ELSE "ring"]

\* point the tracks at the ring; the frame number is whatever the element has
Take ==
  LET f == lastcoded + 1
  IN  /\ rpc = "take"
      /\ toSave' = Append(toSave, f)
      /\ track' = [g \in DOMAIN track \cup {f} |->
                     IF g = f THEN InputTrack(f) ELSE track[g]]
      /\ overlay' = IF opt.bitc THEN data[Slot(f)] ELSE overlay
      /\ mistaken' = (mistaken \/ stamp[Slot(f)] # f)
      /\ rpc' = "submit"
      /\ UNCHANGED <<frameRingVars, alive, opt, lastcoded, batch, peek,
                     written, skipped, failure, start, mtq, shutdown, worker,
                     wrong>>

\* queue the video for the MtEncoder; sound is marked as coded at once
Submit ==
  /\ rpc = "submit" /\ opt.encoder = "mt"
  /\ mtq' = Append(mtq, lastcoded + 1)
  /\ lastcoded' = lastcoded + 1
  /\ rpc' = "save"
  /\ UNCHANGED <<frameRingVars, alive, opt, overlay, batch, toSave, track,
                 peek, written, skipped, failure, start, shutdown, worker,
                 wrong, mistaken>>

\* or encode it here ...
BeginEncode ==
  /\ rpc = "submit" /\ opt.encoder = "inline"
  /\ peek' = VideoOf(lastcoded + 1)
  /\ rpc' = "encode"
  /\ UNCHANGED <<frameRingVars, alive, opt, overlay, lastcoded, batch, toSave,
                 track, written, skipped, failure, start, mtq, shutdown,
                 worker, wrong, mistaken>>

EndEncode ==
  LET f == lastcoded + 1
  IN  /\ rpc = "encode"
      /\ track' = Coded(f, Encoded(f, peek))
      /\ peek' = Nothing
      /\ lastcoded' = f
      /\ rpc' = "save"
      /\ UNCHANGED <<frameRingVars, alive, opt, overlay, batch, toSave,
                     written, skipped, failure, start, mtq, shutdown, worker,
                     wrong, mistaken>>

\* ... or mark it as coded where it is
MarkCoded ==
  /\ rpc = "submit" /\ opt.encoder = "raw"
  /\ track' = [track EXCEPT ![lastcoded + 1].coded = TRUE]
  /\ lastcoded' = lastcoded + 1
  /\ rpc' = "save"
  /\ UNCHANGED <<frameRingVars, alive, opt, overlay, batch, toSave, peek,
                 written, skipped, failure, start, mtq, shutdown, worker,
                 wrong, mistaken>>

FrontCoded == toSave # <<>> /\ track[Front].coded

\* the picture that goes to file is not the frame's own
WrittenWrong == VideoOf(Front) # Empty /\ Foreign(Front, VideoOf(Front))

\* write the frame at the front of the queue and forget it
Save ==
  /\ rpc = "save" /\ FrontCoded
  /\ failure' = (failure \/ track[Front].error)
  /\ wrong' = IF ~track[Front].error /\ WrittenWrong
              THEN wrong \cup {Front} ELSE wrong
  /\ track' = [g \in DOMAIN track \ {Front} |-> track[g]]
  /\ toSave' = Tail(toSave)
  /\ written' = written + 1
  /\ rpc' = IF written' + skipped >= Target THEN "close" ELSE "save"
  /\ UNCHANGED <<frameRingVars, alive, opt, overlay, lastcoded, batch, peek,
                 skipped, start, mtq, shutdown, worker, mistaken>>

\* nothing to write yet: take the next frame, or look for new ones
SaveNoMore ==
  /\ rpc = "save" /\ ~FrontCoded
  /\ batch' = batch - 1
  /\ rpc' = IF batch' > 0 THEN "take" ELSE "loop"
  /\ UNCHANGED <<frameRingVars, alive, opt, overlay, lastcoded, toSave, track,
                 peek, written, skipped, failure, start, mtq, shutdown,
                 worker, wrong, mistaken>>

\* mutant of Close: one message in all
CloseOnce ==
  /\ rpc = "close" /\ rpc' = "wait"
  /\ mtq' = IF opt.encoder = "mt" THEN Append(mtq, HangUp) ELSE mtq
  /\ UNCHANGED <<frameRingVars, alive, opt, overlay, lastcoded, batch, toSave,
                 track, peek, written, skipped, failure, start, shutdown,
                 worker, wrong, mistaken>>

\* MtEncoder::Close(): one message for each thread
Close ==
  /\ rpc = "close"
  /\ mtq' = IF opt.encoder = "mt"
            THEN mtq \o [i \in 1 .. Cardinality(Workers) |-> HangUp]
            ELSE mtq
  /\ rpc' = "wait"
  /\ UNCHANGED <<frameRingVars, alive, opt, overlay, lastcoded, batch, toSave,
                 track, peek, written, skipped, failure, start, shutdown,
                 worker, wrong, mistaken>>

\* ~MtEncoder() waits for the threads; encode_frame_buffer is destroyed
Finish ==
  /\ rpc = "wait"
  /\ opt.encoder = "mt" => \A w \in Workers : worker[w].pc = "exit"
  /\ track' = [f \in {} |-> NoTrack]
  /\ rpc' = "done"
  /\ UNCHANGED <<frameRingVars, alive, opt, overlay, lastcoded, batch, toSave,
                 peek, written, skipped, failure, start, mtq, shutdown,
                 worker, wrong, mistaken>>

-----------------------------------------------------------------------------
(* A thread of the MtEncoder: svc() *)

mtOthers == <<frameRingVars, alive, opt, overlay, rpc, lastcoded, batch,
              toSave, peek, written, skipped, failure, start, wrong,
              mistaken>>

\* while (!mShutdown): the threads that wait for a message do not see it
Again == [Idle EXCEPT !.pc = IF shutdown THEN "exit" ELSE "get"]

\* get a frame; encode it if its input data is still in memory
GetFrame(w) ==
  /\ worker[w].pc = "get"
  /\ mtq # <<>> /\ Head(mtq) # HangUp
  /\ LET f == Head(mtq)
     IN  worker' = [worker EXCEPT ![w] =
                      IF Valid(f)
                      THEN [pc |-> "encode", frame |-> f, seen |-> VideoOf(f)]
                      ELSE [pc |-> "check", frame |-> f, seen |-> Empty]]
  /\ mtq' = Tail(mtq)
  /\ UNCHANGED <<mtOthers, track, shutdown>>

EncodeFrame(w) ==
  /\ worker[w].pc = "encode"
  /\ worker' = [worker EXCEPT ![w].pc = "check",
                              ![w].seen = Encoded(worker[w].frame, @)]
  /\ UNCHANGED <<mtOthers, track, mtq, shutdown>>

\* "Check again the input data is still in memory"
Deliver(w) ==
  /\ worker[w].pc = "check" /\ Valid(worker[w].frame)
  /\ track' = Coded(worker[w].frame, worker[w].seen)
  /\ worker' = [worker EXCEPT ![w] = Again]
  /\ UNCHANGED <<mtOthers, mtq, shutdown>>

\* "Mark as coded, zero size and in error", in that order
Miss(w) ==
  /\ worker[w].pc = "check" /\ ~Valid(worker[w].frame)
  /\ track' = Coded(worker[w].frame, Empty)
  /\ worker' = [worker EXCEPT ![w].pc = "error", ![w].seen = Nothing]
  /\ UNCHANGED <<mtOthers, mtq, shutdown>>

MarkError(w) ==
  /\ worker[w].pc = "error"
  /\ track' = [f \in DOMAIN track |->
                 IF f = worker[w].frame THEN [track[f] EXCEPT !.error = TRUE]
                 ELSE track[f]]
  /\ worker' = [worker EXCEPT ![w] = Again]
  /\ UNCHANGED <<mtOthers, mtq, shutdown>>

GetHangUp(w) ==
  /\ worker[w].pc = "get"
  /\ mtq # <<>> /\ Head(mtq) = HangUp
  /\ mtq' = Tail(mtq)
  /\ shutdown' = TRUE
  /\ worker' = [worker EXCEPT ![w].pc = "exit"]
  /\ UNCHANGED <<mtOthers, track>>

-----------------------------------------------------------------------------
RecordStep == Begin \/ Plan \/ HeartbeatLost \/ Take \/ Submit
              \/ BeginEncode \/ EndEncode \/ MarkCoded
              \/ Save \/ SaveNoMore \/ Close \/ Finish

WorkerStep(w) == GetFrame(w) \/ EncodeFrame(w) \/ Deliver(w) \/ Miss(w)
                 \/ MarkError(w) \/ GetHangUp(w)

RecordNext == Capture \/ CaptureDies \/ RecordStep
              \/ \E w \in Workers : WorkerStep(w)

RecordSpec == RecordInit /\ [][RecordNext]_vars
FairRecordSpec == RecordSpec /\ WF_vars(RecordStep) /\ WF_vars(Capture)
                  /\ \A w \in Workers : WF_vars(WorkerStep(w))

-----------------------------------------------------------------------------
(* Properties *)

Data == Nat \cup {Unused, Torn, Empty, Nothing}
Tracks == [idx : Nat, checked : BOOLEAN, src : {"ring", "overlay", "own"},
           val : Data, coded : BOOLEAN, error : BOOLEAN]

RecordTypeOK ==
  /\ last \in Nat \cup {-1}
  /\ stamp \in [Slots -> Nat]
  /\ data \in [Slots -> Data]
  /\ stage \in {"idle", "cleared", "torn", "filled", "placed", "ready",
                "marked", "faking"}
  /\ unready \subseteq Nat
  /\ alive \in BOOLEAN /\ overlay \in Data /\ opt \in Options
  /\ rpc \in {"start", "loop", "take", "submit", "encode", "save", "close",
              "wait", "done"}
  /\ lastcoded \in Nat \cup {-1} /\ batch \in Nat /\ toSave \in Seq(Nat)
  /\ DOMAIN track \subseteq Nat /\ \A f \in DOMAIN track : track[f] \in Tracks
  /\ peek \in Data
  /\ written \in Nat /\ skipped \in Nat /\ start \in Nat
  /\ failure \in BOOLEAN /\ shutdown \in BOOLEAN /\ mistaken \in BOOLEAN
  /\ mtq \in Seq(Nat \cup {HangUp})
  /\ worker \in [Workers -> [pc : {"get", "encode", "check", "error", "exit"},
                             frame : Nat, seen : Data]]
  /\ wrong \subseteq Nat

(***************************************************************************)
(* Every frame from start_frame on is accounted for exactly once: written, *)
(* dropped because of a backlog, or waiting in frames_to_save.             *)
(***************************************************************************)
Accounting ==
  rpc # "start" =>
    start - 1 + written + skipped + Len(toSave) =
      lastcoded + (IF rpc \in {"submit", "encode"} THEN 1 ELSE 0)

(***************************************************************************)
(* A frame waiting to be written that is not coded yet is in the hands of  *)
(* exactly one party: the message queue, one thread of the MtEncoder, or   *)
(* the record thread that is about to submit it.  Otherwise the record     *)
(* thread would wait for it for ever.                                      *)
(***************************************************************************)
Queued(f) == {i \in 1 .. Len(mtq) : mtq[i] = f}
Holders(f) == {w \in Workers : /\ worker[w].frame = f
                               /\ worker[w].pc \in {"encode", "check"}}
InOneHand ==
  rpc # "done" =>
    \A f \in Buffered :
      Cardinality(Queued(f)) + Cardinality(Holders(f))
        + (IF rpc \in {"submit", "encode"} /\ f = lastcoded + 1 THEN 1 ELSE 0)
        = IF track[f].coded THEN 0 ELSE 1

(***************************************************************************)
(* "Encode the frame (if input data is still in memory)": the checks of    *)
(* the MtEncoder before and after it encodes are enough.  Whatever the     *)
(* capture daemon overwrites meanwhile, no picture but the frame's own is  *)
(* written as good, unless the frame had left the ring when the record     *)
(* thread took it, which the record thread does not check.  Frame 0 is the *)
(* exception: its number is that of a cleared element, so that Valid()     *)
(* holds while the element is being overwritten, and of an element that was*)
(* never filled, and a picture that is torn or not there is written as its *)
(* own.  With a burnt-in timecode all frames share tc_overlay_buffer and   *)
(* nothing is checked.                                                     *)
(***************************************************************************)
VideoFaithful ==
  opt.encoder = "mt" /\ ~opt.bitc => (wrong \subseteq {0} \/ mistaken)

(***************************************************************************)
(* A recording that has begun comes to its end: the target duration is     *)
(* reached, or the loss of the shared memory is noticed, and the threads   *)
(* of the MtEncoder exit.                                                  *)
(***************************************************************************)
Ends == (rpc = "loop") ~> (rpc = "done")
=============================================================================
