----------------------------- MODULE NexusRing -----------------------------
(***************************************************************************)
(* One capture channel of the Ingex capture daemon: the thread that        *)
(* sdi_monitor() runs for an SDI input and the ring of frames it fills in  *)
(* shared memory (NexusBufCtl, NexusFrameData).  The recorder processes    *)
(* read the ring without any lock but the one on lastframe, so what they   *)
(* may rely on is the order of the stores modelled here.                   *)
(*                                                                         *)
(* A picture is identified by the frame period in which the SDI input      *)
(* delivered it, which is also the timecode the daemon gives it.           *)
(***************************************************************************)
EXTENDS Integers

CONSTANTS
  RingLen,        \* p_control->ringlen: number of elements of the ring
  FifoLen,        \* pictures the capture card buffers before it drops one
  GoodPolls,      \* required_good_frames (25 in the code)
  MaxRecover,     \* most frames a recovery may skip over (50 in the code)
  SignalMayFail,  \* whether the SDI signal may disappear
  DmaMayFail,     \* whether sv_fifo_putbuffer() may fail
  MaxNow          \* bound: frame periods in a behaviour

ASSUME RingAssumption ==
  /\ RingLen \in Nat /\ RingLen >= 2
  /\ FifoLen \in Nat \ {0}
  /\ GoodPolls \in Nat \ {0}
  /\ MaxRecover \in Nat
  /\ SignalMayFail \in BOOLEAN
  /\ DmaMayFail \in BOOLEAN
  /\ MaxNow \in Nat

Blank   == -1  \* an element never written
Torn    == -2  \* a picture in the middle of being written
NoVideo == -3  \* the "no video" picture of a dummy frame

VARIABLES
  \* the SDI input and the capture card
  now,        \* the current frame period
  signal,     \* is there a signal in this period?
  fifoErr,    \* the fifo met a bad picture since it was last started
  taken,      \* period of the last picture taken from the fifo
  dropped,    \* sv_fifo_info.dropped
  dma,        \* picture in dma_buffer[chan]
  \* shared memory
  lastframe,  \* pc->lastframe
  hwdrop,     \* pc->hwdrop
  stamp,      \* NexusFrameData.frame_number of each element
  tc,         \* NexusFrameData timecodes of each element
  ok,         \* NexusFrameData.signal_ok of each element
  video,      \* picture (and sound) data of each element
  \* locals of the capture thread
  cpc,        \* where the thread is
  grab,       \* the period of the buffer write_picture() works on
  recover,    \* recover_from_video_loss
  good,       \* good_frames of wait_for_good_signal()
  tickLast,   \* tick_last_dummy_frame
  poll,       \* [tick, num, i]: write_dummy_frames() is at frame i of num
  \* history
  owner,      \* frame for which each element was last filled
  unready,    \* frames published without their own picture in their place
  lost        \* [tick, frame]: when the signal was last found lost, and the
              \* frame that came next

env     == <<now, signal, fifoErr, taken, dropped>>
shm     == <<lastframe, hwdrop, stamp, tc, ok, video>>
locals  == <<dma, cpc, grab, recover, good, tickLast, poll>>
ringVars == <<now, signal, fifoErr, taken, dropped, dma, lastframe, hwdrop,
              stamp, tc, ok, video, cpc, grab, recover, good, tickLast, poll,
              owner, unready, lost>>
history == <<owner, unready, lost>>

Slots == 0 .. RingLen - 1
Slot(frame) == frame % RingLen
Next1 == lastframe + 1            \* the frame the thread is filling
CurPublished == Slot(lastframe)   \* mutant of Cur: overwrite the last one
Cur   == Slot(Next1)              \* and its element

NoPoll == [tick |-> 0, num |-> 0, i |-> 0]
NoLoss == [tick |-> -1, frame |-> 0]

RingInit ==
  /\ now = 0 /\ signal = TRUE /\ fifoErr = FALSE /\ taken = 0 /\ dropped = 0
  /\ dma = Blank
  /\ lastframe = -1 /\ hwdrop = 0
  /\ stamp = [s \in Slots |-> 0]
  /\ tc    = [s \in Slots |-> 0]
  /\ ok    = [s \in Slots |-> FALSE]
  /\ video = [s \in Slots |-> Blank]
  /\ cpc = "get" /\ grab = 0 /\ recover = FALSE
  /\ good = 0 /\ tickLast = -1 /\ poll = NoPoll
  /\ owner = [s \in Slots |-> Blank] /\ unready = {} /\ lost = NoLoss

-----------------------------------------------------------------------------
(* The SDI input: a frame period passes, with or without a good picture.   *)
Tick ==
  /\ now < MaxNow
  /\ now' = now + 1
  /\ signal' \in (IF SignalMayFail THEN BOOLEAN ELSE {TRUE})
  /\ fifoErr' = (fifoErr \/ ~signal')
  /\ UNCHANGED <<taken, dropped, shm, locals, history>>

\* mutant of Picture: the one after the oldest
PictureAhead ==
  IF recover THEN now
  ELSE IF taken + 1 > now - FifoLen + 1 THEN taken + 2 ELSE now - FifoLen + 2

(* sv_fifo_getbuffer(): the next picture, or the newest one when the fifo  *)
(* is flushed.  Pictures that no longer fit in the fifo have been dropped. *)
Picture ==
  LET oldest == IF taken + 1 > now - FifoLen + 1 THEN taken + 1
                ELSE now - FifoLen + 1
  IN  IF recover THEN now ELSE oldest

\* mutant of GetBuffer: the frame number is not cleared
GetBufferUncleared ==
  /\ cpc = "get" /\ ~fifoErr /\ taken < now
  /\ grab' = Picture /\ taken' = Picture
  /\ dropped' = dropped + (IF recover THEN 0 ELSE Picture - taken - 1)
  /\ cpc' = "begin"
  /\ UNCHANGED <<now, signal, fifoErr, shm, dma, recover, good, tickLast, poll,
                 history>>

\* write_picture(), first part: take a buffer and clear the frame number of
\* the element about to be overwritten
GetBuffer ==
  /\ cpc = "get"
  /\ ~fifoErr
  /\ taken < now
  /\ grab' = Picture
  /\ taken' = Picture
  /\ dropped' = dropped + (IF recover THEN 0 ELSE Picture - taken - 1)
  /\ stamp' = [stamp EXCEPT ![Cur] = 0]
  /\ cpc' = "begin"
  /\ UNCHANGED <<now, signal, fifoErr, lastframe, hwdrop, tc, ok, video, dma,
                 recover, good, tickLast, poll, history>>

\* getbuffer failed: sdi_monitor() stops the fifo and waits for a signal
LoseSignal ==
  /\ cpc = "get"
  /\ fifoErr
  /\ good' = 0
  /\ tickLast' = -1
  /\ cpc' = "wait"
  /\ lost' = [tick |-> now, frame |-> Next1]
  /\ UNCHANGED <<env, shm, dma, grab, recover, poll, owner, unready>>

\* sv_fifo_putbuffer() transfers the picture to dma_buffer.  When it fails the
\* fifo is restarted and dma_buffer still holds the picture before.  The first
\* bytes of the ring element are overwritten.
BeginWrite ==
  /\ cpc = "begin"
  /\ \/ /\ dma' = grab
        /\ UNCHANGED <<fifoErr, taken, unready>>
     \/ /\ DmaMayFail
        /\ fifoErr' = ~signal
        /\ taken' = now
        /\ unready' = unready \cup {Next1}
        /\ UNCHANGED dma
  /\ UNCHANGED lost
  /\ video' = [video EXCEPT ![Cur] = Torn]
  /\ owner' = [owner EXCEPT ![Cur] = Torn]
  /\ cpc' = "fill"
  /\ UNCHANGED <<now, signal, dropped, lastframe, hwdrop, stamp, tc, ok, grab,
                 recover, good, tickLast, poll>>

\* the picture and the sound are complete in the element
FillWrite ==
  /\ cpc = "fill"
  /\ video' = [video EXCEPT ![Cur] = dma]
  /\ owner' = [owner EXCEPT ![Cur] = Next1]
  /\ cpc' = "recover"
  /\ UNCHANGED <<env, lastframe, hwdrop, stamp, tc, ok, dma, grab, recover,
                 good, tickLast, poll, unready, lost>>

\* frames missing between the previous frame and this one, by timecode
Missing == grab - tc[Slot(lastframe)] - 1

\* after a loss of signal lastframe is moved on, without the mutex, by the
\* number of missing frames; the picture stays where it was written
Recover ==
  /\ cpc = "recover"
  /\ IF lastframe > -1 /\ recover /\ Missing \in 1 .. MaxRecover
     THEN /\ lastframe' = lastframe + Missing
          /\ unready' = unready \cup (Next1 .. Next1 + Missing)
     ELSE UNCHANGED <<lastframe, unready>>
  /\ cpc' = "stamp"
  /\ UNCHANGED <<env, hwdrop, stamp, tc, ok, video, dma, grab, recover, good,
                 tickLast, poll, owner, lost>>

\* mutant of StampFrame: the signal flag is not set
StampFrameNoFlag ==
  /\ cpc = "stamp" /\ cpc' = "publish"
  /\ tc' = [tc EXCEPT ![Cur] = grab]
  /\ stamp' = [stamp EXCEPT ![Cur] = Next1]
  /\ UNCHANGED <<env, lastframe, hwdrop, ok, video, dma, grab, recover, good,
                 tickLast, poll, history>>

\* timecodes, signal flag and finally the frame number
StampFrame ==
  /\ cpc = "stamp"
  /\ tc' = [tc EXCEPT ![Cur] = grab]
  /\ ok' = [ok EXCEPT ![Cur] = TRUE]
  /\ stamp' = [stamp EXCEPT ![Cur] = Next1]
  /\ cpc' = "publish"
  /\ UNCHANGED <<env, lastframe, hwdrop, video, dma, grab, recover, good,
                 tickLast, poll, history>>

\* mutant of Publish: the drops of the card are not passed on
PublishNoDrops ==
  /\ cpc = "publish" /\ cpc' = "get"
  /\ lastframe' = lastframe + 1
  /\ recover' = FALSE
  /\ UNCHANGED <<env, hwdrop, stamp, tc, ok, video, dma, grab, good, tickLast,
                 poll, history>>

\* "signal frame is now ready": under m_lastframe
Publish ==
  /\ cpc = "publish"
  /\ hwdrop' = dropped
  /\ lastframe' = lastframe + 1
  /\ recover' = FALSE
  /\ cpc' = "get"
  /\ UNCHANGED <<env, stamp, tc, ok, video, dma, grab, good, tickLast, poll,
                 history>>

-----------------------------------------------------------------------------
(* wait_for_good_signal() and write_dummy_frames()                         *)

\* enough good polls: the fifo is reset and started, and capture resumes
SignalRestored ==
  /\ cpc = "wait"
  /\ signal /\ good + 1 = GoodPolls
  /\ recover' = TRUE
  /\ fifoErr' = FALSE
  /\ taken' = now
  /\ cpc' = "get"
  /\ UNCHANGED <<now, signal, dropped, shm, dma, grab, good, tickLast, poll,
                 history>>

\* otherwise as many dummy frames are due as ticks passed since the last one
DummiesDue == IF tickLast = -1 THEN 1 ELSE now - tickLast

PollSignal ==
  /\ cpc = "wait"
  /\ ~(signal /\ good + 1 = GoodPolls)
  /\ good' = good + (IF signal THEN 1 ELSE 0)
  /\ IF DummiesDue > 0
     THEN /\ poll' = [tick |-> now, num |-> DummiesDue, i |-> 0]
          /\ cpc' = "dstamp"
     ELSE UNCHANGED <<poll, cpc>>
  /\ UNCHANGED <<env, shm, dma, grab, recover, tickLast, history>>

\* a dummy frame gets its number first, in order to mark the data as changed
DummyStamp ==
  /\ cpc = "dstamp"
  /\ stamp' = [stamp EXCEPT ![Cur] = Next1]
  /\ cpc' = "dbegin"
  /\ UNCHANGED <<env, lastframe, hwdrop, tc, ok, video, dma, grab, recover,
                 good, tickLast, poll, history>>

DummyBegin ==
  /\ cpc = "dbegin"
  /\ video' = [video EXCEPT ![Cur] = Torn]
  /\ owner' = [owner EXCEPT ![Cur] = Torn]
  /\ cpc' = "dfill"
  /\ UNCHANGED <<env, lastframe, hwdrop, stamp, tc, ok, dma, grab, recover,
                 good, tickLast, poll, unready, lost>>

DummyFill ==
  /\ cpc = "dfill"
  /\ video' = [video EXCEPT ![Cur] = NoVideo]
  /\ owner' = [owner EXCEPT ![Cur] = Next1]
  /\ tc' = [tc EXCEPT ![Cur] = poll.tick + poll.i]
  /\ ok' = [ok EXCEPT ![Cur] = FALSE]
  /\ cpc' = "dpublish"
  /\ UNCHANGED <<env, lastframe, hwdrop, stamp, dma, grab, recover, good,
                 tickLast, poll, unready, lost>>

DummyPublish ==
  /\ cpc = "dpublish"
  /\ lastframe' = lastframe + 1
  /\ tickLast' = poll.tick - poll.num + 1
  /\ IF poll.i + 1 < poll.num
     THEN poll' = [poll EXCEPT !.i = @ + 1] /\ cpc' = "dstamp"
     ELSE poll' = NoPoll /\ cpc' = "wait"
  /\ UNCHANGED <<env, hwdrop, stamp, tc, ok, video, dma, grab, recover, good,
                 history>>

-----------------------------------------------------------------------------
WritePicture == GetBuffer \/ BeginWrite \/ FillWrite \/ Recover \/ StampFrame
                \/ Publish
WriteDummyFrames == DummyStamp \/ DummyBegin \/ DummyFill \/ DummyPublish
SdiMonitor == WritePicture \/ LoseSignal \/ SignalRestored \/ PollSignal
              \/ WriteDummyFrames

RingNext == Tick \/ SdiMonitor

RingSpec == RingInit /\ [][RingNext]_ringVars

-----------------------------------------------------------------------------
(* Properties                                                              *)

Periods == 0 .. MaxNow

TypeOK ==
  /\ now \in Periods /\ taken \in Periods /\ grab \in Periods
  /\ signal \in BOOLEAN /\ fifoErr \in BOOLEAN /\ recover \in BOOLEAN
  /\ dropped \in Nat /\ hwdrop \in Nat /\ good \in Nat
  /\ dma \in Periods \cup {Blank}
  /\ lastframe \in Nat \cup {-1}
  /\ stamp \in [Slots -> Nat]
  /\ tc \in [Slots -> Nat]
  /\ ok \in [Slots -> BOOLEAN]
  /\ video \in [Slots -> Periods \cup {Blank, Torn, NoVideo}]
  /\ cpc \in {"get", "begin", "fill", "recover", "stamp", "publish", "wait",
              "dstamp", "dbegin", "dfill", "dpublish"}
  /\ tickLast \in Int
  /\ poll \in [tick : Nat, num : Nat, i : Nat]
  /\ owner \in [Slots -> Nat \cup {Blank, Torn}]
  /\ unready \in SUBSET Nat
  /\ lost \in [tick : Nat \cup {-1}, frame : Nat]

\* the published frames whose elements the capture thread leaves alone while
\* it fills the next one
Readable == {f \in 0 .. lastframe : f > Next1 - RingLen}

\* the element of frame f is complete and holds frame f and nothing else
Complete(f) ==
  /\ stamp[Slot(f)] = f
  /\ video[Slot(f)] = (IF ok[Slot(f)] THEN tc[Slot(f)] ELSE NoVideo)

(***************************************************************************)
(* What nexus_control.h says of lastframe: "last frame number stored and   *)
(* now available".  Every published frame that can still be in the ring is *)
(* complete: its number, its timecode and its picture belong together.     *)
(* Excepted are the two cases in which write_picture() files a frame       *)
(* without its own picture: frames skipped over when it recovers from a    *)
(* loss of signal, and frames whose DMA transfer failed.                   *)
(***************************************************************************)
ReadyUnlessExcused == \A f \in Readable \ unready : Complete(f)

(***************************************************************************)
(* What the capture thread has already put into the element it is filling, *)
(* at each point of write_picture() and write_dummy_frames().  With        *)
(* ReadyUnlessExcused it makes the inductive invariant of the ring.        *)
(***************************************************************************)
Filling ==
  /\ cpc = "fill" => (Next1 \in unready \/ dma = grab)
  /\ cpc \in {"recover", "stamp"} =>
       (Next1 \in unready \/ video[Cur] = grab)
  /\ cpc \in {"dbegin", "dfill"} => stamp[Cur] = Next1
  /\ cpc \in {"publish", "dpublish"} =>
       (Next1 \in unready \/ Complete(Next1))

RingInv == TypeOK /\ ReadyUnlessExcused /\ Filling

(***************************************************************************)
(* No step of the capture thread touches the element of a frame that is    *)
(* readable before and after the step: a reader that stays inside the      *)
(* window needs no lock on the frame data.                                 *)
(***************************************************************************)
ReadableIsStable ==
  [][\A f \in Readable \cap Readable' :
       /\ stamp'[Slot(f)] = stamp[Slot(f)]
       /\ tc'[Slot(f)] = tc[Slot(f)]
       /\ ok'[Slot(f)] = ok[Slot(f)]
       /\ video'[Slot(f)] = video[Slot(f)]]_ringVars

(***************************************************************************)
(* Until the signal is lost or a transfer fails, frame numbers count frame *)
(* periods once the drops that the daemon publishes with each frame are    *)
(* added: a gap in the pictures never goes unreported.                     *)
(***************************************************************************)
DropsAccounted ==
  (lost = NoLoss /\ unready = {} /\ lastframe >= 0) =>
    tc[Slot(lastframe)] = lastframe + 1 + hwdrop
=============================================================================
