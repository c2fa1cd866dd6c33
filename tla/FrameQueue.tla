----------------------------- MODULE FrameQueue -----------------------------
(***************************************************************************)
(* What the buffered sink of the player promises (buffered_media_sink.c):  *)
(* frames are shown in the order in which they were completed, each at     *)
(* most once and as it was when it was completed, at most one at a time;   *)
(* only the oldest is ever dropped, and only when the queue is full.       *)
(***************************************************************************)
EXTENDS Naturals, Sequences

CONSTANTS
  Capacity,  \* most frames that wait
  NoFrame    \* nothing is being shown

VARIABLES
  queue,     \* frames completed and not yet shown
  showing,   \* the frame being shown, or NoFrame
  lossy      \* whether a full queue loses its oldest frame

queueVars == <<queue, showing, lossy>>

QueueInit == queue = <<>> /\ showing = NoFrame /\ lossy \in BOOLEAN

\* A frame comes, whatever is in it
Put ==
  /\ Len(queue) < Capacity
  /\ Len(queue') = Len(queue) + 1
  /\ SubSeq(queue', 1, Len(queue)) = queue
  /\ UNCHANGED <<showing, lossy>>

Drop ==
  /\ lossy /\ Len(queue) = Capacity
  /\ queue' = Tail(queue)
  /\ UNCHANGED <<showing, lossy>>

Show ==
  /\ showing = NoFrame /\ queue # <<>>
  /\ showing' = Head(queue)
  /\ queue' = Tail(queue)
  /\ UNCHANGED lossy

Shown ==
  /\ showing # NoFrame
  /\ showing' = NoFrame
  /\ UNCHANGED <<queue, lossy>>

QueueNext == Put \/ Drop \/ Show \/ Shown

QueueSpec == QueueInit /\ [][QueueNext]_queueVars
=============================================================================
