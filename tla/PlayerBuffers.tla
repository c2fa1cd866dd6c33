--------------------------- MODULE PlayerBuffers ---------------------------
(***************************************************************************)
(* The Ingex player between two buffers: a thread that reads frames ahead  *)
(* from the media source (buffered_media_source.c), the thread of the      *)
(* player that takes them, one after the other or where the user wants to  *)
(* go, and writes them to the buffer of the sink (media_player.c), and a   *)
(* thread that shows them there (buffered_media_sink.c).                   *)
(*                                                                         *)
(* The speed of play is 1, the source is at rest (availableSourceLength is *)
(* not used), and a frame is sent to the sink as a whole.                  *)
(***************************************************************************)
EXTENDS Integers, Sequences

CONSTANTS
  FileLength,   \* frames in the source
  LengthKnown,  \* does msc_get_length say so?
  SourceSize,   \* frameBufferSize
  SinkSize,     \* numFrames
  DropModes,    \* values of dropFrameWhenFull, which bms_create is given
  MaxInputs,    \* bound: requests of the user
  MaxTimeouts,  \* bound: calls of the source that time out
  MaxFaults,    \* bound: reads that fail though the frame is there
  MayClose      \* bound: is the player ever closed?

ASSUME PlayerAssumption ==
  /\ FileLength \in Nat \ {0} /\ LengthKnown \in BOOLEAN
  /\ SourceSize \in Nat \ {0} /\ SinkSize \in Nat /\ SinkSize >= 2
  /\ DropModes \subseteq BOOLEAN
  /\ MaxInputs \in Nat /\ MaxTimeouts \in Nat /\ MaxFaults \in Nat
  /\ MayClose \in BOOLEAN

None == -1   \* no position, no length, no buffer
Torn == -2   \* picture data of more than one frame

VARIABLES
  \* the buffered source
  frames,      \* the position of the frame in each slot, if it isReady
  data,        \* the frame whose data each slot holds
  reader,      \* the read thread and its local variables
  last,        \* lastPosition
  eof,         \* eofPosition
  client,      \* clientPosition
  waiting,     \* is the read thread waiting? and clientWaiting
  \* the user and the player
  want,        \* state.nextPosition, state.play, state.refreshRequired
  length,      \* sourceLength
  player,      \* the player's thread and its local variables
  \* the buffered sink
  buffers,     \* what is in each frame: its label and its data
  ring,        \* frames, firstFramePosition, framesUsed, writePosition,
               \* swapFrame, currentFrameRead, dropFrameWhenFull
  shower,      \* where its read thread is
  stopped,     \* the stop flags of source and sink
  \* bounds and history
  inputs, timeouts, faults,
  adrift,      \* since the last seek that succeeded a call timed out, or
               \* the frame that was sought could not be read
  raced,       \* a slot was cleared although the client was to take it
  slept        \* who sleeps though it was to be woken before it slept

sourceVars == <<frames, data, reader, last, eof>>
playerVars == <<want, length, player>>
sinkVars == <<buffers, ring, shower>>
history == <<inputs, timeouts, faults, adrift, raced, slept>>
vars == <<sourceVars, client, waiting, playerVars, sinkVars, stopped, history>>

Slots == 0 .. SourceSize - 1
Buffers == 0 .. SinkSize
Nothing == [label |-> None, data |-> None, odd |-> FALSE]

\* The threads at the start of their loops, with nothing in their locals
Idle == [at |-> "test", position |-> 0, ok |-> FALSE, eof |-> FALSE]
InLoop(lastPosition, refresh) ==
  [at |-> "loop", last |-> lastPosition, position |-> 0, old |-> 0,
   play |-> TRUE, refresh |-> refresh, seeks |-> FALSE, waits |-> 0, orig |-> 0]

PlayerInit ==
  /\ frames = [s \in Slots |-> None] /\ data = [s \in Slots |-> None]
  /\ reader = Idle
  /\ last = -1 /\ eof = None /\ client = 0
  /\ waiting = [reader |-> FALSE, client |-> FALSE]
  /\ want = [next |-> 0, play |-> TRUE, refresh |-> FALSE]
  /\ length = IF LengthKnown THEN FileLength ELSE 0
  /\ player = InLoop(-1, FALSE)
  /\ buffers = [b \in Buffers |-> Nothing]
  /\ \E drop \in DropModes :
       ring = [frames |-> [i \in 0 .. SinkSize - 1 |-> i], first |-> 0,
               used |-> 0, write |-> 0, swap |-> SinkSize, current |-> None,
               drop |-> drop]
  /\ shower = "test"
  /\ stopped = [source |-> FALSE, sink |-> FALSE]
  /\ inputs = 0 /\ timeouts = 0 /\ faults = 0
  /\ adrift = FALSE /\ raced = FALSE
  /\ slept = [reader |-> FALSE, shower |-> FALSE]

SlotOf(position) == position % SourceSize
\* Mistake: any frame in the slot will do
IsReadyAny(position) == frames[SlotOf(position)] # None
IsReady(position) == frames[SlotOf(position)] = position
IsEOF(position) == eof >= 0 /\ position >= eof
ReaderSlot == SlotOf(reader.position)

\* pthread_cond_signal, to the read thread and to the player
WakeReader == IF reader.at = "full" THEN [reader EXCEPT !.at = "test"] ELSE reader
Woken == CASE player.at = "seekwait" -> "seek"
           [] player.at = "readwait" -> "read"
           [] OTHER -> player.at

-----------------------------------------------------------------------------
(* The read thread of the source.                                          *)

OutsideReader == <<client, want, length, sinkVars, stopped, inputs, timeouts,
                   adrift>>

ReaderTests ==
  /\ reader.at = "test"
  /\ reader' = [reader EXCEPT !.at = IF stopped.source THEN "ended" ELSE "choose"]
  /\ UNCHANGED <<OutsideReader, frames, data, last, eof, waiting, player,
                 faults, raced, slept>>

\* The client's frame is there: wait for it to be taken, or read another
ReaderIsFull ==
  /\ reader.at = "choose"
  /\ IsReady(client) /\ SlotOf(last + 1) = SlotOf(client)
  /\ reader' = [reader EXCEPT !.at = "full"]
  /\ waiting' = [waiting EXCEPT !.reader = TRUE]
  /\ player' = IF waiting.client THEN [player EXCEPT !.at = Woken] ELSE player
  /\ slept' = [slept EXCEPT !.reader = stopped.source]
  /\ UNCHANGED <<OutsideReader, frames, data, last, eof, faults, raced>>

ReaderChooses ==
  /\ reader.at = "choose"
  /\ ~(IsReady(client) /\ SlotOf(last + 1) = SlotOf(client))
  /\ LET position == IF IsReady(client) THEN last + 1 ELSE client
     IN  reader' = [at |-> IF IsEOF(position) THEN "done" ELSE "clear",
                    position |-> position, ok |-> FALSE, eof |-> FALSE]
  /\ waiting' = [waiting EXCEPT !.reader = FALSE]
  /\ UNCHANGED <<OutsideReader, frames, data, last, eof, player, faults,
                 raced, slept>>

\* A seek beyond the end may fail
ReaderSeekFails ==
  /\ reader.at = "clear"
  /\ reader.position # last + 1 /\ reader.position >= FileLength
  /\ reader' = [reader EXCEPT !.at = "done"]
  /\ UNCHANGED <<OutsideReader, frames, data, last, eof, waiting, player,
                 faults, raced, slept>>

\* The slot is emptied (isReady and isPresent), and then filled
ReaderClears ==
  /\ reader.at = "clear"
  /\ frames' = [frames EXCEPT ![ReaderSlot] = None]
  /\ data' = [data EXCEPT ![ReaderSlot] = None]
  /\ reader' = [reader EXCEPT !.at = "read"]
  /\ raced' = (raced \/ (player.at \in {"accept", "acceptwait", "send"}
                           /\ ReaderSlot = SlotOf(client)))
  /\ UNCHANGED <<OutsideReader, last, eof, waiting, player, faults, slept>>

ReaderReads ==
  /\ reader.at = "read" /\ reader.position < FileLength
  /\ data' = [data EXCEPT ![ReaderSlot] = reader.position]
  /\ reader' = [reader EXCEPT !.at = "done", !.ok = TRUE]
  /\ UNCHANGED <<OutsideReader, frames, last, eof, waiting, player, faults,
                 raced, slept>>

\* The source is put back to where it was
ReaderFails ==
  /\ reader.at = "read"
  /\ \/ reader.position >= FileLength /\ UNCHANGED faults
        /\ reader' = [reader EXCEPT !.at = "done", !.eof = TRUE]
     \/ reader.position < FileLength /\ faults < MaxFaults
        /\ faults' = faults + 1 /\ reader' = [reader EXCEPT !.at = "done"]
  /\ UNCHANGED <<OutsideReader, frames, data, last, eof, waiting, player,
                 raced, slept>>

\* A client that waits is woken even if the read failed
ReaderDone ==
  /\ reader.at = "done"
  /\ IF reader.ok
     THEN /\ frames' = [frames EXCEPT ![ReaderSlot] = reader.position]
          /\ last' = reader.position
     ELSE UNCHANGED <<frames, last>>
  /\ eof' = IF reader.eof THEN reader.position ELSE eof
  /\ reader' = Idle
  /\ player' = IF waiting.client THEN [player EXCEPT !.at = Woken] ELSE player
  /\ UNCHANGED <<OutsideReader, data, waiting, faults, raced, slept>>

Reader == \/ ReaderTests \/ ReaderIsFull \/ ReaderChooses \/ ReaderSeekFails
          \/ ReaderClears \/ ReaderReads \/ ReaderFails \/ ReaderDone

-----------------------------------------------------------------------------
(* The user.                                                               *)

UserSeeks(position) ==
  /\ inputs < MaxInputs /\ inputs' = inputs + 1
  /\ want' = [want EXCEPT !.next = position]
  /\ UNCHANGED <<sourceVars, client, waiting, length, player, sinkVars,
                 stopped, timeouts, faults, adrift, raced, slept>>

\* The on screen display changes with the state, so the frame is wanted again
UserToggles ==
  /\ inputs < MaxInputs /\ inputs' = inputs + 1
  /\ want' = [want EXCEPT !.play = ~@, !.refresh = TRUE]
  /\ UNCHANGED <<sourceVars, client, waiting, length, player, sinkVars,
                 stopped, timeouts, faults, adrift, raced, slept>>

User == UserToggles \/ \E position \in 0 .. FileLength + 1 : UserSeeks(position)

-----------------------------------------------------------------------------
(* The player's loop, and bmsrc_seek and bmsrc_read_frame, which it calls. *)

\* legitimise_position
Legitimate(position) ==
  IF length > 0 /\ position >= length THEN length - 1 ELSE position

\* The position that the player is to go to
Position ==
  LET next == Legitimate(want.next)
  IN  IF want.play /\ player.last = next THEN Legitimate(next + 1) ELSE next

\* Only the next frame is read without a seek
PlayerDecides ==
  /\ player.at = "loop"
  /\ player.refresh \/ want.refresh \/ Position # player.last
  /\ player' = [player EXCEPT
       !.at = IF Position = player.last + 1 THEN "read" ELSE "seek",
       !.seeks = Position # player.last + 1,
       !.position = Position, !.old = want.next, !.play = want.play,
       !.refresh = @ \/ want.refresh, !.waits = 0, !.orig = 0]
  /\ want' = [want EXCEPT !.refresh = FALSE]
  /\ UNCHANGED <<sourceVars, client, waiting, length, sinkVars, stopped,
                 history>>

Goes(place) == player' = [player EXCEPT !.at = place]
OutsideCall == <<frames, data, last, eof, want, length, sinkVars, stopped,
                 inputs, timeouts, faults, raced, slept>>

\* The client's frame is not there: wait until the read thread has tried
WaitsForFrame ==
  /\ player.waits < 2
  /\ waiting' = [waiting EXCEPT !.client = TRUE]
  /\ reader' = IF waiting.reader THEN WakeReader ELSE reader
  /\ UNCHANGED adrift

\* bmsrc_seek, one round of its loop
SeekTries ==
  /\ player.at = "seek"
  /\ client' = player.position
  /\ LET orig == IF waiting.client THEN player.orig ELSE client
         here == player.position
     IN  \/ /\ IsEOF(here)
            /\ player' = [player EXCEPT !.at = "seekeof", !.orig = orig]
            /\ waiting' = [waiting EXCEPT !.client = FALSE]
            /\ UNCHANGED <<reader, adrift>>
         \/ /\ ~IsEOF(here) /\ IsReady(here)
            /\ player' = [player EXCEPT !.at = "read", !.waits = 0]
            /\ waiting' = [waiting EXCEPT !.client = FALSE]
            /\ adrift' = FALSE
            /\ UNCHANGED reader
         \/ /\ ~IsEOF(here) /\ ~IsReady(here)
            /\ WaitsForFrame
            /\ player' = [player EXCEPT !.at = "seekwait", !.orig = orig,
                                        !.waits = @ + 1]
         \/ /\ ~IsEOF(here) /\ ~IsReady(here) /\ player.waits = 2
            /\ player' = [player EXCEPT !.at = "seekfailed", !.orig = orig]
            /\ waiting' = [waiting EXCEPT !.client = FALSE]
            /\ UNCHANGED <<reader, adrift>>
  /\ UNCHANGED OutsideCall

\* The source length is set at the end of the source, if it is not known
LearnsLength(position) ==
  length' = IF length = 0 /\ IsEOF(position) THEN position ELSE length

\* The position is restored, if it is beyond the end or was not reached
SeekFails ==
  /\ player.at \in {"seekeof", "seekfailed"}
  /\ client' = IF player.at = "seekfailed" \/ client > eof
               THEN player.orig ELSE client
  /\ LearnsLength(client')
  /\ Goes("update")
  /\ UNCHANGED <<sourceVars, waiting, want, sinkVars, stopped, history>>

\* bmsrc_read_frame, one round of its loop
ReadTries ==
  /\ player.at = "read"
  /\ \/ /\ IsEOF(client)
        /\ Goes("readeof")
        /\ waiting' = [waiting EXCEPT !.client = FALSE]
        /\ UNCHANGED <<reader, adrift>>
     \/ /\ ~IsEOF(client) /\ IsReady(client)
        /\ Goes("accept")
        /\ waiting' = [waiting EXCEPT !.client = FALSE]
        /\ UNCHANGED <<reader, adrift>>
     \/ /\ ~IsEOF(client) /\ ~IsReady(client)
        /\ WaitsForFrame
        /\ player' = [player EXCEPT !.at = "readwait", !.waits = @ + 1]
     \/ /\ ~IsEOF(client) /\ ~IsReady(client) /\ player.waits = 2
        /\ Goes("readfailed")
        /\ waiting' = [waiting EXCEPT !.client = FALSE]
        /\ UNCHANGED <<reader, adrift>>
  /\ UNCHANGED <<OutsideCall, client>>

\* After a second without an answer the call returns, clientWaiting still set
TimesOut ==
  /\ player.at \in {"seekwait", "readwait"}
  /\ timeouts < MaxTimeouts /\ timeouts' = timeouts + 1
  /\ Goes(IF player.at = "seekwait" THEN "update" ELSE "cancel")
  /\ adrift' = TRUE
  /\ UNCHANGED <<sourceVars, client, waiting, want, length, sinkVars, stopped,
                 inputs, faults, raced, slept>>

\* A frame that could not be read pauses the player, unless it was the end
ReadFails ==
  /\ player.at \in {"readeof", "readfailed"}
  /\ LearnsLength(client)
  /\ IF IsEOF(client)
     THEN Goes("cancel") /\ UNCHANGED want
     ELSE /\ player' = [player EXCEPT !.at = "cancel", !.refresh = player.play]
          /\ want' = [want EXCEPT !.play = FALSE]
  /\ adrift' = (adrift \/ player.seeks)
  /\ UNCHANGED <<sourceVars, client, waiting, sinkVars, stopped, inputs,
                 timeouts, faults, raced, slept>>

\* Mistake: full is one frame too late
AcceptsTooMany ==
  /\ player.at = "accept"
  /\ IF ring.used <= SinkSize
     THEN /\ ring' = [ring EXCEPT !.write = (ring.first + ring.used) % SinkSize]
          /\ Goes("send")
     ELSE Goes("acceptwait") /\ UNCHANGED ring
  /\ UNCHANGED <<sourceVars, client, waiting, want, length, buffers, shower,
                 stopped, history>>

\* bms_accept_stream_frame: the frame of the sink that is to be written.  No
\* stream is sent from a slot that has been cleared.
Accepts ==
  /\ player.at = "accept"
  /\ \/ data[SlotOf(client)] = None
        /\ Goes("sent") /\ UNCHANGED ring
     \/ /\ data[SlotOf(client)] # None /\ ring.used < SinkSize
        /\ ring' = [ring EXCEPT !.write = (ring.first + ring.used) % SinkSize]
        /\ Goes("send")
     \/ /\ data[SlotOf(client)] # None /\ ring.used >= SinkSize
        /\ ring.drop
        /\ ring' = [ring EXCEPT !.first = (@ + 1) % SinkSize, !.used = @ - 1,
                                !.write = (ring.first + ring.used) % SinkSize]
        /\ Goes("send")
     \/ /\ data[SlotOf(client)] # None /\ ring.used >= SinkSize
        /\ ~ring.drop
        /\ Goes("acceptwait") /\ UNCHANGED ring
  /\ UNCHANGED <<sourceVars, client, waiting, want, length, buffers, shower,
                 stopped, history>>

\* The slot of the source is sent without its lock
Sends ==
  /\ player.at = "send"
  /\ buffers' = [buffers EXCEPT ![ring.frames[ring.write]] =
       [label |-> player.position, odd |-> adrift,
        data |-> IF raced THEN Torn ELSE data[SlotOf(client)]]]
  /\ Goes("sent")
  /\ UNCHANGED <<sourceVars, client, waiting, want, length, ring, shower,
                 stopped, history>>

Taken ==
  /\ player.at = "sent"
  /\ client' = client + 1
  /\ reader' = WakeReader
  /\ Goes("complete")
  /\ UNCHANGED <<frames, data, last, eof, waiting, want, length, sinkVars,
                 stopped, inputs, timeouts, faults, adrift, raced,
                 slept>>

\* bms_complete_frame and bms_cancel_frame signal to the sink's thread
WakeShower == shower' = IF shower = "waiting" THEN "test" ELSE shower

\* Mistake: the sink's thread is not told
CompletesSilently ==
  /\ player.at = "complete"
  /\ ring' = [ring EXCEPT !.used = @ + 1]
  /\ player' = [player EXCEPT !.at = "update", !.last = player.position,
                              !.refresh = FALSE]
  /\ UNCHANGED <<sourceVars, client, waiting, want, length, buffers, shower,
                 stopped, history>>

Completes ==
  /\ player.at = "complete"
  /\ ring' = [ring EXCEPT !.used = @ + 1]
  /\ WakeShower
  /\ player' = [player EXCEPT !.at = "update", !.last = player.position,
                              !.refresh = FALSE]
  /\ UNCHANGED <<sourceVars, client, waiting, want, length, buffers, stopped,
                 history>>

Cancels ==
  /\ player.at = "cancel"
  /\ WakeShower
  /\ Goes("update")
  /\ UNCHANGED <<sourceVars, client, waiting, want, length, buffers, ring,
                 stopped, history>>

\* The position is the last one, unless the user has asked for another
Updates ==
  /\ player.at = "update"
  /\ want' = IF want.next = player.old
             THEN [want EXCEPT !.next = IF player.last < 0 THEN 0
                                        ELSE Legitimate(player.last)]
             ELSE want
  /\ player' = InLoop(player.last, player.refresh)
  /\ UNCHANGED <<sourceVars, client, waiting, length, sinkVars, stopped, history>>

-----------------------------------------------------------------------------
(* Closing: the source, then the sink.  The flag is set without the lock,  *)
(* the thread is woken if it waits, and joined.                            *)

OutsideClose == <<frames, data, last, eof, client, waiting, want, length,
                  buffers, ring, history>>

CloseBegins ==
  /\ \/ player.at = "loop" /\ MayClose /\ stopped' = [stopped EXCEPT !.source = TRUE]
        /\ Goes("wakesource")
     \/ player.at = "joinsource" /\ reader.at = "ended"
        /\ stopped' = [stopped EXCEPT !.sink = TRUE] /\ Goes("wakesink")
  /\ UNCHANGED <<OutsideClose, reader, shower>>

CloseWakes ==
  /\ \/ player.at = "wakesource" /\ reader' = WakeReader
        /\ Goes("joinsource") /\ UNCHANGED shower
     \/ player.at = "wakesink" /\ WakeShower
        /\ Goes("joinsink") /\ UNCHANGED reader
  /\ UNCHANGED <<OutsideClose, stopped>>

Closed ==
  /\ player.at = "joinsink" /\ shower = "ended"
  /\ Goes("closed")
  /\ UNCHANGED <<OutsideClose, reader, shower, stopped>>

Close == CloseBegins \/ CloseWakes \/ Closed

PlayerSteps == \/ PlayerDecides \/ SeekTries \/ SeekFails \/ ReadTries
               \/ ReadFails \/ Accepts \/ Sends \/ Taken \/ Completes
               \/ Cancels \/ Updates

-----------------------------------------------------------------------------
(* The read thread of the sink.                                            *)

OutsideShower == <<sourceVars, client, waiting, want, length, stopped, inputs,
                   timeouts, faults, adrift, raced>>

ShowerTests ==
  /\ shower = "test"
  /\ shower' = IF stopped.sink THEN "ended" ELSE "take"
  /\ UNCHANGED <<OutsideShower, player, buffers, ring, slept>>

\* Mistake: the frame that is shown stays in the ring
ShowerTakesInPlace ==
  /\ shower = "take"
  /\ IF ring.used > 0
     THEN /\ ring' = [ring EXCEPT !.current = ring.frames[ring.first],
                                  !.first = (@ + 1) % SinkSize, !.used = @ - 1]
          /\ shower' = "show"
     ELSE shower' = "nothing" /\ UNCHANGED ring
  /\ UNCHANGED <<OutsideShower, player, buffers, slept>>

ShowerTakes ==
  /\ shower = "take"
  /\ IF ring.used > 0
     THEN /\ ring' = [ring EXCEPT !.current = ring.frames[ring.first],
                                  !.frames = [@ EXCEPT ![ring.first] = ring.swap],
                                  !.swap = None,
                                  !.first = (@ + 1) % SinkSize, !.used = @ - 1]
          /\ shower' = "show"
     ELSE shower' = "nothing" /\ UNCHANGED ring
  /\ UNCHANGED <<OutsideShower, player, buffers, slept>>

\* msk_complete_sink_frame of the target sink has returned
ShowerGivesBack ==
  /\ shower = "show"
  /\ ring' = [ring EXCEPT !.swap = ring.current, !.current = None]
  /\ player' = IF player.at = "acceptwait" THEN [player EXCEPT !.at = "accept"]
               ELSE player
  /\ shower' = "test"
  /\ UNCHANGED <<OutsideShower, buffers, slept>>

\* It does not look again whether a frame has come
ShowerSleeps ==
  /\ shower = "nothing"
  /\ shower' = "waiting"
  /\ slept' = [slept EXCEPT !.shower = ring.used > 0 \/ stopped.sink]
  /\ UNCHANGED <<OutsideShower, player, buffers, ring>>

Shower == ShowerTests \/ ShowerTakes \/ ShowerGivesBack \/ ShowerSleeps

PlayerNext == Reader \/ User \/ PlayerSteps \/ TimesOut \/ Close \/ Shower

\* The threads run.  A call may time out, and need not.
PlayerFairness ==
  /\ WF_vars(Reader) /\ WF_vars(Shower)
  /\ WF_vars(PlayerSteps) /\ WF_vars(CloseWakes \/ Closed)
  /\ WF_vars(player.at = "joinsource" /\ CloseBegins)

PlayerSpec == PlayerInit /\ [][PlayerNext]_vars /\ PlayerFairness

-----------------------------------------------------------------------------
(* Properties.                                                             *)

Places == {"loop", "seek", "seekwait", "seekeof", "seekfailed", "read",
           "readwait", "readeof", "readfailed", "accept", "acceptwait", "send",
           "sent", "complete", "cancel", "update", "wakesource", "joinsource",
           "wakesink", "joinsink", "closed"}
Labels == Nat \cup {None}
Frames == [label : Labels, data : Nat \cup {None, Torn}, odd : BOOLEAN]

(***************************************************************************)
(* The variables have their types; in particular the counts and positions  *)
(* of the sink's ring stay in range, unless a frame was completed that no  *)
(* stream was written to.                                                  *)
(***************************************************************************)
PlayerTypeOK ==
  /\ frames \in [Slots -> Nat \cup {None}] /\ data \in [Slots -> Nat \cup {None}]
  /\ reader \in [at : {"test", "choose", "full", "clear", "read", "done", "ended"},
                 position : Nat, ok : BOOLEAN, eof : BOOLEAN]
  /\ last \in Nat \cup {-1} /\ eof \in Nat \cup {None} /\ client \in Nat
  /\ waiting \in [reader : BOOLEAN, client : BOOLEAN]
  /\ want \in [next : Nat, play : BOOLEAN, refresh : BOOLEAN]
  /\ length \in Nat
  /\ player \in [at : Places, last : Nat \cup {-1}, position : Nat, old : Nat,
                 play : BOOLEAN, refresh : BOOLEAN, seeks : BOOLEAN, waits : 0 .. 2, orig : Nat]
  /\ buffers \in [Buffers -> Frames]
  /\ ring \in [frames : [0 .. SinkSize - 1 -> Buffers \cup {None}],
               first : 0 .. SinkSize - 1, used : Nat, write : 0 .. SinkSize - 1,
               swap : Buffers \cup {None}, current : Buffers \cup {None},
               drop : BOOLEAN]
  /\ raced \/ ring.used <= SinkSize
  /\ shower \in {"test", "take", "show", "nothing", "waiting", "ended"}
  /\ stopped \in [source : BOOLEAN, sink : BOOLEAN]
  /\ inputs \in Nat /\ timeouts \in Nat /\ faults \in Nat
  /\ adrift \in BOOLEAN /\ raced \in BOOLEAN
  /\ slept \in [reader : BOOLEAN, shower : BOOLEAN]

\* The frames of the sink that wait, from the first, and the one being shown
Waiting == [i \in 1 .. ring.used |->
              buffers[ring.frames[(ring.first + i - 1) % SinkSize]]]
Showing == IF ring.current = None THEN Nothing ELSE buffers[ring.current]

Queue == INSTANCE FrameQueue
           WITH Capacity <- SinkSize, NoFrame <- Nothing,
                queue <- Waiting, showing <- Showing, lossy <- ring.drop

(***************************************************************************)
(* The sink, with its swap frame, its ring and its two threads, is a queue *)
(* of frames that are shown as they were completed, until a frame of the   *)
(* source is cleared while it is being taken: such a frame is completed    *)
(* though nothing was accepted for it (bms_complete_frame).                *)
(***************************************************************************)
SinkIsQueue == Queue!QueueInit /\ [][Queue!QueueNext \/ raced']_Queue!queueVars

(***************************************************************************)
(* A frame is shown with the position it has in the source, whatever seeks,*)
(* failures and ends of the source came before.  The frames that are "odd" *)
(* were sent after a call of the source timed out, or the frame sought was *)
(* read over before it was taken and could not be read again, and before   *)
(* the next seek that succeeded: bmsrc_seek then leaves clientPosition     *)
(* where it wanted to go, and the player reads on from where it was.       *)
(***************************************************************************)
ShownAsLabelled ==
  ~raced /\ Showing # Nothing /\ ~Showing.odd => Showing.label = Showing.data

\* Two threads wait for each other, because one of them went to sleep on a
\* test it made before it was signalled to
Asleep ==
  \/ slept.reader /\ reader.at = "full" /\ player.at = "joinsource"
  \/ slept.shower /\ shower = "waiting" /\ player.at \in {"acceptwait", "joinsink"}

(***************************************************************************)
(* Every call of the source and of the sink returns, and so does the close,*)
(* although the read thread, the player and the thread that shows wait for *)
(* each other; the player is back in its loop after each frame.  Only      *)
(* "Asleep" is left out, where a signal came between a test and a wait.    *)
(***************************************************************************)
PlayerGoesOn ==
  player.at \notin {"loop", "closed"} ~> (player.at \in {"loop", "closed"} \/ Asleep)
=============================================================================
