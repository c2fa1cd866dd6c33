--------------------------- MODULE ArchiveCapture ---------------------------
(***************************************************************************)
(* The capture of the archive recorder.  One thread captures frames from   *)
(* a DVS card into a ring, one stores them in the archive MXF file, one    *)
(* hands them, made smaller, to one that encodes the browse copy, and the  *)
(* thread of the recording session starts, stops and aborts recordings.    *)
(* They share plain variables, some of them locked one by one, and every   *)
(* wait for a frame ends after 2 seconds, signalled or not.                *)
(*                                                                         *)
(* The multi-item recording is this one without a browse copy.  A session  *)
(* always asks to stop at once, duration -1.                               *)
(***************************************************************************)
EXTENDS Integers, Sequences

CONSTANTS
  RingSize,      \* ring_buffer_size
  WaitGood,      \* WAIT_GOOD_FRAME_COUNT
  Skip,          \* browse_overflow_frames
  BrowseEnabled, \* browse_enabled
  Backup,        \* _videotapeBackup: is the tape copied to another VTR too?
  MaxFrame,      \* bound: index of the last frame captured
  MaxStarts,     \* bound: recordings asked for
  MaxFaults      \* bound: failures of the card, of files and of the VTR

ASSUME ArchiveAssumption ==
  /\ RingSize \in Nat /\ RingSize >= 3
  /\ WaitGood \in Nat /\ Skip \in Nat \ {0}
  /\ BrowseEnabled \in BOOLEAN /\ Backup \in BOOLEAN
  /\ MaxFrame \in Nat /\ MaxStarts \in Nat /\ MaxFaults \in Nat

NotSet == -2   \* no frame to stop at

VARIABLES
  \* the capture thread and the status that it reports
  cap,         \* where it is, and its local variables
  ring,        \* slots: the frame captured in each, of which run of the card
  captured,    \* g_last_frame_captured
  suspend,     \* g_suspend_capture
  videoOk,     \* video_ok and audio_ok
  recordingOk, \* recording_ok
  \* the store thread
  store,       \* where it is, and its local variables
  written,     \* g_last_frame_written
  recordStart, \* g_record_start
  stopFrame,   \* g_record_stop_frame
  counted,     \* g_frames_written
  file,        \* frames in the MXF file
  \* the browse threads
  browse,      \* the thread that prepares frames
  browseLast,  \* g_last_browse_frame_written
  slots,       \* the two frames handed over, or Free
  turn,        \* last_browse_frame_write and last_browse_frame_read, mod 2
  encoding,    \* browse_thread_running
  copy,        \* frames in the browse file
  \* the recording session
  session,     \* where its thread is, its state, first_frame_to_write
  abort,       \* _abortCalled
  starts, faults,
  \* history
  stale,       \* a last_written() from before the start was used after it
  unheard,     \* capture failed while the recording was being started
  skipped      \* the browse threads fell behind or gave up

capVars == <<cap, ring, captured>>
statusVars == <<suspend, videoOk, recordingOk, abort, unheard>>
storeVars == <<store, written, recordStart, counted, file, stale>>
browseVars == <<browse, browseLast, slots, turn, encoding, copy, skipped>>
vars == <<capVars, statusVars, storeVars, stopFrame, browseVars, session,
          starts, faults>>

Frames == [index : 0 .. MaxFrame + 1, run : Nat]
Torn == [index |-> -1, run |-> 0]   \* empty, or being written
Black == [index |-> -2, run |-> 0]  \* a black frame of the browse copy
Free == [index |-> -3, run |-> 0]   \* a slot that is not readyToRead
End == [index |-> -4, run |-> 0]    \* isEndOfSequence

Slot(i) == i % RingSize
Less(a, b) == IF a < b THEN a ELSE b

\* Until the session is in the recording state
Starting == session.at \in {"restart", "open", "status", "signal", "started"}

ArchiveInit ==
  /\ cap = [at |-> "top", start |-> TRUE, prev |-> FALSE, wait |-> 0, run |-> 0]
  /\ ring = [s \in 0 .. RingSize - 1 |-> Torn]
  /\ captured = -1 /\ suspend = TRUE /\ videoOk = FALSE /\ recordingOk = TRUE
  /\ store = [at |-> "look", captured |-> -1, written |-> -1]
  /\ written = -1 /\ recordStart = FALSE /\ stopFrame = NotSet /\ counted = 0
  /\ file = <<>>
  /\ browse = [at |-> "none", skip |-> 0] /\ browseLast = -1
  /\ slots = [s \in 0 .. 1 |-> Free] /\ turn = [write |-> 0, read |-> 0]
  /\ encoding = FALSE /\ copy = <<>>
  /\ session = [at |-> "idle", state |-> "none", first |-> -1]
  /\ abort = FALSE /\ starts = 0 /\ faults = 0
  /\ stale = FALSE /\ unheard = FALSE /\ skipped = FALSE

Fault == faults < MaxFaults /\ faults' = faults + 1

-----------------------------------------------------------------------------
(* What the listener, the recorder, makes of a status.                     *)

\* Mistake: nothing comes of a bad status.
SdiStatusUnheard(video, recording) == UNCHANGED abort
\* Mistake: a card that has stopped is forgotten.
SdiStatusVideo(video, recording) ==
  IF video THEN UNCHANGED abort
  ELSE abort' = (abort \/ session.state = "recording")

\* Recorder::sdiStatusChanged: abortIfRecording
SdiStatusChanged(video, recording) ==
  IF video /\ recording
  THEN UNCHANGED abort
  ELSE abort' = (abort \/ session.state = "recording")

\* set_input_SDI_status
SetVideo(ok) ==
  /\ videoOk' = ok
  /\ IF ok = videoOk THEN UNCHANGED abort
     ELSE SdiStatusChanged(ok, recordingOk)

\* set_recording_status
SetRecording(ok) ==
  /\ recordingOk' = ok
  /\ IF ok = recordingOk THEN UNCHANGED abort
     ELSE SdiStatusChanged(videoOk, ok)

\* sdiCaptureDroppedFrame and mxfBufferOverflow: the session, if there is
\* one, is aborted whatever its state, and the status that follows adds
\* nothing to that
Alarm ==
  /\ recordingOk' = FALSE
  /\ abort' = (abort \/ session.state \notin {"none", "kept", "gone"})

-----------------------------------------------------------------------------
(* capture_video_thread                                                    *)

StartFifo == cap.at = "polling" \/ cap.start
HavePrev == cap.prev /\ ~StartFifo
\* Mistake: a frame too far, when there is a previous one.
IndexAhead == captured + (IF cap.prev THEN 3 ELSE 1)

\* capture_buffer_index
Index == captured + (IF cap.prev THEN 2 ELSE 1)
At(place) == cap' = [cap EXCEPT !.at = place]

CaptureSuspends ==
  /\ cap.at = "top" /\ suspend
  /\ At("polling")
  /\ UNCHANGED <<ring, captured, statusVars, storeVars, stopFrame, browseVars,
                 session, starts, faults>>

\* poll_sdi_signal_status
CapturePolls ==
  /\ cap.at = "polling" /\ suspend
  /\ \E ok \in BOOLEAN : SetVideo(ok)
  /\ UNCHANGED <<capVars, suspend, recordingOk, unheard, storeVars,
                 stopFrame, browseVars, session, starts, faults>>

\* sv_fifo_getbuffer succeeds, and the card starts to fill the slot
CaptureGets ==
  /\ cap.at \in {"top", "polling"} /\ ~suspend /\ captured < MaxFrame
  /\ cap' = [at |-> "dma", start |-> FALSE, prev |-> HavePrev,
             wait |-> IF StartFifo THEN WaitGood ELSE cap.wait,
             run |-> IF StartFifo THEN cap.run + 1 ELSE cap.run]
  /\ ring' = [ring EXCEPT ![Slot(captured + (IF HavePrev THEN 2 ELSE 1))] = Torn]
  /\ SetVideo(TRUE)
  /\ UNCHANGED <<captured, suspend, recordingOk, unheard, storeVars,
                 stopFrame, browseVars, session, starts, faults>>

\* sv_fifo_getbuffer fails
CaptureFails ==
  /\ cap.at \in {"top", "polling"} /\ ~suspend
  /\ Fault
  /\ cap' = [cap EXCEPT !.at = "waitgood", !.start = TRUE]
  /\ SetVideo(FALSE)
  /\ unheard' = (unheard \/ Starting)
  /\ UNCHANGED <<ring, captured, suspend, recordingOk, storeVars, stopFrame,
                 browseVars, session, starts>>

\* wait_for_good_SDI_signal returns: suspended, or the signal is good
CaptureGoesOn ==
  /\ cap.at = "waitgood"
  /\ At("top")
  /\ UNCHANGED <<ring, captured, statusVars, storeVars, stopFrame, browseVars,
                 session, starts, faults>>

\* sv_fifo_putbuffer succeeds
CapturePuts ==
  /\ cap.at = "dma"
  /\ ring' = [ring EXCEPT ![Slot(Index)] = [index |-> Index, run |-> cap.run]]
  /\ IF cap.wait > 0
     THEN cap' = [cap EXCEPT !.at = "top", !.wait = @ - 1]
     ELSE At("status")
  /\ UNCHANGED <<captured, statusVars, storeVars, stopFrame, browseVars,
                 session, starts, faults>>

\* sv_fifo_putbuffer fails
CapturePutFails ==
  /\ cap.at = "dma"
  /\ Fault
  /\ At("failed")
  /\ SetRecording(FALSE)
  /\ unheard' = (unheard \/ Starting)
  /\ UNCHANGED <<ring, captured, suspend, videoOk, storeVars, stopFrame,
                 browseVars, session, starts>>

CaptureGivesUp ==
  /\ cap.at = "failed"
  /\ At("top")
  /\ suspend' = TRUE
  /\ UNCHANGED <<ring, captured, videoOk, recordingOk, abort, unheard,
                 storeVars, stopFrame, browseVars, session, starts, faults>>

\* The card dropped a frame
CaptureDrops ==
  /\ cap.at = "status"
  /\ Fault
  /\ At("top")
  /\ Alarm
  /\ suspend' = TRUE
  /\ UNCHANGED <<ring, captured, videoOk, unheard, storeVars, stopFrame, browseVars,
                 session, starts>>

\* The frame before this one is complete, with its LTC: update_last_captured
CapturePublishes ==
  /\ cap.at = "status"
  /\ cap' = [cap EXCEPT !.at = "top", !.prev = TRUE]
  /\ captured' = IF cap.prev THEN captured + 1 ELSE captured
  /\ UNCHANGED <<ring, statusVars, storeVars, stopFrame, browseVars, session,
                 starts, faults>>

Capture == \/ CaptureSuspends \/ CapturePolls \/ CaptureGets \/ CaptureFails
           \/ CaptureGoesOn \/ CapturePuts \/ CapturePutFails
           \/ CaptureGivesUp \/ CaptureDrops \/ CapturePublishes

-----------------------------------------------------------------------------
(* store_video_thread                                                      *)

\* Mistake: the frame that the card writes ahead is forgotten.
OverrunLate(last, lastWritten) == last - lastWritten > RingSize - 1

\* The slot of the next frame may be in the card's hands
Overrun(last, lastWritten) == last - lastWritten >= RingSize - 1

\* It looks at how far capture and file are before it looks whether to record
StoreLooks ==
  /\ store.at = "look"
  /\ store' = [at |-> "test", captured |-> captured, written |-> written]
  /\ UNCHANGED <<capVars, statusVars, written, recordStart, counted, file,
                 stale, stopFrame, browseVars, session, starts, faults>>

\* Mistake: the frames left to write are forgotten.
StoreReachesStopEarly == stopFrame # NotSet
\* Mistake: a frame after the last is waited for.
StoreReachesStopPast == stopFrame # NotSet /\ store.written > stopFrame

StoreReachesStop == stopFrame # NotSet /\ store.written >= stopFrame

StoreStops ==
  /\ store.at = "test" /\ recordStart /\ StoreReachesStop
  /\ recordStart' = FALSE
  /\ store' = [store EXCEPT !.at = "look"]
  /\ UNCHANGED <<capVars, statusVars, written, counted, file, stale,
                 stopFrame, browseVars, session, starts, faults>>

\* No recording, or no frame: wait_for_frame_ready
StoreWaits ==
  /\ store.at = "test"
  /\ ~recordStart \/ (~StoreReachesStop /\ store.written >= store.captured)
  /\ store' = [store EXCEPT !.at = "look"]
  /\ UNCHANGED <<capVars, statusVars, written, recordStart, counted, file,
                 stale, stopFrame, browseVars, session, starts, faults>>

StoreHasFrame == recordStart /\ ~StoreReachesStop /\ store.written < store.captured

\* report_mxf_buffer_overflow, before or after the frame was written
StoreOverflows ==
  /\ \/ store.at = "test" /\ StoreHasFrame /\ Overrun(store.captured, store.written)
     \/ store.at = "check" /\ Overrun(captured, store.written)
  /\ stopFrame' = store.written
  /\ Alarm
  /\ store' = [store EXCEPT !.at = "look"]
  /\ stale' = (stale \/ store.written # written)
  /\ UNCHANGED <<capVars, suspend, videoOk, unheard, written, recordStart,
                 counted, file, browseVars, session, starts, faults>>

StoreWrites ==
  /\ store.at = "test" /\ StoreHasFrame /\ ~Overrun(store.captured, store.written)
  /\ file' = Append(file, ring[Slot(store.written + 1)])
  /\ store' = [store EXCEPT !.at = "check"]
  /\ stale' = (stale \/ store.written # written)
  /\ UNCHANGED <<capVars, statusVars, written, recordStart, counted,
                 stopFrame, browseVars, session, starts, faults>>

StoreCounts ==
  /\ store.at = "check" /\ ~Overrun(captured, store.written)
  /\ counted' = counted + 1
  /\ written' = store.written + 1
  /\ store' = [store EXCEPT !.at = "look"]
  /\ UNCHANGED <<capVars, statusVars, recordStart, file, stale, stopFrame,
                 browseVars, session, starts, faults>>

Store == \/ StoreLooks \/ StoreStops \/ StoreWaits \/ StoreOverflows
         \/ StoreWrites \/ StoreCounts

-----------------------------------------------------------------------------
(* store_browse_thread and encode_browse_thread                            *)

BrowseAt(place) == browse' = [browse EXCEPT !.at = place]
\* Mistake: a frame after the last is waited for.
BrowseReachesStopPast == stopFrame # NotSet /\ browseLast > stopFrame

BrowseReachesStop == stopFrame # NotSet /\ browseLast >= stopFrame
OutsideBrowse == <<capVars, statusVars, storeVars, stopFrame, session, starts>>

\* Mistake: always the same slot is written.
WriteSlotSame == turn.write

\* get_browse_frame_write and readyToRead
WriteSlot == (turn.write + 1) % 2
HandOver(frame) ==
  /\ slots[WriteSlot] = Free
  /\ slots' = [slots EXCEPT ![WriteSlot] = frame]
  /\ turn' = [turn EXCEPT !.write = WriteSlot]

BrowseOpens ==
  /\ browse.at = "open"
  /\ \/ BrowseAt("wait") /\ UNCHANGED <<faults, skipped>>
     \/ BrowseAt("end") /\ Fault /\ skipped' = TRUE
  /\ UNCHANGED <<OutsideBrowse, browseLast, slots, turn, encoding, copy>>

\* The start signal, unless no frame is to be recorded
BrowseBegins ==
  /\ browse.at = "wait"
  /\ \/ BrowseReachesStop /\ BrowseAt("end")
     \/ ~BrowseReachesStop /\ recordStart /\ BrowseAt("loop")
  /\ UNCHANGED <<OutsideBrowse, browseLast, slots, turn, encoding, copy,
                 skipped, faults>>

BrowseStops ==
  /\ browse.at = "loop" /\ BrowseReachesStop
  /\ BrowseAt("end")
  /\ UNCHANGED <<OutsideBrowse, browseLast, slots, turn, encoding, copy,
                 skipped, faults>>

BrowseHasFrame == browse.at = "loop" /\ ~BrowseReachesStop /\ browseLast < captured

\* Frames are skipped to catch up: black ones are to be written
BrowseOverflows ==
  /\ BrowseHasFrame \/ browse.at = "check"
  /\ browse.skip = 0 /\ Overrun(captured, browseLast)
  /\ browse' = [at |-> "loop", skip |-> Less(Skip, RingSize)]
  /\ skipped' = TRUE
  /\ UNCHANGED <<OutsideBrowse, browseLast, slots, turn, encoding, copy, faults>>

BrowsePicks ==
  /\ BrowseHasFrame /\ ~(browse.skip = 0 /\ Overrun(captured, browseLast))
  /\ BrowseAt("add")
  /\ UNCHANGED <<OutsideBrowse, browseLast, slots, turn, encoding, copy,
                 skipped, faults>>

\* browse_add_frame or browse_add_black_frame
BrowseAdds ==
  /\ browse.at = "add"
  /\ HandOver(IF browse.skip > 0 THEN Black ELSE ring[Slot(browseLast + 1)])
  /\ browse' = [at |-> "check",
                skip |-> IF browse.skip > 0 THEN browse.skip - 1 ELSE 0]
  /\ UNCHANGED <<OutsideBrowse, browseLast, encoding, copy, skipped, faults>>

BrowseCounts ==
  /\ browse.at = "check" /\ ~(browse.skip = 0 /\ Overrun(captured, browseLast))
  /\ BrowseAt("loop")
  /\ browseLast' = browseLast + 1
  /\ UNCHANGED <<OutsideBrowse, slots, turn, encoding, copy, skipped, faults>>

\* browse_end_sequence
BrowseEnds ==
  /\ browse.at = "end"
  /\ HandOver(End)
  /\ BrowseAt("none")
  /\ UNCHANGED <<OutsideBrowse, browseLast, encoding, copy, skipped, faults>>

\* get_browse_frame_read and encode; the end of the sequence ends the thread
ReadSlot == (turn.read + 1) % 2
Encodes ==
  /\ encoding /\ slots[ReadSlot] # Free
  /\ turn' = [turn EXCEPT !.read = ReadSlot]
  /\ IF slots[ReadSlot] = End
     THEN encoding' = FALSE /\ UNCHANGED <<slots, copy>>
     ELSE /\ copy' = Append(copy, slots[ReadSlot])
          /\ slots' = [slots EXCEPT ![ReadSlot] = Free]
          /\ UNCHANGED encoding
  /\ UNCHANGED <<OutsideBrowse, browse, browseLast, skipped, faults>>

Browse == \/ BrowseOpens \/ BrowseBegins \/ BrowseStops \/ BrowseOverflows
          \/ BrowsePicks \/ BrowseAdds \/ BrowseCounts \/ BrowseEnds \/ Encodes

-----------------------------------------------------------------------------
(* The session thread: start_record, stop_record and abort_record.         *)

Goes(place, state) == session' = [session EXCEPT !.at = place, !.state = state]
OutsideSession == <<capVars, videoOk, storeVars, browseVars, faults>>

SessionBegins ==
  /\ session.at = "idle" /\ session.state \in {"none", "kept", "gone"}
  /\ starts < MaxStarts
  /\ Goes("idle", "ready")
  /\ abort' = FALSE
  /\ UNCHANGED <<OutsideSession, suspend, recordingOk, unheard, stopFrame, starts>>

\* start_record, until restart_capture waits for a frame; it fails while the
\* browse copy of the recording before is encoded
Start ==
  /\ session.at = "idle" /\ session.state = "ready" /\ ~abort
  /\ starts < MaxStarts /\ starts' = starts + 1
  /\ IF recordStart \/ encoding
     THEN UNCHANGED <<stopFrame, suspend, session, unheard>>
     ELSE /\ stopFrame' = NotSet
          /\ suspend' = FALSE
          /\ unheard' = FALSE
          \* first: the last frame captured before
          /\ session' = [session EXCEPT !.at = "restart", !.first = captured]
  /\ UNCHANGED <<OutsideSession, recordingOk, abort>>

\* A frame is captured: it is the first to be recorded
Restarts ==
  /\ session.at = "restart" /\ captured > session.first
  /\ session' = [session EXCEPT !.at = "open", !.first = captured]
  /\ UNCHANGED <<OutsideSession, suspend, recordingOk, abort, unheard,
                 stopFrame, starts>>

\* No frame within 3 seconds, or no MXF file
StartFails ==
  /\ \/ session.at = "restart" /\ captured <= session.first /\ UNCHANGED faults
     \/ session.at = "open" /\ Fault
  /\ suspend' = TRUE
  /\ Goes("idle", "ready")
  /\ UNCHANGED <<capVars, videoOk, storeVars, browseVars, recordingOk, abort,
                 unheard, stopFrame, starts>>

\* The file is open; update_last_written, and the browse threads are created
Opens ==
  /\ session.at = "open"
  /\ file' = <<>> /\ written' = session.first - 1
  /\ IF BrowseEnabled
     THEN /\ browseLast' = session.first - 1
          /\ browse' = [at |-> "open", skip |-> 0]
          /\ slots' = [s \in 0 .. 1 |-> Free]
          /\ turn' = [write |-> 0, read |-> 0]
          /\ encoding' = TRUE /\ copy' = <<>> /\ skipped' = FALSE
     ELSE UNCHANGED browseVars
  /\ stale' = FALSE
  /\ Goes("status", session.state)
  /\ UNCHANGED <<capVars, statusVars, store, recordStart, counted, stopFrame,
                 starts, faults>>

ResetsStatus ==
  /\ session.at = "status"
  /\ SetRecording(TRUE)
  /\ counted' = 0
  /\ Goes("signal", session.state)
  /\ UNCHANGED <<capVars, suspend, videoOk, unheard, store, written,
                 recordStart, file, stale, stopFrame, browseVars, starts, faults>>

SignalsStart ==
  /\ session.at = "signal"
  /\ recordStart' = TRUE
  /\ Goes("started", session.state)
  /\ UNCHANGED <<capVars, statusVars, store, written, counted, file, stale,
                 stopFrame, browseVars, starts, faults>>

\* setSessionState(RECORDING_SESSION_STATE), the last step of the start
IsRecording ==
  /\ session.at = "started"
  /\ Goes("idle", "recording")
  /\ UNCHANGED <<OutsideSession, suspend, recordingOk, abort, unheard,
                 stopFrame, starts>>

\* abort_record: wait until the store thread is done, if it is not already
AbortsRecord(state) ==
  /\ suspend' = TRUE
  /\ stopFrame' = IF recordStart THEN captured ELSE stopFrame
  /\ Goes("aborting", state)

\* The backup VTR does not record within 5 seconds
BackupFails ==
  /\ session.at = "started" /\ Backup
  /\ Fault
  /\ AbortsRecord("ready")
  /\ UNCHANGED <<capVars, videoOk, storeVars, browseVars, recordingOk, abort,
                 unheard, starts>>

\* stop_record: stop at the last frame captured, if there is a recording
Stop ==
  /\ session.at = "idle" /\ session.state = "recording" /\ ~abort
  /\ recordStart
  /\ stopFrame' = captured
  /\ Goes("stopping", "recording")
  /\ UNCHANGED <<OutsideSession, suspend, recordingOk, abort, unheard, starts>>

Stopped ==
  /\ session.at = "stopping" /\ ~recordStart
  /\ suspend' = TRUE
  /\ Goes("idle", "stopped")
  /\ UNCHANGED <<OutsideSession, recordingOk, abort, unheard, stopFrame, starts>>

\* abortInternal: requested aborts come before anything else.  A session that
\* does not record ends at once, and one that is only ready is deleted too.
Aborts ==
  /\ session.at = "idle" /\ abort
  /\ \/ session.state = "recording" /\ AbortsRecord("recording")
     \/ /\ session.state \in {"ready", "stopped"} /\ Goes("idle", "gone")
        /\ UNCHANGED <<suspend, stopFrame>>
  /\ UNCHANGED <<OutsideSession, recordingOk, abort, unheard, starts>>

\* mxfout->abort and remove: the file is gone
Aborted ==
  /\ session.at = "aborting" /\ ~recordStart
  /\ Goes("idle", IF session.state = "ready" THEN "ready" ELSE "gone")
  /\ UNCHANGED <<OutsideSession, suspend, recordingOk, abort, unheard,
                 stopFrame, starts>>

Completes ==
  /\ session.at = "idle" /\ session.state = "stopped" /\ ~abort
  /\ Goes("idle", "kept")
  /\ UNCHANGED <<OutsideSession, suspend, recordingOk, abort, unheard,
                 stopFrame, starts>>

Session == \/ SessionBegins \/ Start \/ Restarts \/ StartFails \/ Opens
           \/ ResetsStatus \/ SignalsStart \/ IsRecording \/ BackupFails
           \/ Stop \/ Stopped \/ Aborts \/ Aborted \/ Completes

ArchiveNext == Capture \/ Store \/ Browse \/ Session

\* The threads run, and the session thread does what it was asked.  The
\* signal need not come back.
ArchiveFairness ==
  /\ WF_vars(Store) /\ WF_vars(Browse)
  /\ WF_vars(CaptureSuspends \/ CaptureGets \/ (suspend /\ CaptureGoesOn)
             \/ CapturePuts \/ CaptureGivesUp \/ CapturePublishes)
  /\ WF_vars(Restarts \/ StartFails \/ Opens \/ ResetsStatus
             \/ SignalsStart \/ IsRecording \/ Stopped \/ Aborts
             \/ Aborted)

ArchiveSpec == ArchiveInit /\ [][ArchiveNext]_vars /\ ArchiveFairness

-----------------------------------------------------------------------------
(* Properties.                                                             *)

\* The state variables have their types.
ArchiveTypeOK ==
  /\ cap \in [at : {"top", "polling", "waitgood", "dma", "failed", "status"},
              start : BOOLEAN, prev : BOOLEAN, wait : 0 .. WaitGood, run : Nat]
  /\ ring \in [0 .. RingSize - 1 -> Frames \cup {Torn}]
  /\ captured \in -1 .. MaxFrame
  /\ {suspend, videoOk, recordingOk, recordStart, encoding, abort, stale,
      unheard, skipped} \subseteq BOOLEAN
  /\ store \in [at : {"look", "test", "check"}, captured : -1 .. MaxFrame,
                written : Int]
  /\ written \in Int /\ stopFrame \in Int /\ counted \in Nat
  /\ file \in Seq(Frames \cup {Torn})
  /\ browse \in [at : {"none", "open", "wait", "loop", "add", "check", "end"},
                 skip : 0 .. RingSize]
  /\ browseLast \in Int
  /\ slots \in [0 .. 1 -> Frames \cup {Torn, Black, Free, End}]
  /\ turn \in [write : 0 .. 1, read : 0 .. 1]
  /\ copy \in Seq(Frames \cup {Torn, Black})
  /\ session \in [at : {"idle", "restart", "open", "status", "signal",
                        "started", "stopping", "aborting"},
                  state : {"none", "ready", "recording", "stopped", "kept", "gone"},
                  first : -1 .. MaxFrame]
  /\ starts \in Nat /\ faults \in Nat

\* The frames that the archive file counts are those captured from the start
\* on, each whole, in order and once, although the card writes into the ring
\* meanwhile (store_video_thread checks for that before and after it writes a
\* frame).  The excuse: the thread looked at last_written() before the start
\* and found out after it that it is to record.
FileFaithful ==
  (session.state \in {"recording", "stopped", "kept"} /\ ~stale) =>
    \A k \in 1 .. counted : file[k].index = session.first + k - 1

\* A recording that is kept ends with the frame that was the last one
\* captured when it was stopped, and its file holds no more frames than it
\* counts: an overflow on the way there aborts it, at whatever moment the
\* request to stop came.
KeptIsWhole ==
  (session.state = "kept" /\ ~stale) =>
    /\ counted = stopFrame - session.first + 1
    /\ Len(file) = counted

\* A recording that is kept has no gap where the card was stopped and
\* started again.  The excuse: capture failed before the session was in the
\* recording state, when abortIfRecording does nothing.
NoGap ==
  (session.state = "kept" /\ ~unheard /\ ~stale) =>
    \A k \in 2 .. counted : file[k].run = file[k - 1].run

\* A recording whose capture has stopped or has lost its signal is about to
\* be aborted (sdiStatusChanged, sdiCaptureDroppedFrame), with the same
\* excuse.
DeadIsAborted ==
  (session.state = "recording" /\ (suspend \/ cap.at = "waitgood")) =>
    abort \/ unheard \/ session.at # "idle"

\* The browse copy shows the frames of the archive file, whole and one for
\* one, when the thread did not fall behind: the two slots are handed to and fro
\* without a lost, repeated or half-read frame.
BrowseMatches ==
  (session.state = "kept" /\ ~encoding /\ ~skipped /\ ~stale /\ BrowseEnabled) =>
    copy = file

\* stop_record and abort_record come to an end.
StopEnds == session.at \in {"stopping", "aborting"} ~> session.at = "idle"

\* The browse threads of a recording that has begun end after it, so that
\* the next recording can start.
BrowseDone == (browse.at = "loop" /\ ~recordStart) ~> ~encoding
=============================================================================
