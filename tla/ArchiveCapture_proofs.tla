----------------------- MODULE ArchiveCapture_proofs -----------------------
(***************************************************************************)
(* Proofs about ArchiveCapture, for every size of the ring, number of good *)
(* frames to wait for, number of recordings and of faults, with or without *)
(* a browse copy and a backup: the invariant ArchiveInv, of what each      *)
(* thread may rely on of the others, is inductive, and so is, with it,     *)
(* FileOfRing /\ CopySound, of the browse copy.                            *)
(***************************************************************************)
EXTENDS ArchiveCapture, RingPlaces, SequenceTheorems, TLAPS

-----------------------------------------------------------------------------
(* The inductive invariant *)

\* The capture thread: what it knows of itself at its places.
CaptureSound ==
  /\ cap.at \in {"dma", "status"} => captured < MaxFrame
  /\ cap.at \in {"dma", "status", "failed"} => videoOk /\ ~cap.start

\* The ring: the frames that the card is not about to overwrite are where they
\* belong, and so is the frame whose LTC is still to come.
InRing(i) == i \in 0 .. captured /\ i >= captured + 3 - RingSize
RingSound ==
  /\ \A i \in 0 .. captured : InRing(i) => ring[Slot(i)].index = i
  /\ cap.prev =>
       ring[Slot(captured + 1)] = [index |-> captured + 1, run |-> cap.run]
  /\ cap.at = "status" =>
       ring[Slot(Index)] = [index |-> Index, run |-> cap.run]

\* The session thread: its state at its places, and who may be recording.
Opened == \/ session.at \in {"open", "status", "signal", "started",
                             "stopping", "aborting"}
          \/ session.state \in {"recording", "stopped", "kept"}
SessionSound ==
  /\ Starting => session.state = "ready"
  /\ session.at = "stopping" => session.state = "recording"
  /\ session.at = "aborting" => session.state \in {"ready", "recording"}
  /\ session.first <= captured
  /\ Opened => session.first >= 0
  /\ session.at \in {"restart", "open", "status", "signal"} =>
       stopFrame = NotSet
  /\ recordStart => \/ session.at \in {"started", "stopping", "aborting"}
                    \/ session.at = "idle" /\ session.state = "recording"

\* The store thread: what it saw is not ahead of what there is.
StoreSound ==
  /\ -1 <= store.written /\ store.written <= written /\ written <= captured
  /\ store.captured <= captured
  /\ session.at = "restart" => written <= session.first
  /\ session.at = "open" => written < session.first
  /\ store.at = "check" =>
       /\ recordStart /\ store.written < captured
       /\ stopFrame # NotSet => store.written < stopFrame

\* A file is open and its frames are counted.
Recording == \/ session.at \in {"signal", "started", "stopping", "aborting"}
             \/ session.at = "idle" /\ session.state \in {"recording", "stopped", "kept"}

\* The file: the frames counted are the frames from the first one on.  A frame
\* not yet counted is the next one, unless the card has caught up with it; if
\* it has, the store thread writes no frame any more.
FileSound ==
  /\ session.at = "status" => file = <<>> /\ written = session.first - 1
  /\ (Recording /\ ~stale) =>
       /\ written = session.first - 1 + counted
       /\ Len(file) \in {counted, counted + 1}
       /\ \A k \in 1 .. counted : file[k].index = session.first + k - 1
       /\ store.at = "check" =>
            /\ store.written = written /\ Len(file) = counted + 1
            /\ ~Overrun(captured, written) =>
                 file[counted + 1].index = written + 1
       /\ Len(file) = counted + 1 =>
            /\ store.at = "look" => Overrun(captured, written)
            /\ store.at = "test" => /\ store.written = written
                                    /\ Overrun(store.captured, written)

\* Nothing has asked for the recording to be aborted.
Unharmed == session.state = "kept" \/ ~abort

\* The end: how far the file is when a recording that was not aborted is
\* stopped.
EndSound ==
  (Recording /\ ~stale /\ Unharmed) =>
    /\ store.at # "check" => Len(file) = counted
    /\ session.at = "idle" /\ session.state = "recording" =>
         recordStart /\ stopFrame = NotSet
    /\ session.at = "signal" => ~recordStart
    /\ session.at = "started" => recordStart /\ stopFrame = NotSet
    /\ session.at = "stopping" =>
         /\ stopFrame # NotSet /\ written <= stopFrame
         /\ ~recordStart => written = stopFrame
    /\ session.state \in {"stopped", "kept"} =>
         written = stopFrame

\* From the first frame until the recording is stopped.
Rolling == \/ session.at = "restart" /\ captured > session.first
           \/ session.at \in {"open", "status", "signal", "started", "stopping"}
           \/ session.at = "idle" /\ session.state = "recording"

\* As long as nothing was reported, or missed while starting, the card has
\* run since the first frame.
CardRuns ==
  /\ session.at = "restart" /\ cap.at \in {"dma", "status"} => ~suspend
  /\ (Rolling /\ ~abort /\ ~unheard) =>
       /\ ~suspend /\ cap.at \in {"top", "dma", "status"} /\ ~cap.start
       /\ cap.prev /\ videoOk
       /\ session.at \notin {"restart", "open", "status"} => recordingOk
       /\ \A i \in 0 .. captured :
            (InRing(i) /\ (IF session.at = "restart" THEN i = captured ELSE i >= session.first))
               => ring[Slot(i)].run = cap.run

\* The frames of one recording are of one run of the card.
OneRun ==
  (/\ Recording /\ session.at # "aborting"
   /\ ~stale /\ ~unheard /\ Unharmed) =>
    /\ \A j, k \in 1 .. counted : file[j].run = file[k].run
    /\ Rolling =>
         /\ \A k \in 1 .. counted : file[k].run = cap.run
         /\ store.at = "check" /\ ~Overrun(captured, written) =>
              file[counted + 1].run = cap.run

ArchiveInv ==
  /\ ArchiveTypeOK /\ CaptureSound /\ RingSound /\ SessionSound /\ StoreSound
  /\ FileSound /\ EndSound /\ CardRuns /\ OneRun

-----------------------------------------------------------------------------
(* Who writes what *)

LEMMA CaptureFrame ==
  Store \/ Browse \/ Session \/ UNCHANGED vars => UNCHANGED capVars
<1>1. Store => UNCHANGED capVars
  BY DEF Store, StoreLooks, StoreStops, StoreWaits, StoreOverflows, StoreWrites,
         StoreCounts
<1>2. Browse => UNCHANGED capVars
  BY DEF Browse, BrowseOpens, BrowseBegins, BrowseStops, BrowseOverflows, BrowsePicks,
         BrowseAdds, BrowseCounts, BrowseEnds, Encodes,
         OutsideBrowse
<1>3. Session => UNCHANGED capVars
  BY DEF Session, SessionBegins, Start, Restarts, StartFails,
         Opens, ResetsStatus, SignalsStart, IsRecording, BackupFails, Stop,
         Stopped, Aborts, Aborted, Completes,
         OutsideSession
<1> QED BY <1>1, <1>2, <1>3 DEF vars

LEMMA StoreFrame ==
  [ArchiveNext]_vars =>
    Store \/ Opens \/ ResetsStatus \/ SignalsStart \/ UNCHANGED storeVars
<1>1. Capture => UNCHANGED storeVars
  BY DEF Capture, CaptureSuspends, CapturePolls, CaptureGets, CaptureFails,
         CaptureGoesOn, CapturePuts, CapturePutFails, CaptureGivesUp,
         CaptureDrops, CapturePublishes, storeVars
<1>2. Browse => UNCHANGED storeVars
  BY DEF Browse, BrowseOpens, BrowseBegins, BrowseStops, BrowseOverflows, BrowsePicks,
         BrowseAdds, BrowseCounts, BrowseEnds, Encodes,
         OutsideBrowse
<1>3. Session => Opens \/ ResetsStatus \/ SignalsStart \/ UNCHANGED storeVars
  BY DEF Session, SessionBegins, Start, Restarts, StartFails,
         IsRecording, BackupFails, Stop, Stopped, Aborts, Aborted, Completes,
         OutsideSession
<1> QED BY <1>1, <1>2, <1>3 DEF vars, ArchiveNext

LEMMA BrowseFrame ==
  [ArchiveNext]_vars => Browse \/ Opens \/ UNCHANGED browseVars
<1>1. Capture => UNCHANGED browseVars
  BY DEF Capture, CaptureSuspends, CapturePolls, CaptureGets, CaptureFails,
         CaptureGoesOn, CapturePuts, CapturePutFails, CaptureGivesUp,
         CaptureDrops, CapturePublishes, browseVars
<1>2. Store => UNCHANGED browseVars
  BY DEF Store, StoreLooks, StoreStops, StoreWaits, StoreOverflows, StoreWrites,
         StoreCounts, browseVars
<1>3. Session => Opens \/ UNCHANGED browseVars
  BY DEF Session, SessionBegins, Start, Restarts, StartFails,
         ResetsStatus, SignalsStart, IsRecording, BackupFails, Stop, Stopped,
         Aborts, Aborted, Completes,
         OutsideSession
<1> QED BY <1>1, <1>2, <1>3 DEF vars, ArchiveNext

LEMMA SessionFrame ==
  Capture \/ Store \/ Browse \/ UNCHANGED vars => UNCHANGED session
<1>1. Capture => UNCHANGED session
  BY DEF Capture, CaptureSuspends, CapturePolls, CaptureGets, CaptureFails,
         CaptureGoesOn, CapturePuts, CapturePutFails, CaptureGivesUp,
         CaptureDrops, CapturePublishes
<1>2. Store => UNCHANGED session
  BY DEF Store, StoreLooks, StoreStops, StoreWaits, StoreOverflows, StoreWrites,
         StoreCounts
<1>3. Browse => UNCHANGED session
  BY DEF Browse, BrowseOpens, BrowseBegins, BrowseStops, BrowseOverflows, BrowsePicks,
         BrowseAdds, BrowseCounts, BrowseEnds, Encodes,
         OutsideBrowse
<1> QED BY <1>1, <1>2, <1>3 DEF vars

-----------------------------------------------------------------------------
(* Types *)

CaptureTypes ==
  /\ cap \in [at : {"top", "polling", "waitgood", "dma", "failed", "status"},
              start : BOOLEAN, prev : BOOLEAN, wait : 0 .. WaitGood, run : Nat]
  /\ ring \in [0 .. RingSize - 1 -> Frames \cup {Torn}]
  /\ captured \in -1 .. MaxFrame
StatusTypes ==
  /\ suspend \in BOOLEAN /\ videoOk \in BOOLEAN /\ recordingOk \in BOOLEAN
  /\ abort \in BOOLEAN /\ unheard \in BOOLEAN
StoreTypes ==
  /\ store \in [at : {"look", "test", "check"}, captured : -1 .. MaxFrame,
                written : Int]
  /\ written \in Int /\ counted \in Nat
  /\ recordStart \in BOOLEAN /\ stale \in BOOLEAN
  /\ file \in Seq(Frames \cup {Torn})
BrowseTypes ==
  /\ browse \in [at : {"none", "open", "wait", "loop", "add", "check", "end"},
                 skip : 0 .. RingSize]
  /\ browseLast \in Int
  /\ slots \in [0 .. 1 -> Frames \cup {Torn, Black, Free, End}]
  /\ turn \in [write : 0 .. 1, read : 0 .. 1]
  /\ encoding \in BOOLEAN /\ skipped \in BOOLEAN
  /\ copy \in Seq(Frames \cup {Torn, Black})
SessionTypes ==
  /\ session \in [at : {"idle", "restart", "open", "status", "signal",
                        "started", "stopping", "aborting"},
                  state : {"none", "ready", "recording", "stopped", "kept", "gone"},
                  first : -1 .. MaxFrame]
RestTypes == stopFrame \in Int /\ starts \in Nat /\ faults \in Nat

LEMMA Types ==
  ArchiveTypeOK <=> /\ CaptureTypes /\ StatusTypes /\ StoreTypes
                    /\ BrowseTypes /\ SessionTypes /\ RestTypes
  BY DEF ArchiveTypeOK, CaptureTypes, StatusTypes, StoreTypes, BrowseTypes,
         SessionTypes, RestTypes

LEMMA SlotType == \A i \in Int : Slot(i) \in 0 .. RingSize - 1
  BY ArchiveAssumption DEF Slot

LEMMA CaptureTypesStep ==
  CaptureTypes /\ CaptureSound /\ Capture => CaptureTypes'
<1> SUFFICES ASSUME CaptureTypes, CaptureSound, Capture PROVE CaptureTypes'
  OBVIOUS
<1> USE ArchiveAssumption DEF CaptureTypes
<1>1. CASE CaptureGets
  <2>1. cap' \in [at : {"top", "polling", "waitgood", "dma", "failed", "status"},
              start : BOOLEAN, prev : BOOLEAN, wait : 0 .. WaitGood, run : Nat]
    BY <1>1 DEF CaptureGets, StartFifo, HavePrev
  <2>2. ring' \in [0 .. RingSize - 1 -> Frames \cup {Torn}]
    BY <1>1 DEF CaptureGets
  <2> QED BY <2>1, <2>2, <1>1 DEF CaptureGets
<1>2. CASE CapturePuts
  <2>1. [index |-> Index, run |-> cap.run] \in Frames
    BY <1>2 DEF CapturePuts, Index, Frames, CaptureSound
  <2>2. ring' \in [0 .. RingSize - 1 -> Frames \cup {Torn}]
    BY <2>1, <1>2 DEF CapturePuts
  <2>3. cap' \in [at : {"top", "polling", "waitgood", "dma", "failed", "status"},
              start : BOOLEAN, prev : BOOLEAN, wait : 0 .. WaitGood, run : Nat]
    <3>1. CASE cap.wait > 0
      <4>1. cap.wait - 1 \in 0 .. WaitGood
        BY <3>1
      <4>2. cap' = [cap EXCEPT !.at = "top", !.wait = cap.wait - 1]
        BY <1>2, <3>1 DEF CapturePuts
      <4> QED BY <4>1, <4>2
    <3>2. CASE ~ (cap.wait > 0)
      BY <1>2, <3>2 DEF CapturePuts, At
    <3> QED BY <3>1, <3>2
  <2> QED BY <2>2, <2>3, <1>2 DEF CapturePuts
<1>3. CASE CapturePublishes
  <2>1. captured' \in -1 .. MaxFrame
    BY <1>3 DEF CapturePublishes, CaptureSound
  <2> QED BY <2>1, <1>3 DEF CapturePublishes
<1>4. CASE \/ CaptureSuspends \/ CapturePolls \/ CaptureFails \/ CaptureGoesOn
           \/ CapturePutFails \/ CaptureGivesUp \/ CaptureDrops
  <2>1. /\ UNCHANGED <<ring, captured>>
        /\ \E p \in {"top", "polling", "waitgood", "dma", "failed", "status"},
              b \in BOOLEAN : cap' = [cap EXCEPT !.at = p, !.start = b]
              \/ cap' = [cap EXCEPT !.at = p] \/ cap' = cap
    BY <1>4 DEF CaptureSuspends, CapturePolls, CaptureFails, CaptureGoesOn,
                CapturePutFails, CaptureGivesUp, CaptureDrops, At, capVars
  <2> QED BY <2>1
<1> QED BY <1>1, <1>2, <1>3, <1>4 DEF Capture

LEMMA StoreTypesStep ==
  CaptureTypes /\ StoreTypes /\ SessionTypes /\ [ArchiveNext]_vars => StoreTypes'
<1> SUFFICES ASSUME CaptureTypes, StoreTypes, SessionTypes, [ArchiveNext]_vars
             PROVE  StoreTypes'
  OBVIOUS
<1>1. CASE StoreLooks
  BY <1>1 DEF StoreLooks, StoreTypes, CaptureTypes
<1>2. CASE StoreStops
  BY <1>2 DEF StoreStops, StoreTypes
<1>3. CASE StoreWaits
  BY <1>3 DEF StoreWaits, StoreTypes
<1>4. CASE StoreOverflows
  BY <1>4 DEF StoreOverflows, StoreTypes
<1>5. CASE StoreWrites
  <2>1. ring[Slot(store.written + 1)] \in Frames \cup {Torn}
    <3>1. store.written + 1 \in Int
      BY DEF StoreTypes
    <3>2. Slot(store.written + 1) \in 0 .. RingSize - 1
      BY <3>1, SlotType
    <3> QED BY <3>2 DEF CaptureTypes
  <2>2. file' \in Seq(Frames \cup {Torn})
    BY <2>1, <1>5, AppendProperties DEF StoreWrites, StoreTypes
  <2> QED BY <2>2, <1>5 DEF StoreWrites, StoreTypes
<1>6. CASE StoreCounts
  BY <1>6 DEF StoreCounts, StoreTypes
<1>7. CASE Opens
  <2>1. <<>> \in Seq(Frames \cup {Torn})
    OBVIOUS
  <2>2. /\ file' = <<>> /\ written' = session.first - 1 /\ stale' = FALSE
        /\ UNCHANGED <<store, recordStart, counted>>
    BY <1>7 DEF Opens
  <2>3. written' \in Int
    BY <2>2 DEF SessionTypes
  <2> QED BY <2>1, <2>2, <2>3 DEF StoreTypes
<1>8. CASE ResetsStatus
  BY <1>8 DEF ResetsStatus, StoreTypes
<1>9. CASE SignalsStart
  BY <1>9 DEF SignalsStart, StoreTypes
<1>10. CASE UNCHANGED storeVars
  BY <1>10 DEF storeVars, StoreTypes
<1> QED BY <1>1, <1>2, <1>3, <1>4, <1>5, <1>6, <1>7, <1>8, <1>9, <1>10,
           StoreFrame DEF Store

LEMMA BrowseTypesStep ==
  CaptureTypes /\ BrowseTypes /\ SessionTypes /\ [ArchiveNext]_vars => BrowseTypes'
<1> SUFFICES ASSUME CaptureTypes, BrowseTypes, SessionTypes, [ArchiveNext]_vars
             PROVE  BrowseTypes'
  OBVIOUS
<1> USE DEF BrowseTypes
<1>1. CASE BrowseOpens \/ BrowseBegins \/ BrowseStops \/ BrowsePicks
  BY <1>1 DEF BrowseOpens, BrowseBegins, BrowseStops, BrowsePicks, BrowseAt
<1>2. CASE BrowseOverflows
  BY <1>2, ArchiveAssumption DEF BrowseOverflows, Less
<1>3. ASSUME NEW x \in Frames \cup {Torn, Black, Free, End}, HandOver(x)
      PROVE  /\ slots' \in [0 .. 1 -> Frames \cup {Torn, Black, Free, End}]
             /\ turn' \in [write : 0 .. 1, read : 0 .. 1]
  <2>1. WriteSlot \in 0 .. 1
    BY DEF WriteSlot
  <2> QED BY <1>3, <2>1 DEF HandOver
<1>4. CASE BrowseAdds
  <2> DEFINE x == IF browse.skip > 0 THEN Black ELSE ring[Slot(browseLast + 1)]
  <2>1. x \in Frames \cup {Torn, Black, Free, End}
    <3>1. Slot(browseLast + 1) \in 0 .. RingSize - 1
      BY SlotType
    <3> QED BY <3>1 DEF CaptureTypes
  <2>2. HandOver(x) /\ UNCHANGED <<browseLast, encoding, copy, skipped>>
        /\ browse' = [at |-> "check",
                      skip |-> IF browse.skip > 0 THEN browse.skip - 1 ELSE 0]
    BY <1>4 DEF BrowseAdds
  <2> HIDE DEF x
  <2>3. browse'.skip \in 0 .. RingSize /\ browse' = [at |-> "check", skip |-> browse'.skip]
    BY <2>2, ArchiveAssumption
  <2> QED BY <1>3, <2>1, <2>2, <2>3
<1>5. CASE BrowseCounts
  BY <1>5 DEF BrowseCounts, BrowseAt
<1>6. CASE BrowseEnds
  BY <1>6, <1>3 DEF BrowseEnds, BrowseAt
<1>7. CASE Encodes
  <2>1. ReadSlot \in 0 .. 1
    BY DEF ReadSlot
  <2>2. turn' \in [write : 0 .. 1, read : 0 .. 1]
    BY <2>1, <1>7 DEF Encodes
  <2>3. CASE slots[ReadSlot] = End
    BY <2>2, <2>3, <1>7 DEF Encodes
  <2>4. CASE slots[ReadSlot] # End
    <3>1. slots[ReadSlot] \in Frames \cup {Torn, Black}
      BY <2>1, <2>4, <1>7 DEF Encodes
    <3>2. copy' \in Seq(Frames \cup {Torn, Black})
      BY <3>1, <2>4, <1>7, AppendProperties DEF Encodes
    <3>3. slots' \in [0 .. 1 -> Frames \cup {Torn, Black, Free, End}]
      BY <2>1, <2>4, <1>7 DEF Encodes
    <3> QED BY <2>2, <2>4, <3>2, <3>3, <1>7 DEF Encodes
  <2> QED BY <2>3, <2>4
<1>8. CASE Opens
  <2>1. <<>> \in Seq(Frames \cup {Torn, Black})
    OBVIOUS
  <2>2. CASE BrowseEnabled
    <3>1. /\ browseLast' = session.first - 1
          /\ browse' = [at |-> "open", skip |-> 0]
          /\ slots' = [s \in 0 .. 1 |-> Free]
          /\ turn' = [write |-> 0, read |-> 0]
          /\ encoding' = TRUE /\ copy' = <<>> /\ skipped' = FALSE
      BY <1>8, <2>2 DEF Opens
    <3>2. browseLast' \in Int
      BY <3>1 DEF SessionTypes
    <3>3. browse' \in [at : {"none", "open", "wait", "loop", "add", "check", "end"},
                       skip : 0 .. RingSize]
      BY <3>1, ArchiveAssumption
    <3>4. turn' \in [write : 0 .. 1, read : 0 .. 1]
      BY <3>1
    <3> QED BY <2>1, <3>1, <3>2, <3>3, <3>4
  <2>3. CASE ~BrowseEnabled
    BY <1>8, <2>3 DEF Opens, browseVars
  <2> QED BY <2>2, <2>3
<1>9. CASE UNCHANGED browseVars
  BY <1>9 DEF browseVars
<1> QED BY <1>1, <1>2, <1>4, <1>5, <1>6, <1>7, <1>8, <1>9, BrowseFrame
        DEF Browse

LEMMA SessionTypesStep ==
  CaptureTypes /\ SessionTypes /\ Session => SessionTypes'
  BY DEF CaptureTypes, SessionTypes, Session, SessionBegins,
         Start, Restarts, StartFails, Opens,
         ResetsStatus, SignalsStart, IsRecording, BackupFails, Stop, Stopped,
         Aborts, Aborted, Completes, Goes, AbortsRecord, OutsideSession

LEMMA StatusTypesStep ==
  StatusTypes /\ SessionTypes /\ [ArchiveNext]_vars => StatusTypes'
<1> SUFFICES ASSUME StatusTypes, SessionTypes, [ArchiveNext]_vars
             PROVE  StatusTypes'
  OBVIOUS
<1>a. Starting \in BOOLEAN
  BY DEF Starting
<1>1. CASE Capture
  BY <1>1, <1>a DEF StatusTypes, Capture, CaptureSuspends, CapturePolls,
     CaptureGets, CaptureFails, CaptureGoesOn, CapturePuts, CapturePutFails,
     CaptureGivesUp, CaptureDrops, CapturePublishes, statusVars, SetVideo,
     SetRecording, SdiStatusChanged, Alarm
<1>2. CASE Store
  BY <1>2 DEF StatusTypes, Store, StoreLooks, StoreStops, StoreWaits,
     StoreOverflows, StoreWrites, StoreCounts, statusVars, Alarm
<1>3. CASE Browse
  BY <1>3 DEF StatusTypes, Browse, BrowseOpens, BrowseBegins, BrowseStops,
     BrowseOverflows, BrowsePicks, BrowseAdds, BrowseCounts, BrowseEnds,
     Encodes, OutsideBrowse, statusVars
<1>4. CASE Session
  BY <1>4 DEF StatusTypes, Session, SessionBegins,
     Start, Restarts, StartFails, Opens, ResetsStatus,
     SignalsStart, IsRecording, BackupFails, Stop, Stopped, Aborts, Aborted,
     Completes, AbortsRecord, OutsideSession, statusVars, SetRecording,
     SdiStatusChanged
<1> QED BY <1>1, <1>2, <1>3, <1>4 DEF ArchiveNext, vars, statusVars, StatusTypes

LEMMA RestTypesStep ==
  /\ RestTypes /\ CaptureTypes /\ StoreTypes /\ [ArchiveNext]_vars
  => RestTypes'
<1> SUFFICES ASSUME RestTypes, CaptureTypes, StoreTypes, [ArchiveNext]_vars
             PROVE  RestTypes'
  OBVIOUS
<1> USE DEF RestTypes, Fault
<1>1. CASE Capture
  <2>1. UNCHANGED <<stopFrame, starts>> /\ (UNCHANGED faults \/ Fault)
    BY <1>1 DEF Capture, CaptureSuspends, CapturePolls,
       CaptureGets, CaptureFails, CaptureGoesOn, CapturePuts, CapturePutFails,
       CaptureGivesUp, CaptureDrops, CapturePublishes
  <2> QED BY <2>1
<1>2. CASE Store
  BY <1>2 DEF StoreTypes, Store, StoreLooks, StoreStops, StoreWaits,
     StoreOverflows, StoreWrites, StoreCounts
<1>3. CASE Browse
  BY <1>3 DEF Browse, BrowseOpens, BrowseBegins, BrowseStops,
     BrowseOverflows, BrowsePicks, BrowseAdds, BrowseCounts, BrowseEnds,
     Encodes, OutsideBrowse
<1>4. CASE Session
  <2>1. /\ stopFrame' \in {stopFrame, captured, NotSet}
        /\ starts' \in {starts, starts + 1}
        /\ UNCHANGED faults \/ Fault
    BY <1>4 DEF Session, SessionBegins,
       Start, Restarts, StartFails, Opens, ResetsStatus,
       SignalsStart, IsRecording, BackupFails, Stop, Stopped, Aborts, Aborted,
       Completes, AbortsRecord, OutsideSession
  <2> QED BY <2>1 DEF CaptureTypes, NotSet
<1> QED BY <1>1, <1>2, <1>3, <1>4 DEF ArchiveNext, vars

LEMMA ArchiveTypeStep ==
  ArchiveTypeOK /\ CaptureSound /\ [ArchiveNext]_vars => ArchiveTypeOK'
<1>1. CaptureTypes /\ UNCHANGED capVars => CaptureTypes'
  BY DEF CaptureTypes, capVars
<1>2. SessionTypes /\ UNCHANGED session => SessionTypes'
  BY DEF SessionTypes
<1> SUFFICES ASSUME ArchiveTypeOK, CaptureSound, [ArchiveNext]_vars
             PROVE  ArchiveTypeOK'
  OBVIOUS
<1>3. CaptureTypes'
  BY <1>1, CaptureFrame, CaptureTypesStep, Types DEF ArchiveNext
<1>4. SessionTypes'
  BY <1>2, SessionFrame, SessionTypesStep, Types DEF ArchiveNext
<1>5. StatusTypes' /\ StoreTypes' /\ BrowseTypes' /\ RestTypes'
  BY StatusTypesStep, StoreTypesStep, BrowseTypesStep, RestTypesStep, Types
<1> QED BY <1>3, <1>4, <1>5
        DEF ArchiveTypeOK, CaptureTypes, StatusTypes, StoreTypes, BrowseTypes,
            SessionTypes, RestTypes

-----------------------------------------------------------------------------
(* The capture thread and the ring *)

LEMMA SlotApart ==
  ASSUME NEW i \in Nat, NEW j \in Nat, i # j,
         i < j + RingSize, j < i + RingSize
  PROVE  Slot(i) # Slot(j)
<1>1. RingSize \in Nat \ {0}
  BY ArchiveAssumption
<1>2. i \in Int /\ j \in Int /\ (i < j \/ j < i)
  OBVIOUS
<1>3. i % RingSize # j % RingSize
  BY <1>1, <1>2, ModDistinct
<1> QED BY <1>3 DEF Slot

LEMMA VideoFrame ==
  Store \/ Browse \/ Session \/ UNCHANGED vars => UNCHANGED videoOk
<1>1. Store => UNCHANGED videoOk
  BY DEF Store, StoreLooks, StoreStops, StoreWaits, StoreOverflows,
         StoreWrites, StoreCounts, statusVars
<1>2. Browse => UNCHANGED videoOk
  BY DEF Browse, BrowseOpens, BrowseBegins, BrowseStops, BrowseOverflows,
         BrowsePicks, BrowseAdds, BrowseCounts, BrowseEnds, Encodes,
         OutsideBrowse, statusVars
<1>3. Session => UNCHANGED videoOk
  BY DEF Session, SessionBegins, Start, Restarts,
         StartFails, Opens, ResetsStatus, SignalsStart, IsRecording,
         BackupFails, Stop, Stopped, Aborts, Aborted, Completes,
         OutsideSession, statusVars
<1> QED BY <1>1, <1>2, <1>3 DEF vars, statusVars

LEMMA CaptureSoundStep ==
  CaptureTypes /\ CaptureSound /\ [ArchiveNext]_vars => CaptureSound'
<1> SUFFICES ASSUME CaptureTypes, CaptureSound, [ArchiveNext]_vars
             PROVE  CaptureSound'
  OBVIOUS
<1> USE DEF CaptureTypes, CaptureSound
<1>1. CASE CaptureGets
  <2>1. /\ cap'.at = "dma" /\ cap'.start = FALSE /\ videoOk' = TRUE
        /\ captured' = captured /\ captured < MaxFrame
    BY <1>1 DEF CaptureGets, SetVideo
  <2> QED BY <2>1
<1>2. CASE CapturePuts
  BY <1>2 DEF CapturePuts, At, statusVars
<1>3. CASE CapturePutFails
  BY <1>3 DEF CapturePutFails, At
<1>4. CASE \/ CaptureSuspends \/ CapturePolls \/ CaptureFails \/ CaptureGoesOn
           \/ CaptureGivesUp \/ CaptureDrops \/ CapturePublishes
  <2>1. cap'.at \in {"top", "polling", "waitgood"}
    BY <1>4 DEF CaptureSuspends, CapturePolls, CaptureFails, CaptureGoesOn,
                CaptureGivesUp, CaptureDrops, CapturePublishes, At, capVars
  <2> QED BY <2>1
<1>5. CASE UNCHANGED capVars /\ UNCHANGED videoOk
  BY <1>5 DEF capVars
<1> QED BY <1>1, <1>2, <1>3, <1>4, <1>5, CaptureFrame, VideoFrame
        DEF ArchiveNext, Capture

\* Only the slot after the last frame captured, or the one after that, is
\* overwritten, so that the frames in the ring stay.
LEMMA RingKept ==
  ASSUME CaptureTypes, NEW f \in {captured + 1, captured + 2}, NEW x,
         ring' = [ring EXCEPT ![Slot(f)] = x]
  PROVE  /\ Slot(f) \in 0 .. RingSize - 1 /\ ring'[Slot(f)] = x
         /\ \A i \in 0 .. captured : InRing(i) => ring'[Slot(i)] = ring[Slot(i)]
         /\ f = captured + 2 => ring'[Slot(captured + 1)] = ring[Slot(captured + 1)]
<1>1. captured \in Int /\ captured >= -1 /\ f \in Nat /\ RingSize \in Nat /\ RingSize >= 3
  BY ArchiveAssumption DEF CaptureTypes
<1>2. Slot(f) \in 0 .. RingSize - 1 /\ ring'[Slot(f)] = x
  <2>1. Slot(f) \in 0 .. RingSize - 1
    BY <1>1, SlotType
  <2>2. Slot(f) \in DOMAIN ring
    BY <2>1 DEF CaptureTypes
  <2> QED BY <2>1, <2>2
<1>3. ASSUME NEW i \in 0 .. captured, InRing(i) PROVE ring'[Slot(i)] = ring[Slot(i)]
  <2>1. i \in Nat /\ i # f /\ i < f + RingSize /\ f < i + RingSize
    BY <1>1, <1>3 DEF InRing
  <2>2. Slot(i) # Slot(f) /\ Slot(i) \in 0 .. RingSize - 1
    BY <1>1, <2>1, SlotApart, SlotType
  <2> QED BY <2>2 DEF CaptureTypes
<1>4. ASSUME f = captured + 2 PROVE ring'[Slot(captured + 1)] = ring[Slot(captured + 1)]
  <2>1. /\ captured + 1 \in Nat /\ captured + 1 # f
        /\ captured + 1 < f + RingSize /\ f < captured + 1 + RingSize
    BY <1>1, <1>4
  <2>2. Slot(captured + 1) # Slot(f) /\ Slot(captured + 1) \in 0 .. RingSize - 1
    BY <1>1, <2>1, SlotApart, SlotType
  <2> QED BY <2>2 DEF CaptureTypes
<1> QED BY <1>2, <1>3, <1>4

LEMMA RingSoundStep ==
  CaptureTypes /\ RingSound /\ [ArchiveNext]_vars => RingSound'
<1> SUFFICES ASSUME CaptureTypes, RingSound, [ArchiveNext]_vars
             PROVE  RingSound'
  OBVIOUS
<1>a. /\ captured \in Int /\ captured >= -1 /\ cap.prev \in BOOLEAN
      /\ RingSize \in Nat /\ RingSize >= 3
  BY ArchiveAssumption DEF CaptureTypes
<1>1. CASE CaptureGets
  <2>1. /\ cap'.at = "dma" /\ cap'.prev = HavePrev
        /\ HavePrev => cap.prev /\ cap'.run = cap.run
        /\ captured' = captured
        /\ ring' = [ring EXCEPT ![Slot(captured + (IF HavePrev THEN 2 ELSE 1))] = Torn]
    BY <1>1 DEF CaptureGets, HavePrev
  <2>2. /\ \A i \in 0 .. captured : InRing(i) => ring'[Slot(i)] = ring[Slot(i)]
        /\ HavePrev => ring'[Slot(captured + 1)] = ring[Slot(captured + 1)]
    <3>1. CASE HavePrev
      BY <2>1, <3>1, RingKept
    <3>2. CASE ~HavePrev
      BY <2>1, <3>2, RingKept
    <3> QED BY <3>1, <3>2
  <2> QED BY <2>1, <2>2 DEF RingSound, InRing
<1>2. CASE CapturePuts
  <2>1. /\ ring' = [ring EXCEPT ![Slot(Index)] = [index |-> Index, run |-> cap.run]]
        /\ captured' = captured
        /\ cap'.prev = cap.prev /\ cap'.run = cap.run
    BY <1>2 DEF CapturePuts, At, CaptureTypes
  <2>2. /\ \A i \in 0 .. captured : InRing(i) => ring'[Slot(i)] = ring[Slot(i)]
        /\ cap.prev => ring'[Slot(captured + 1)] = ring[Slot(captured + 1)]
        /\ ring'[Slot(Index)] = [index |-> Index, run |-> cap.run]
    <3>1. CASE cap.prev
      BY <2>1, <3>1, RingKept DEF Index
    <3>2. CASE ~cap.prev
      BY <2>1, <3>2, RingKept DEF Index
    <3> QED BY <3>1, <3>2, <1>a
  <2>3. Index' = Index
    BY <2>1 DEF Index
  <2> QED BY <2>1, <2>2, <2>3 DEF RingSound, InRing
<1>3. CASE CapturePublishes
  <2>1. /\ cap.at = "status" /\ cap'.at = "top" /\ cap'.prev = TRUE
        /\ cap'.run = cap.run /\ ring' = ring
        /\ captured' = IF cap.prev THEN captured + 1 ELSE captured
    BY <1>3 DEF CapturePublishes, CaptureTypes
  <2>2. CASE cap.prev
    <3>1. captured' = captured + 1 /\ Index = captured' + 1
      BY <2>1, <2>2, <1>a DEF Index
    <3>2. ASSUME NEW i \in 0 .. captured', InRing(i)'
          PROVE  ring'[Slot(i)].index = i
      <4>1. CASE i = captured'
        BY <2>1, <2>2, <3>1, <4>1 DEF RingSound
      <4>2. CASE i # captured'
        <5>1. i \in 0 .. captured /\ InRing(i)
          BY <3>1, <3>2, <4>2, <1>a DEF InRing
        <5> QED BY <5>1, <2>1 DEF RingSound
      <4> QED BY <4>1, <4>2
    <3> QED BY <2>1, <3>1, <3>2 DEF RingSound
  <2>3. CASE ~cap.prev
    <3>1. captured' = captured /\ Index = captured' + 1
      BY <2>1, <2>3 DEF Index
    <3> QED BY <2>1, <3>1 DEF RingSound, InRing
  <2> QED BY <2>2, <2>3, <1>a
<1>4. CASE \/ CaptureSuspends \/ CapturePolls \/ CaptureFails \/ CaptureGoesOn
           \/ CapturePutFails \/ CaptureGivesUp \/ CaptureDrops
  <2>1. /\ UNCHANGED <<ring, captured>> /\ cap'.at # "status"
        /\ cap'.prev = cap.prev /\ cap'.run = cap.run
    BY <1>4 DEF CaptureSuspends, CapturePolls, CaptureFails, CaptureGoesOn,
                CapturePutFails, CaptureGivesUp, CaptureDrops, At, capVars,
                CaptureTypes
  <2> QED BY <2>1 DEF RingSound, InRing
<1>5. CASE UNCHANGED capVars
  BY <1>5 DEF capVars, RingSound, InRing, Index
<1> QED BY <1>1, <1>2, <1>3, <1>4, <1>5, CaptureFrame
        DEF ArchiveNext, Capture

-----------------------------------------------------------------------------
(* The session and the store thread *)

LEMMA CaptureGrows ==
  ASSUME CaptureTypes, Capture
  PROVE  /\ captured' \in {captured, captured + 1} /\ captured' >= captured
         /\ UNCHANGED <<session, stopFrame, storeVars>>
<1>1. /\ captured' \in {captured, captured + 1}
      /\ UNCHANGED <<session, stopFrame, storeVars>>
  BY DEF Capture, CaptureSuspends, CapturePolls, CaptureGets, CaptureFails,
         CaptureGoesOn, CapturePuts, CapturePutFails, CaptureGivesUp,
         CaptureDrops, CapturePublishes, capVars, storeVars
<1> QED BY <1>1 DEF CaptureTypes

LEMMA BrowseLeaves ==
  Browse \/ UNCHANGED vars =>
    UNCHANGED <<capVars, statusVars, storeVars, stopFrame, session>>
  BY DEF Browse, BrowseOpens, BrowseBegins, BrowseStops, BrowseOverflows,
         BrowsePicks, BrowseAdds, BrowseCounts, BrowseEnds, Encodes,
         OutsideBrowse, vars

\* What the store thread does to its variables and to the frame to stop at.
LEMMA StoreLeaves ==
  ASSUME StoreTypes, StoreSound, Store
  PROVE  /\ UNCHANGED <<capVars, session>>
         /\ recordStart' => recordStart
         /\ UNCHANGED stopFrame \/ (recordStart /\ stopFrame' = store.written)
  BY DEF Store, StoreLooks, StoreStops, StoreWaits, StoreOverflows,
         StoreWrites, StoreCounts, StoreHasFrame, StoreSound, StoreTypes

\* What the actions of the session thread do to its own variables and to those
\* that it shares with the store thread.
LEMMA GoesTo ==
  ASSUME SessionTypes, NEW p, NEW s, Goes(p, s)
  PROVE  /\ session'.at = p /\ session'.state = s
         /\ session'.first = session.first
  BY DEF SessionTypes, Goes

SessionSame == /\ session'.at = session.at /\ session'.state = session.state
               /\ session'.first = session.first
Moved(p, s) == /\ session'.at = p /\ session'.state = s
               /\ session'.first = session.first

LEMMA SessionMoves ==
  ASSUME SessionTypes
  PROVE  /\ SessionBegins => /\ session.at = "idle" /\ Moved("idle", "ready")
                             /\ session.state \in {"none", "kept", "gone"}
                             /\ UNCHANGED <<storeVars, stopFrame>>
         /\ Start => /\ session.at = "idle" /\ session.state = "ready"
                     /\ UNCHANGED storeVars
                     /\ \/ SessionSame /\ UNCHANGED stopFrame
                        \/ /\ session'.at = "restart" /\ session'.state = "ready"
                           /\ session'.first = captured
                           /\ ~recordStart /\ stopFrame' = NotSet
         /\ Restarts => /\ session.at = "restart" /\ captured > session.first
                        /\ session'.at = "open" /\ session'.first = captured
                        /\ session'.state = session.state
                        /\ UNCHANGED <<storeVars, stopFrame>>
         /\ StartFails => /\ session.at \in {"restart", "open"}
                          /\ Moved("idle", "ready")
                          /\ UNCHANGED <<storeVars, stopFrame>>
         /\ Opens => /\ session.at = "open" /\ Moved("status", session.state)
                     /\ file' = <<>> /\ written' = session.first - 1
                     /\ stale' = FALSE
                     /\ UNCHANGED <<store, recordStart, counted, stopFrame>>
         /\ ResetsStatus => /\ session.at = "status"
                            /\ Moved("signal", session.state) /\ counted' = 0
                            /\ UNCHANGED <<store, written, recordStart, file,
                                           stale, stopFrame>>
         /\ SignalsStart => /\ session.at = "signal"
                            /\ Moved("started", session.state)
                            /\ recordStart' = TRUE
                            /\ UNCHANGED <<store, written, counted, file,
                                           stale, stopFrame>>
         /\ IsRecording => /\ session.at = "started"
                           /\ Moved("idle", "recording")
                           /\ UNCHANGED <<storeVars, stopFrame>>
         /\ BackupFails => /\ session.at = "started"
                           /\ Moved("aborting", "ready")
                           /\ UNCHANGED storeVars
                           /\ stopFrame' \in {stopFrame, captured}
         /\ Stop => /\ session.at = "idle" /\ session.state = "recording"
                    /\ ~abort /\ recordStart /\ Moved("stopping", "recording")
                    /\ UNCHANGED storeVars /\ stopFrame' = captured
         /\ Stopped => /\ session.at = "stopping" /\ ~recordStart
                       /\ Moved("idle", "stopped")
                       /\ UNCHANGED <<storeVars, stopFrame>>
         /\ Aborts => /\ session.at = "idle" /\ abort /\ UNCHANGED storeVars
                      /\ \/ /\ session.state = "recording"
                            /\ Moved("aborting", "recording")
                            /\ stopFrame' \in {stopFrame, captured}
                         \/ /\ session.state \in {"ready", "stopped"}
                            /\ Moved("idle", "gone") /\ UNCHANGED stopFrame
         /\ Aborted => /\ session.at = "aborting" /\ ~recordStart
                       /\ \/ session.state = "ready" /\ Moved("idle", "ready")
                          \/ session.state # "ready" /\ Moved("idle", "gone")
                       /\ UNCHANGED <<storeVars, stopFrame>>
         /\ Completes => /\ session.at = "idle" /\ session.state = "stopped"
                         /\ ~abort /\ Moved("idle", "kept")
                         /\ UNCHANGED <<storeVars, stopFrame>>
<1> USE DEF Moved, SessionSame
<1>1. SessionBegins => /\ session.at = "idle" /\ Moved("idle", "ready")
                       /\ session.state \in {"none", "kept", "gone"}
                       /\ UNCHANGED <<storeVars, stopFrame>>
  BY GoesTo DEF SessionBegins, OutsideSession
<1>2. Start => /\ session.at = "idle" /\ session.state = "ready"
               /\ UNCHANGED storeVars
               /\ \/ SessionSame /\ UNCHANGED stopFrame
                  \/ /\ session'.at = "restart" /\ session'.state = "ready"
                     /\ session'.first = captured
                     /\ ~recordStart /\ stopFrame' = NotSet
  <2> SUFFICES ASSUME Start
               PROVE  \/ SessionSame /\ UNCHANGED stopFrame
                      \/ /\ session'.at = "restart" /\ session'.state = "ready"
                         /\ session'.first = captured
                         /\ ~recordStart /\ stopFrame' = NotSet
    BY DEF Start, OutsideSession
  <2>1. CASE recordStart \/ encoding
    BY <2>1 DEF Start
  <2>2. CASE ~(recordStart \/ encoding)
    BY <2>2 DEF Start, SessionTypes
  <2> QED BY <2>1, <2>2
<1>3. Restarts => /\ session.at = "restart" /\ captured > session.first
                  /\ session'.at = "open" /\ session'.first = captured
                  /\ session'.state = session.state
                  /\ UNCHANGED <<storeVars, stopFrame>>
  BY DEF Restarts, OutsideSession, SessionTypes
<1>4. StartFails => /\ session.at \in {"restart", "open"}
                    /\ Moved("idle", "ready")
                    /\ UNCHANGED <<storeVars, stopFrame>>
  BY GoesTo DEF StartFails
<1>5. Opens => /\ session.at = "open" /\ Moved("status", session.state)
               /\ file' = <<>> /\ written' = session.first - 1
               /\ stale' = FALSE
               /\ UNCHANGED <<store, recordStart, counted, stopFrame>>
  BY GoesTo DEF Opens
<1>6. ResetsStatus => /\ session.at = "status"
                      /\ Moved("signal", session.state) /\ counted' = 0
                      /\ UNCHANGED <<store, written, recordStart, file,
                                     stale, stopFrame>>
  BY GoesTo DEF ResetsStatus
<1>7. SignalsStart => /\ session.at = "signal"
                      /\ Moved("started", session.state)
                      /\ recordStart' = TRUE
                      /\ UNCHANGED <<store, written, counted, file,
                                     stale, stopFrame>>
  BY GoesTo DEF SignalsStart
<1>8. IsRecording => /\ session.at = "started"
                     /\ Moved("idle", "recording")
                     /\ UNCHANGED <<storeVars, stopFrame>>
  BY GoesTo DEF IsRecording, OutsideSession
<1>9. BackupFails => /\ session.at = "started"
                      /\ Moved("aborting", "ready")
                      /\ UNCHANGED storeVars
                      /\ stopFrame' \in {stopFrame, captured}
  BY GoesTo DEF BackupFails, AbortsRecord
<1>10. Stop => /\ session.at = "idle" /\ session.state = "recording"
               /\ ~abort /\ recordStart /\ Moved("stopping", "recording")
               /\ UNCHANGED storeVars /\ stopFrame' = captured
  BY GoesTo DEF Stop, OutsideSession
<1>11. Stopped => /\ session.at = "stopping" /\ ~recordStart
                  /\ Moved("idle", "stopped")
                  /\ UNCHANGED <<storeVars, stopFrame>>
  BY GoesTo DEF Stopped, OutsideSession
<1>12. Aborts => /\ session.at = "idle" /\ abort /\ UNCHANGED storeVars
                 /\ \/ /\ session.state = "recording"
                       /\ Moved("aborting", "recording")
                       /\ stopFrame' \in {stopFrame, captured}
                    \/ /\ session.state \in {"ready", "stopped"}
                       /\ Moved("idle", "gone") /\ UNCHANGED stopFrame
  BY GoesTo DEF Aborts, AbortsRecord, OutsideSession
<1>13. Aborted => /\ session.at = "aborting" /\ ~recordStart
                  /\ \/ session.state = "ready" /\ Moved("idle", "ready")
                     \/ session.state # "ready" /\ Moved("idle", "gone")
                  /\ UNCHANGED <<storeVars, stopFrame>>
  BY GoesTo DEF Aborted, OutsideSession
<1>14. Completes => /\ session.at = "idle" /\ session.state = "stopped"
                    /\ ~abort /\ Moved("idle", "kept")
                    /\ UNCHANGED <<storeVars, stopFrame>>
  BY GoesTo DEF Completes, OutsideSession
<1> QED BY <1>1, <1>2, <1>3, <1>4, <1>5, <1>6, <1>7, <1>8, <1>9, <1>10,
           <1>11, <1>12, <1>13, <1>14

\* A step of the session thread captures nothing.
LEMMA SessionLeaves ==
  Session => UNCHANGED <<cap, ring, captured, videoOk>>
  BY CaptureFrame, VideoFrame DEF capVars

LEMMA SessionSoundStep ==
  ASSUME CaptureTypes, StoreTypes, SessionTypes, SessionSound, StoreSound,
         [ArchiveNext]_vars
  PROVE  SessionSound'
<1> USE DEF SessionSound
<1>1. CASE Capture
  BY <1>1, CaptureGrows DEF storeVars, CaptureTypes, SessionTypes, Starting, Opened
<1>2. CASE Store
  BY <1>2, StoreLeaves DEF capVars, Starting, Opened
<1>3. CASE Browse \/ UNCHANGED vars
  BY <1>3, BrowseLeaves DEF capVars, storeVars, Starting, Opened
<1>4. CASE Session
  <2>a. /\ UNCHANGED captured /\ captured \in Int /\ session.first \in Int
        /\ captured >= -1 /\ session.first >= -1
    BY <1>4, SessionLeaves DEF CaptureTypes, SessionTypes
  <2> USE <2>a, SessionMoves DEF Moved, SessionSame, storeVars, Starting, Opened
  <2>1. CASE SessionBegins
    BY <2>1
  <2>2. CASE Start
    BY <2>2
  <2>3. CASE Restarts
    BY <2>3
  <2>4. CASE StartFails
    BY <2>4
  <2>5. CASE Opens
    BY <2>5
  <2>6. CASE ResetsStatus \/ SignalsStart
    <3>1. CASE ResetsStatus
      BY <3>1
    <3>2. CASE SignalsStart
      BY <3>2
    <3> QED BY <2>6, <3>1, <3>2
  <2>7. CASE IsRecording
    BY <2>7
  <2>8. CASE BackupFails \/ Aborts
    BY <2>8
  <2>9. CASE Stop
    BY <2>9
  <2>10. CASE Stopped \/ Aborted \/ Completes
    BY <2>10
  <2> QED BY <1>4, <2>1, <2>2, <2>3, <2>4, <2>5, <2>6, <2>7, <2>8, <2>9,
             <2>10 DEF Session
<1> QED BY <1>1, <1>2, <1>3, <1>4 DEF ArchiveNext

LEMMA StoreSoundStep ==
  ASSUME CaptureTypes, StoreTypes, SessionTypes, RestTypes, SessionSound,
         StoreSound, [ArchiveNext]_vars
  PROVE  StoreSound'
<1> USE DEF StoreSound
<1>a. /\ captured \in Int /\ written \in Int /\ store.written \in Int
      /\ store.captured \in Int /\ session.first \in Int /\ stopFrame \in Int
  BY DEF CaptureTypes, StoreTypes, SessionTypes, RestTypes
<1>1. CASE Capture
  BY <1>1, <1>a, CaptureGrows DEF storeVars
<1>2. CASE Store
  <2>a. UNCHANGED <<captured, session>>
    BY <1>2, StoreLeaves DEF capVars
  <2>1. CASE StoreLooks
    <3>1. /\ store'.at = "test" /\ store'.captured = captured
          /\ store'.written = written /\ UNCHANGED written
      BY <2>1 DEF StoreLooks
    <3> QED BY <1>a, <2>a, <3>1
  <2>2. CASE StoreStops \/ StoreWaits
    BY <1>a, <2>a, <2>2 DEF StoreStops, StoreWaits, StoreTypes
  <2>3. CASE StoreOverflows
    BY <1>a, <2>a, <2>3 DEF StoreOverflows, StoreTypes
  <2>4. CASE StoreWrites
    BY <1>a, <2>a, <2>4
    DEF StoreWrites, StoreTypes, StoreHasFrame, StoreReachesStop
  <2>5. CASE StoreCounts
    <3>1. /\ store.at = "check" /\ store'.at = "look" /\ written' = store.written + 1
          /\ store'.written = store.written /\ store'.captured = store.captured
      BY <2>5 DEF StoreCounts, StoreTypes
    <3>2. session.at \notin {"restart", "open"}
      BY <3>1 DEF SessionSound
    <3> QED BY <1>a, <2>a, <3>1, <3>2
  <2> QED BY <1>2, <2>1, <2>2, <2>3, <2>4, <2>5 DEF Store
<1>3. CASE Browse \/ UNCHANGED vars
  BY <1>3, BrowseLeaves DEF capVars, storeVars
<1>4. CASE Session
  <2>a. UNCHANGED captured
    BY <1>4, SessionLeaves
  <2> USE <1>a, <2>a, SessionMoves DEF Moved, SessionSame, storeVars
  <2>1. CASE SessionBegins \/ StartFails
    BY <2>1
  <2>2. CASE Start
    BY <2>2
  <2>3. CASE Restarts
    BY <2>3
  <2>4. CASE Opens
    <3>1. ~recordStart /\ session.first >= 0 /\ session.first <= captured
      BY <2>4 DEF SessionSound, Opened
    <3> QED BY <2>4, <3>1
  <2>5. CASE ResetsStatus \/ SignalsStart \/ IsRecording
    <3>1. /\ UNCHANGED <<store, written, stopFrame>>
          /\ session'.at \notin {"restart", "open"}
          /\ recordStart => recordStart'
      BY <2>5
    <3> QED BY <3>1
  <2>6. CASE BackupFails \/ Stop \/ Aborts
    <3>1. /\ UNCHANGED storeVars
          /\ session'.at \notin {"restart", "open"}
          /\ stopFrame' = captured \/ stopFrame' = stopFrame
      BY <2>6
    <3> QED BY <3>1
  <2>7. CASE Stopped \/ Aborted \/ Completes
    BY <2>7
  <2> QED BY <1>4, <2>1, <2>2, <2>3, <2>4, <2>5, <2>6, <2>7 DEF Session
<1> QED BY <1>1, <1>2, <1>3, <1>4 DEF ArchiveNext

-----------------------------------------------------------------------------
(* The file *)

\* The frame after the last one written is whole, unless the card has caught up.
LEMMA NextInRing ==
  ASSUME CaptureTypes, StoreTypes, StoreSound, RingSound,
         store.written = written, store.written < captured,
         ~Overrun(captured, written)
  PROVE  /\ written + 1 \in 0 .. captured /\ InRing(written + 1)
         /\ ring[Slot(written + 1)].index = written + 1
<1>1. /\ captured \in Int /\ written \in Int /\ RingSize \in Nat
      /\ written >= -1 /\ captured - written < RingSize - 1
  BY ArchiveAssumption DEF CaptureTypes, StoreTypes, StoreSound, Overrun
<1>2. written + 1 \in 0 .. captured /\ InRing(written + 1)
  BY <1>1 DEF InRing
<1> QED BY <1>2 DEF RingSound

\* Once the card has caught up, it stays ahead.
LEMMA OverrunStays ==
  ASSUME NEW m \in Int, NEW n \in Int, NEW w \in Int, m <= n, Overrun(m, w)
  PROVE  Overrun(n, w)
  BY ArchiveAssumption DEF Overrun

LEMMA FileSoundStep ==
  ASSUME CaptureTypes, StoreTypes, SessionTypes, RingSound, SessionSound,
         StoreSound, FileSound, [ArchiveNext]_vars
  PROVE  FileSound'
<1>a. /\ captured \in Int /\ written \in Int /\ store.written \in Int
      /\ store.captured \in Int /\ session.first \in Int /\ counted \in Nat
      /\ stale \in BOOLEAN /\ RingSize \in Nat /\ Len(file) \in Nat
  BY ArchiveAssumption DEF CaptureTypes, StoreTypes, SessionTypes
<1>1. CASE Capture
  <2>1. /\ captured' \in Int /\ captured <= captured'
        /\ UNCHANGED <<session, storeVars>>
    BY <1>1, <1>a, CaptureGrows
  <2>2. Overrun(captured, written) => Overrun(captured', written)
    BY <2>1, <1>a, OverrunStays
  <2>3. Recording' = Recording
    BY <2>1 DEF Recording
  <2> QED BY <2>1, <2>2, <2>3 DEF storeVars, FileSound
<1>2. CASE Store
  <2>a. UNCHANGED <<captured, session>>
    BY <1>2, StoreLeaves DEF capVars
  <2>b. Recording' = Recording
    BY <2>a DEF Recording
  <2>1. CASE StoreLooks
    <3>1. /\ store'.at = "test" /\ store'.captured = captured
          /\ store'.written = written /\ store.at = "look"
          /\ UNCHANGED <<written, file, counted, stale>>
      BY <2>1 DEF StoreLooks
    <3> QED BY <3>1, <2>a, <2>b DEF FileSound
  <2>2. CASE StoreStops \/ StoreWaits
    <3>1. /\ store'.at = "look" /\ store.at = "test"
          /\ UNCHANGED <<written, file, counted, stale>>
      BY <2>2 DEF StoreStops, StoreWaits, StoreTypes
    <3>2. Overrun(store.captured, written) => Overrun(captured, written)
      BY <1>a DEF Overrun, StoreSound
    <3> QED BY <3>1, <3>2, <2>a, <2>b DEF FileSound
  <2>3. CASE StoreOverflows
    <3>1. /\ store'.at = "look" /\ UNCHANGED <<written, file, counted>>
          /\ stale' = (stale \/ store.written # written)
          /\ \/ Overrun(store.captured, store.written)
             \/ Overrun(captured, store.written)
      BY <2>3 DEF StoreOverflows, StoreTypes
    <3>2. ~stale' => ~stale /\ Overrun(captured, written)
      <4>1. Overrun(store.captured, written) => Overrun(captured, written)
        BY <1>a DEF Overrun, StoreSound
      <4>2. ~stale' => ~stale /\ store.written = written
        BY <3>1
      <4> QED BY <3>1, <4>1, <4>2
    <3> QED BY <3>1, <3>2, <2>a, <2>b DEF FileSound
  <2>4. CASE StoreWrites
    <3>1. /\ store.at = "test" /\ store.written < store.captured /\ recordStart
          /\ ~Overrun(store.captured, store.written)
          /\ file' = Append(file, ring[Slot(store.written + 1)])
          /\ store'.at = "check" /\ store'.written = store.written
          /\ stale' = (stale \/ store.written # written)
          /\ UNCHANGED <<written, counted>>
      BY <2>4 DEF StoreWrites, StoreHasFrame, StoreTypes
    <3>2. session.at # "status"
      BY <3>1 DEF SessionSound
    <3>3. CASE Recording /\ ~stale'
      <4>1. ~stale /\ store.written = written /\ written < captured
        <5>1. ~stale /\ store.written = written
          BY <3>1, <3>3
        <5>2. store.captured <= captured
          BY DEF StoreSound
        <5> QED BY <3>1, <5>1, <5>2, <1>a
      <4>2. Len(file) = counted
        BY <4>1, <3>1, <3>3 DEF FileSound
      <4>3. /\ Len(file') = counted + 1
            /\ \A k \in 1 .. counted : file'[k] = file[k]
            /\ file'[counted + 1] = ring[Slot(written + 1)]
        BY <3>1, <4>1, <4>2 DEF StoreTypes
      <4>4. ~Overrun(captured, written) => file'[counted + 1].index = written + 1
        BY <4>1, <4>3, NextInRing
      <4> QED BY <4>1, <4>2, <4>3, <4>4, <3>1, <3>2, <3>3, <2>a, <2>b
              DEF FileSound
    <3> QED BY <3>2, <3>3, <2>a, <2>b DEF FileSound
  <2>5. CASE StoreCounts
    <3>1. /\ store.at = "check" /\ ~Overrun(captured, store.written)
          /\ counted' = counted + 1 /\ written' = store.written + 1
          /\ store'.at = "look" /\ UNCHANGED <<file, stale>>
      BY <2>5 DEF StoreCounts, StoreTypes
    <3>2. session.at # "status"
      BY <3>1 DEF SessionSound, StoreSound
    <3>3. CASE Recording /\ ~stale
      <4>1. /\ store.written = written /\ Len(file) = counted + 1
            /\ file[counted + 1].index = written + 1
            /\ written = session.first - 1 + counted
            /\ \A k \in 1 .. counted : file[k].index = session.first + k - 1
        BY <3>1, <3>3 DEF FileSound
      <4>2. \A k \in 1 .. counted' : file[k].index = session.first + k - 1
        BY <4>1, <3>1, <1>a
      <4>3. written' = session.first - 1 + counted' /\ Len(file) = counted'
            /\ counted' # counted' + 1
        BY <4>1, <3>1, <1>a
      <4> QED BY <4>2, <4>3, <3>1, <3>2, <2>a, <2>b DEF FileSound
    <3> QED BY <3>1, <3>2, <3>3, <2>a, <2>b DEF FileSound
  <2> QED BY <1>2, <2>1, <2>2, <2>3, <2>4, <2>5 DEF Store
<1>3. CASE Browse \/ UNCHANGED vars
  BY <1>3, BrowseLeaves DEF capVars, storeVars, FileSound, Recording
<1>4. CASE Session
  <2>a. UNCHANGED captured
    BY <1>4, SessionLeaves
  <2>1. CASE Opens
    BY <2>1, SessionMoves DEF Moved, FileSound, Recording
  <2>2. CASE ResetsStatus
    <3>1. /\ file = <<>> /\ written = session.first - 1 /\ ~recordStart
          /\ session.at = "status"
      BY <2>2, SessionMoves DEF FileSound, SessionSound
    <3>2. /\ session'.at = "signal" /\ session'.first = session.first
          /\ counted' = 0 /\ UNCHANGED <<store, written, file>>
      BY <2>2, SessionMoves DEF Moved
    <3>3. store.at # "check"
      BY <3>1 DEF StoreSound
    <3>4. Len(file) = 0
      BY <3>1
    <3> QED BY <3>1, <3>2, <3>3, <3>4, <1>a DEF FileSound
  <2>3. CASE SignalsStart \/ IsRecording \/ BackupFails \/ Stop \/ Stopped
             \/ Completes
    <3>1. /\ Recording /\ session'.at # "status" /\ session'.first = session.first
          /\ UNCHANGED <<store, written, counted, file, stale>>
      BY <2>3, SessionMoves DEF Moved, Recording, storeVars
    <3> QED BY <3>1, <2>a DEF FileSound
  <2>4. CASE Aborts
    <3>1. CASE session.state = "ready"
      <4>1. session'.at = "idle" /\ session'.state = "gone"
        BY <2>4, <3>1, SessionMoves DEF Moved
      <4> QED BY <4>1 DEF FileSound, Recording
    <3>2. CASE session.state # "ready"
      <4>1. /\ Recording /\ session'.at # "status"
            /\ session'.first = session.first
            /\ UNCHANGED <<store, written, counted, file, stale>>
        BY <2>4, <3>2, SessionMoves DEF Moved, Recording, storeVars
      <4> QED BY <4>1, <2>a DEF FileSound
    <3> QED BY <3>1, <3>2
  <2>5. CASE \/ SessionBegins \/ Start \/ Restarts
             \/ StartFails \/ Aborted
    <3>1. session'.at # "status" /\ ~Recording'
      BY <2>5, SessionMoves DEF Moved, SessionSame, Recording
    <3> QED BY <3>1 DEF FileSound
  <2> QED BY <1>4, <2>1, <2>2, <2>3, <2>4, <2>5 DEF Session
<1> QED BY <1>1, <1>2, <1>3, <1>4 DEF ArchiveNext

\* Only the session takes a request to abort back, and only when it begins.
LEMMA AbortStays ==
  ASSUME StatusTypes, abort
  PROVE  /\ Capture \/ Store \/ Browse \/ UNCHANGED vars => abort'
         /\ Session => SessionBegins \/ abort'
<1>1. Capture => abort'
  BY DEF Capture, CaptureSuspends, CapturePolls, CaptureGets, CaptureFails,
         CaptureGoesOn, CapturePuts, CapturePutFails, CaptureGivesUp,
         CaptureDrops, CapturePublishes, statusVars, SetVideo, SetRecording,
         SdiStatusChanged, Alarm
<1>2. Store => abort'
  BY DEF Store, StoreLooks, StoreStops, StoreWaits, StoreOverflows,
         StoreWrites, StoreCounts, statusVars, Alarm
<1>3. Browse \/ UNCHANGED vars => abort'
  BY BrowseLeaves DEF statusVars
<1>4. Session => SessionBegins \/ abort'
  BY DEF Session, Start, Restarts, StartFails, Opens, ResetsStatus,
         SignalsStart, IsRecording, BackupFails, Stop, Stopped, Aborts,
         Aborted, Completes, OutsideSession, statusVars, SetRecording,
         SdiStatusChanged
<1> QED BY <1>1, <1>2, <1>3, <1>4

\* An overflow aborts the recording.
LEMMA OverflowAborts ==
  ASSUME SessionTypes, StatusTypes, SessionSound, StoreSound, StoreOverflows
  PROVE  /\ abort' /\ recordStart /\ session.state \in {"ready", "recording"}
<1>1. recordStart
  BY DEF StoreOverflows, StoreHasFrame, StoreSound
<1>2. session.state \in {"ready", "recording"}
  BY <1>1 DEF SessionSound, Starting
<1> QED BY <1>1, <1>2 DEF StoreOverflows, Alarm

LEMMA EndSoundStep ==
  ASSUME CaptureTypes, StoreTypes, SessionTypes, StatusTypes, RestTypes,
         SessionSound, StoreSound, FileSound, EndSound, [ArchiveNext]_vars
  PROVE  EndSound'
<1>a. /\ captured \in Int /\ written \in Int /\ store.written \in Int
      /\ captured >= -1 /\ counted \in Nat /\ stopFrame \in Int
      /\ stale \in BOOLEAN /\ abort \in BOOLEAN
  BY DEF CaptureTypes, StoreTypes, StatusTypes, RestTypes
<1>b. Capture \/ Store \/ Browse \/ UNCHANGED vars => (Unharmed' => Unharmed)
  BY <1>a, AbortStays, SessionFrame DEF Unharmed
<1>1. CASE Capture
  BY <1>1, <1>b, CaptureGrows DEF storeVars, EndSound, Recording
<1>2. CASE Store
  <2>a. UNCHANGED <<captured, session>>
    BY <1>2, StoreLeaves DEF capVars
  <2>b. Recording' = Recording
    BY <2>a DEF Recording
  <2>1. CASE StoreLooks
    <3>1. /\ store.at = "look" /\ store'.at = "test"
          /\ UNCHANGED <<written, file, counted, stale, recordStart, stopFrame>>
      BY <2>1 DEF StoreLooks
    <3> QED BY <3>1, <2>a, <2>b, <1>b, <1>2 DEF EndSound
  <2>2. CASE StoreWaits
    <3>1. /\ store.at = "test" /\ store'.at = "look"
          /\ UNCHANGED <<written, file, counted, stale, recordStart, stopFrame>>
      BY <2>2 DEF StoreWaits, StoreTypes
    <3> QED BY <3>1, <2>a, <2>b, <1>b, <1>2 DEF EndSound
  <2>3. CASE StoreStops
    <3>1. /\ store.at = "test" /\ store'.at = "look" /\ recordStart
          /\ stopFrame # NotSet /\ store.written >= stopFrame
          /\ UNCHANGED <<written, file, counted, stale, stopFrame>>
      BY <2>3 DEF StoreStops, StoreReachesStop, StoreTypes
    <3>2. store.written <= written
      BY DEF StoreSound
    <3>3. session.state \notin {"stopped", "kept"}
      BY <3>1 DEF SessionSound, Starting
    <3>4. session.at # "signal"
      BY <3>1 DEF SessionSound
    <3> QED BY <3>1, <3>2, <3>3, <3>4, <2>a, <2>b, <1>a, <1>b, <1>2 DEF EndSound
  <2>4. CASE StoreOverflows
    <3>1. ~Unharmed'
      BY <2>4, <2>a, OverflowAborts DEF Unharmed
    <3> QED BY <3>1 DEF EndSound
  <2>5. CASE StoreWrites
    <3>1. /\ store'.at = "check" /\ stale' = (stale \/ store.written # written)
          /\ UNCHANGED <<written, counted, recordStart, stopFrame>>
      BY <2>5 DEF StoreWrites, StoreTypes
    <3> QED BY <3>1, <2>a, <2>b, <1>a, <1>b, <1>2 DEF EndSound
  <2>6. CASE StoreCounts
    <3>1. /\ store.at = "check" /\ store'.at = "look" /\ counted' = counted + 1
          /\ written' = store.written + 1
          /\ UNCHANGED <<file, recordStart, stale, stopFrame>>
      BY <2>6 DEF StoreCounts, StoreTypes
    <3>2. recordStart /\ (stopFrame # NotSet => written' <= stopFrame)
      BY <3>1, <1>a DEF StoreSound
    <3>3. session.state \notin {"stopped", "kept"} /\ session.at # "signal"
      BY <3>2 DEF SessionSound, Starting
    <3>4. Recording /\ ~stale => Len(file) = counted'
      BY <3>1 DEF FileSound
    <3> QED BY <3>1, <3>2, <3>3, <3>4, <2>a, <2>b, <1>b, <1>2 DEF EndSound
  <2> QED BY <1>2, <2>1, <2>2, <2>3, <2>4, <2>5, <2>6 DEF Store
<1>3. CASE Browse \/ UNCHANGED vars
  BY <1>3, <1>b, BrowseLeaves DEF capVars, storeVars, EndSound, Recording
<1>4. CASE Session
  <2>1. CASE ResetsStatus
    <3>1. /\ file = <<>> /\ ~recordStart /\ session.at = "status"
      BY <2>1, SessionMoves DEF FileSound, SessionSound
    <3>2. /\ session'.at = "signal" /\ session'.state = "ready"
          /\ counted' = 0 /\ UNCHANGED <<file, recordStart>>
      BY <2>1, <3>1, SessionMoves DEF Moved, SessionSound, Starting
    <3> QED BY <3>1, <3>2 DEF EndSound
  <2>2. CASE SignalsStart \/ IsRecording \/ BackupFails \/ Stop \/ Stopped
             \/ Completes
    <3>1. /\ Recording /\ UNCHANGED <<store, written, counted, file, stale>>
      BY <2>2, SessionMoves DEF Recording, storeVars
    <3>2. Unharmed' => Unharmed
      BY <2>2, <1>a, AbortStays, SessionMoves, <1>4 DEF Unharmed, Moved, SessionSound, SessionBegins
    <3>3. CASE SignalsStart
      <4>1. /\ session'.at = "started" /\ session'.state = "ready"
            /\ recordStart' /\ stopFrame' = NotSet
        BY <3>3, SessionMoves DEF Moved, SessionSound, Starting
      <4> QED BY <4>1, <3>1, <3>2 DEF EndSound
    <3>4. CASE IsRecording
      <4>1. /\ session.at = "started" /\ session'.at = "idle"
            /\ session'.state = "recording" /\ UNCHANGED <<recordStart, stopFrame>>
        BY <3>4, SessionMoves DEF Moved, storeVars
      <4> QED BY <4>1, <3>1, <3>2 DEF EndSound
    <3>5. CASE BackupFails
      <4>1. session'.at = "aborting" /\ session'.state = "ready"
        BY <3>5, SessionMoves DEF Moved
      <4> QED BY <4>1, <3>1, <3>2 DEF EndSound
    <3>6. CASE Stop
      <4>1. /\ session'.at = "stopping" /\ session'.state = "recording"
            /\ stopFrame' = captured /\ recordStart' /\ written <= captured
        BY <3>6, SessionMoves DEF Moved, storeVars, StoreSound
      <4> QED BY <4>1, <3>1, <3>2, <1>a DEF EndSound, NotSet
    <3>7. CASE Stopped
      <4>1. /\ session.at = "stopping" /\ ~recordStart /\ session'.at = "idle"
            /\ session'.state = "stopped" /\ UNCHANGED <<recordStart, stopFrame>>
        BY <3>7, SessionMoves DEF Moved, storeVars
      <4> QED BY <4>1, <3>1, <3>2 DEF EndSound
    <3>8. CASE Completes
      <4>1. /\ session.at = "idle" /\ session.state = "stopped" /\ Unharmed
            /\ session'.at = "idle" /\ session'.state = "kept"
            /\ UNCHANGED <<recordStart, stopFrame>>
        BY <3>8, SessionMoves DEF Moved, storeVars, Unharmed
      <4> QED BY <4>1, <3>1 DEF EndSound
    <3> QED BY <2>2, <3>3, <3>4, <3>5, <3>6, <3>7, <3>8
  <2>3. CASE Aborts
    <3>1. /\ abort' /\ session'.state \in {"recording", "gone"}
      BY <2>3, SessionMoves DEF Moved, Aborts
    <3> QED BY <3>1 DEF EndSound, Unharmed
  <2>4. CASE \/ SessionBegins \/ Start \/ Restarts
             \/ StartFails \/ Opens \/ Aborted
    <3>1. ~Recording'
      BY <2>4, SessionMoves DEF Moved, SessionSame, Recording
    <3> QED BY <3>1 DEF EndSound
  <2> QED BY <1>4, <2>1, <2>2, <2>3, <2>4 DEF Session
<1> QED BY <1>1, <1>2, <1>3, <1>4 DEF ArchiveNext

-----------------------------------------------------------------------------
(* The runs of the card *)

RollingQuietly == Rolling /\ ~abort /\ ~unheard
RunsOn ==
  /\ ~suspend /\ cap.at \in {"top", "dma", "status"} /\ ~cap.start
  /\ cap.prev /\ videoOk
  /\ session.at \notin {"restart", "open", "status"} => recordingOk
Wanted(i) == IF session.at = "restart" THEN i = captured ELSE i >= session.first
RunHolds ==
  \A i \in 0 .. captured :
    (InRing(i) /\ Wanted(i)) => ring[Slot(i)].run = cap.run

LEMMA CardRunsIs ==
  CardRuns <=>
    /\ session.at = "restart" /\ cap.at \in {"dma", "status"} => ~suspend
    /\ RollingQuietly => RunsOn /\ RunHolds
  BY DEF CardRuns, RollingQuietly, RunsOn, RunHolds, Wanted

\* A step of the capture thread with nothing reported or missed.
LEMMA CaptureRunsOn ==
  ASSUME CaptureTypes, StatusTypes, SessionTypes, CaptureSound, RingSound,
         SessionSound, CardRuns, Capture, Rolling, ~abort', ~unheard'
  PROVE  /\ RollingQuietly /\ RunsOn' /\ cap'.run = cap.run
         /\ \A i \in 0 .. captured : InRing(i) => ring'[Slot(i)] = ring[Slot(i)]
         /\ captured' # captured =>
              captured' = captured + 1 /\ ring'[Slot(captured')].run = cap'.run
<1>a. UNCHANGED session
  BY CaptureGrows
<1>b. ~abort
  BY AbortStays
<1>c. ~unheard
  BY DEF Capture, CaptureSuspends, CapturePolls, CaptureGets, CaptureFails,
         CaptureGoesOn, CapturePuts, CapturePutFails, CaptureGivesUp,
         CaptureDrops, CapturePublishes, statusVars
<1>d. RollingQuietly /\ RunsOn
  BY <1>b, <1>c, CardRunsIs DEF RollingQuietly
<1>e. /\ Starting \/ session.state = "recording"
      /\ session.state \notin {"none", "kept", "gone"}
      /\ session.at \in {"restart", "open", "status"} => Starting
  BY DEF Rolling, SessionSound, Starting
<1>1. CASE CaptureGets
  <2>1. ~StartFifo /\ HavePrev
    BY <1>1, <1>d DEF RunsOn, StartFifo, HavePrev, CaptureGets
  <2>2. /\ cap' = [at |-> "dma", start |-> FALSE, prev |-> TRUE,
                   wait |-> cap.wait, run |-> cap.run]
        /\ ring' = [ring EXCEPT ![Slot(captured + 2)] = Torn]
        /\ videoOk' = TRUE
        /\ UNCHANGED <<captured, suspend, recordingOk>>
    BY <1>1, <2>1 DEF CaptureGets, SetVideo
  <2>3. \A i \in 0 .. captured : InRing(i) => ring'[Slot(i)] = ring[Slot(i)]
    BY <2>2, RingKept
  <2> QED BY <2>2, <2>3, <1>a, <1>d DEF RunsOn
<1>2. CASE CapturePuts
  <2>1. /\ ring' = [ring EXCEPT ![Slot(captured + 2)] = [index |-> Index, run |-> cap.run]]
        /\ cap'.at \in {"top", "status"} /\ cap'.start = cap.start
        /\ cap'.prev = cap.prev /\ cap'.run = cap.run
        /\ UNCHANGED <<captured, suspend, videoOk, recordingOk>>
    BY <1>2, <1>d DEF CapturePuts, At, CaptureTypes, statusVars, Index, RunsOn
  <2>2. \A i \in 0 .. captured : InRing(i) => ring'[Slot(i)] = ring[Slot(i)]
    BY <2>1, RingKept
  <2> QED BY <2>1, <2>2, <1>a, <1>d DEF RunsOn
<1>3. CASE CapturePublishes
  <2>1. /\ cap'.at = "top" /\ cap'.start = cap.start /\ cap'.prev = TRUE
        /\ cap'.run = cap.run /\ captured' = captured + 1
        /\ UNCHANGED <<ring, suspend, videoOk, recordingOk>>
    BY <1>3, <1>d DEF CapturePublishes, CaptureTypes, statusVars, RunsOn
  <2>2. ring[Slot(captured + 1)].run = cap.run
    BY <1>d DEF RunsOn, RingSound
  <2> QED BY <2>1, <2>2, <1>a, <1>d DEF RunsOn
<1>4. CASE CaptureFails
  <2>1. ~Starting /\ videoOk' = FALSE /\ videoOk
    BY <1>4, <1>d DEF CaptureFails, SetVideo, RunsOn
  <2>2. session.state = "recording"
    BY <2>1, <1>e
  <2>3. abort'
    BY <1>4, <2>1, <2>2 DEF CaptureFails, SetVideo, SdiStatusChanged
  <2> QED BY <2>3
<1>5. CASE CapturePutFails
  <2>1. ~Starting /\ recordingOk' = FALSE /\ recordingOk
    BY <1>5, <1>d, <1>e DEF CapturePutFails, SetRecording, RunsOn
  <2>2. session.state = "recording"
    BY <2>1, <1>e
  <2>3. abort'
    BY <1>5, <2>1, <2>2 DEF CapturePutFails, SetRecording, SdiStatusChanged
  <2> QED BY <2>3
<1>6. CASE CaptureDrops
  BY <1>6, <1>e DEF CaptureDrops, Alarm
<1>7. CASE CaptureSuspends \/ CapturePolls \/ CaptureGoesOn \/ CaptureGivesUp
  BY <1>7, <1>d DEF CaptureSuspends, CapturePolls, CaptureGoesOn,
                    CaptureGivesUp, RunsOn
<1> QED BY <1>1, <1>2, <1>3, <1>4, <1>5, <1>6, <1>7 DEF Capture

LEMMA CardRunsStep ==
  ASSUME CaptureTypes, StoreTypes, StatusTypes, SessionTypes, CaptureSound,
         RingSound, SessionSound, StoreSound, CardRuns, [ArchiveNext]_vars
  PROVE  CardRuns'
<1>a. /\ captured \in Int /\ captured >= -1 /\ session.first \in Int
      /\ session.first <= captured /\ session.first >= -1
  BY DEF CaptureTypes, SessionTypes, SessionSound
<1>b. RollingQuietly => RunsOn /\ RunHolds
  BY CardRunsIs
<1>c. session.at = "restart" /\ cap.at \in {"dma", "status"} => ~suspend
  BY DEF CardRuns
<1> SUFFICES /\ (session.at = "restart" /\ cap.at \in {"dma", "status"} => ~suspend)'
             /\ RollingQuietly' => RunsOn' /\ RunHolds'
  BY DEF CardRuns, RollingQuietly, RunsOn, RunHolds, Wanted
<1>1. CASE Capture
  <2>a. UNCHANGED session
    BY <1>1, CaptureGrows
  <2>1. session.at = "restart" /\ cap'.at \in {"dma", "status"} => ~suspend'
    <3>1. CASE CaptureGets
      BY <3>1 DEF CaptureGets
    <3>2. CASE CapturePuts
      BY <3>2, <1>c DEF CapturePuts, At, CaptureTypes, statusVars
    <3>3. CASE \/ CaptureSuspends \/ CapturePolls \/ CaptureFails
               \/ CaptureGoesOn \/ CapturePutFails \/ CaptureGivesUp
               \/ CaptureDrops \/ CapturePublishes
      <4>1. cap'.at \notin {"dma", "status"}
        BY <3>3 DEF CaptureSuspends, CapturePolls, CaptureFails, CaptureGoesOn,
                    CapturePutFails, CaptureGivesUp, CaptureDrops,
                    CapturePublishes, At, capVars, CaptureTypes
      <4> QED BY <4>1
    <3> QED BY <1>1, <3>1, <3>2, <3>3 DEF Capture
  <2>2. ASSUME RollingQuietly' PROVE RunsOn' /\ RunHolds'
    <3>1. CASE Rolling
      <4>1. /\ RollingQuietly /\ RunsOn' /\ cap'.run = cap.run
            /\ \A i \in 0 .. captured : InRing(i) => ring'[Slot(i)] = ring[Slot(i)]
            /\ captured' # captured =>
                 captured' = captured + 1 /\ ring'[Slot(captured')].run = cap'.run
        BY <1>1, <2>2, <3>1, CaptureRunsOn DEF RollingQuietly
      <4>2. ASSUME NEW i \in 0 .. captured', InRing(i)', Wanted(i)'
            PROVE  ring'[Slot(i)].run = cap'.run
        <5>1. CASE i = captured' /\ captured' # captured
          BY <4>1, <5>1
        <5>2. CASE ~(i = captured' /\ captured' # captured)
          <6>1. i \in 0 .. captured /\ InRing(i) /\ Wanted(i)
            <7>1. CASE captured' = captured
              BY <7>1, <4>2, <2>a DEF InRing, Wanted
            <7>2. CASE captured' # captured
              <8>1. captured' = captured + 1
                BY <4>1, <7>2
              <8> QED BY <8>1, <5>2, <4>2, <2>a, <1>a, ArchiveAssumption
                      DEF InRing, Wanted
            <7> QED BY <7>1, <7>2
          <6> QED BY <6>1, <4>1, <1>b DEF RunHolds
        <5> QED BY <5>1, <5>2
      <4> QED BY <4>1, <4>2 DEF RunHolds
    <3>2. CASE ~Rolling
      <4>1. session.at = "restart" /\ captured' # captured /\ captured = session.first
        BY <3>2, <2>2, <2>a, <1>a DEF RollingQuietly, Rolling
      <4>2. /\ cap.at = "status" /\ cap.prev /\ cap'.at = "top" /\ cap'.prev = TRUE
            /\ captured' = captured + 1
            /\ cap'.start = cap.start /\ cap'.run = cap.run
            /\ UNCHANGED <<ring, suspend, videoOk>>
        <5>1. CapturePublishes
          BY <1>1, <4>1 DEF Capture, CaptureSuspends, CapturePolls, CaptureGets,
             CaptureFails, CaptureGoesOn, CapturePuts, CapturePutFails,
             CaptureGivesUp, CaptureDrops, capVars
        <5> QED BY <5>1, <4>1 DEF CapturePublishes, CaptureTypes, statusVars
      <4>3. RunsOn'
        BY <4>1, <4>2, <2>a, <1>c DEF RunsOn, CaptureSound
      <4>4. ring'[Slot(captured')].run = cap'.run
        BY <4>2 DEF RingSound
      <4> QED BY <4>1, <4>3, <4>4, <2>a DEF RunHolds, Wanted
    <3> QED BY <3>1, <3>2
  <2> QED BY <2>1, <2>2, <2>a
<1>2. CASE Store
  <2>a. UNCHANGED <<capVars, session>>
    BY <1>2, StoreLeaves
  <2>b. UNCHANGED <<cap, ring, captured>>
    BY <2>a DEF capVars
  <2>1. CASE StoreOverflows
    <3>1. abort' /\ UNCHANGED suspend
      BY <2>1, OverflowAborts DEF StoreOverflows
    <3> QED BY <3>1, <2>a, <2>b, <1>c DEF RollingQuietly
  <2>2. CASE StoreLooks \/ StoreStops \/ StoreWaits \/ StoreWrites \/ StoreCounts
    <3>1. UNCHANGED <<suspend, videoOk, recordingOk, abort, unheard>>
      BY <2>2 DEF StoreLooks, StoreStops, StoreWaits, StoreWrites, StoreCounts,
                  statusVars
    <3> QED BY <3>1, <2>a, <2>b, <1>b, <1>c
            DEF RollingQuietly, Rolling, RunsOn, RunHolds, Wanted, InRing
  <2> QED BY <1>2, <2>1, <2>2 DEF Store
<1>3. CASE Browse \/ UNCHANGED vars
  <2>1. UNCHANGED <<cap, ring, captured, session, suspend, videoOk,
                    recordingOk, abort, unheard>>
    BY <1>3, BrowseLeaves DEF capVars, statusVars
  <2> QED BY <2>1, <1>b, <1>c
          DEF RollingQuietly, Rolling, RunsOn, RunHolds, Wanted, InRing
<1>4. CASE Session
  <2>a. UNCHANGED <<cap, ring, captured, videoOk>>
    BY <1>4, SessionLeaves
  <2>1. CASE Restarts
    <3>1. /\ session.at = "restart" /\ captured > session.first
          /\ session'.at = "open" /\ session'.first = captured
          /\ UNCHANGED <<suspend, recordingOk, abort, unheard>>
      BY <2>1, SessionMoves DEF Restarts
    <3>2. RollingQuietly' => RollingQuietly
      BY <3>1 DEF RollingQuietly, Rolling
    <3>3. RunsOn => RunsOn'
      BY <3>1, <2>a DEF RunsOn
    <3>4. RunHolds => RunHolds'
      BY <3>1, <2>a, <1>a DEF RunHolds, Wanted, InRing
    <3> QED BY <3>1, <3>2, <3>3, <3>4, <1>b
  <2>2. CASE ResetsStatus
    <3>1. /\ session.at = "status" /\ session'.at = "signal"
          /\ session'.first = session.first
          /\ recordingOk' = TRUE /\ UNCHANGED <<suspend, unheard>>
      BY <2>2, SessionMoves DEF Moved, ResetsStatus, SetRecording
    <3>2. abort => abort'
      BY <2>2, SessionMoves, AbortStays, <1>4
      DEF SessionBegins, ResetsStatus
    <3>3. RollingQuietly' => RollingQuietly
      BY <3>1, <3>2 DEF RollingQuietly, Rolling
    <3>4. RunsOn => RunsOn'
      BY <3>1, <2>a DEF RunsOn
    <3>5. RunHolds => RunHolds'
      BY <3>1, <2>a DEF RunHolds, Wanted, InRing
    <3> QED BY <3>1, <3>3, <3>4, <3>5, <1>b
  <2>3. CASE Opens \/ SignalsStart \/ IsRecording \/ Stop
    <3>1. /\ session'.at # "restart" /\ session.at # "restart"
          /\ Rolling /\ session'.first = session.first
          /\ session.at \in {"restart", "open", "status"} =>
               session'.at \in {"restart", "open", "status"}
          /\ UNCHANGED <<suspend, recordingOk, abort, unheard>>
      BY <2>3, SessionMoves DEF Moved, Rolling, Opens, SignalsStart,
         IsRecording, Stop, OutsideSession, statusVars
    <3>2. RollingQuietly' => RollingQuietly
      BY <3>1 DEF RollingQuietly
    <3>3. RunsOn => RunsOn'
      BY <3>1, <2>a DEF RunsOn
    <3>4. RunHolds => RunHolds'
      BY <3>1, <2>a DEF RunHolds, Wanted, InRing
    <3> QED BY <3>1, <3>2, <3>3, <3>4, <1>b
  <2>4. CASE Start
    <3>1. CASE recordStart \/ encoding
      <4>1. ~Rolling' /\ session'.at # "restart"
        BY <2>4, <3>1 DEF Start, Rolling
      <4> QED BY <4>1 DEF RollingQuietly
    <3>2. CASE ~(recordStart \/ encoding)
      <4>1. ~suspend' /\ session'.first = captured /\ session'.at = "restart"
        BY <2>4, <3>2 DEF Start, SessionTypes
      <4>2. ~Rolling'
        BY <4>1, <2>a, <1>a DEF Rolling
      <4> QED BY <4>1, <4>2 DEF RollingQuietly
    <3> QED BY <3>1, <3>2
  <2>5. CASE \/ SessionBegins \/ StartFails
             \/ BackupFails \/ Stopped \/ Aborts \/ Aborted \/ Completes
    <3>1. session'.at # "restart" /\ ~Rolling'
      BY <2>5, SessionMoves DEF Moved, SessionSame, Rolling
    <3> QED BY <3>1 DEF RollingQuietly
  <2> QED BY <1>4, <2>1, <2>2, <2>3, <2>4, <2>5 DEF Session
<1> QED BY <1>1, <1>2, <1>3, <1>4 DEF ArchiveNext


\* What the recording must not have met for its frames to be of one run.
Undisturbed == /\ Recording /\ session.at # "aborting"
               /\ ~stale /\ ~unheard /\ Unharmed

LEMMA OneRunIs ==
  OneRun <=>
    (Undisturbed =>
       /\ \A j, k \in 1 .. counted : file[j].run = file[k].run
       /\ Rolling =>
            /\ \A k \in 1 .. counted : file[k].run = cap.run
            /\ store.at = "check" /\ ~Overrun(captured, written) =>
                 file[counted + 1].run = cap.run)
  BY DEF OneRun, Undisturbed

\* The threads other than the session's leave a disturbed recording disturbed.
LEMMA StaysDisturbed ==
  ASSUME CaptureTypes, StoreTypes, StatusTypes, StoreSound,
         Capture \/ Store \/ Browse \/ UNCHANGED vars
  PROVE  /\ UNCHANGED session
         /\ (Rolling' = Rolling) \/ Capture
         /\ Undisturbed' => Undisturbed
<1>1. UNCHANGED session
  BY CaptureGrows, StoreLeaves, BrowseLeaves
<1>2. Recording' = Recording
  BY <1>1 DEF Recording
<1>3. Unharmed' => Unharmed
  BY <1>1, AbortStays DEF Unharmed
<1>4. ~unheard' => ~unheard
  <2>1. Capture => (~unheard' => ~unheard)
    BY DEF Capture, CaptureSuspends, CapturePolls, CaptureGets, CaptureFails,
           CaptureGoesOn, CapturePuts, CapturePutFails, CaptureGivesUp,
           CaptureDrops, CapturePublishes, statusVars
  <2>2. Store => UNCHANGED unheard
    BY DEF Store, StoreLooks, StoreStops, StoreWaits, StoreOverflows,
           StoreWrites, StoreCounts, statusVars
  <2> QED BY <2>1, <2>2, BrowseLeaves DEF statusVars
<1>5. ~stale' => ~stale
  <2>1. Store => (~stale' => ~stale)
    BY DEF Store, StoreLooks, StoreStops, StoreWaits, StoreOverflows,
           StoreWrites, StoreCounts
  <2> QED BY <2>1, CaptureGrows, BrowseLeaves DEF storeVars
<1>6. Rolling' = Rolling \/ Capture
  <2>1. Store \/ Browse \/ UNCHANGED vars => UNCHANGED captured
    BY StoreLeaves, BrowseLeaves DEF capVars
  <2> QED BY <2>1, <1>1 DEF Rolling
<1> QED BY <1>1, <1>2, <1>3, <1>4, <1>5, <1>6 DEF Undisturbed

LEMMA OneRunStep ==
  ASSUME CaptureTypes, StoreTypes, StatusTypes, SessionTypes, CaptureSound,
         RingSound, SessionSound, StoreSound, FileSound, CardRuns, OneRun,
         [ArchiveNext]_vars
  PROVE  OneRun'
<1> DEFINE Pairs == \A j, k \in 1 .. counted : file[j].run = file[k].run
           Runs == \A k \in 1 .. counted : file[k].run = cap.run
           Last == store.at = "check" /\ ~Overrun(captured, written) =>
                     file[counted + 1].run = cap.run
<1>a. /\ captured \in Int /\ written \in Int /\ counted \in Nat
      /\ session.first \in Int /\ Len(file) \in Nat
  BY DEF CaptureTypes, StoreTypes, SessionTypes
<1>b. Undisturbed => Pairs /\ (Rolling => Runs /\ Last)
  BY OneRunIs
<1>c. Undisturbed /\ Rolling => /\ RollingQuietly /\ RunsOn /\ RunHolds
                                /\ session.at # "restart"
  <2>1. Undisturbed /\ Rolling => session.state # "kept" /\ session.at # "restart"
    BY DEF Undisturbed, Recording, Rolling, SessionSound, Starting
  <2>2. Undisturbed /\ Rolling => RollingQuietly
    BY <2>1 DEF Undisturbed, RollingQuietly, Unharmed
  <2> QED BY <2>1, <2>2, CardRunsIs
<1> SUFFICES Undisturbed' => Pairs' /\ (Rolling' => Runs' /\ Last')
  BY DEF OneRun, Undisturbed
<1> SUFFICES ASSUME Undisturbed' PROVE Pairs' /\ (Rolling' => Runs' /\ Last')
  OBVIOUS
<1>1. CASE Capture
  <2>1. /\ Undisturbed /\ UNCHANGED session /\ UNCHANGED storeVars
        /\ captured' \in Int /\ captured <= captured'
    BY <1>1, <1>a, StaysDisturbed, CaptureGrows
  <2>2. Rolling' = Rolling
    BY <2>1 DEF Undisturbed, Recording, Rolling
  <2>3. Rolling => cap'.run = cap.run
    <3>1. ASSUME Rolling PROVE ~abort' /\ ~unheard'
      BY <2>1, <2>2, <3>1, <1>c DEF Undisturbed, Unharmed, Rolling, SessionSound, Starting
    <3> QED BY <3>1, <1>1, CaptureRunsOn
  <2>4. Overrun(captured, written) => Overrun(captured', written)
    BY <2>1, <1>a, OverrunStays
  <2> QED BY <1>b, <2>1, <2>2, <2>3, <2>4 DEF storeVars
<1>2. CASE Store
  <2>a. UNCHANGED <<cap, captured, session>> /\ Undisturbed
    BY <1>2, StaysDisturbed, StoreLeaves DEF capVars
  <2>b. Rolling' = Rolling
    BY <2>a DEF Rolling
  <2>1. CASE StoreLooks \/ StoreStops \/ StoreWaits \/ StoreOverflows
    <3>1. store'.at # "check" /\ UNCHANGED <<counted, file>>
      BY <2>1 DEF StoreLooks, StoreStops, StoreWaits, StoreOverflows, StoreTypes
    <3> QED BY <3>1, <2>a, <2>b, <1>b
  <2>2. CASE StoreWrites
    <3>1. /\ store.at = "test" /\ store.written < store.captured /\ recordStart
          /\ ~Overrun(store.captured, store.written)
          /\ file' = Append(file, ring[Slot(store.written + 1)])
          /\ store'.at = "check"
          /\ stale' = (stale \/ store.written # written)
          /\ UNCHANGED <<written, counted>>
      BY <2>2 DEF StoreWrites, StoreHasFrame, StoreTypes
    <3>2. /\ store.written = written /\ written < captured /\ ~stale
          /\ written = session.first - 1 + counted
      <4>1. ~stale /\ store.written = written
        BY <3>1 DEF Undisturbed
      <4>2. store.captured <= captured /\ store.captured \in Int
        BY DEF StoreSound, StoreTypes
      <4>3. written = session.first - 1 + counted
        BY <4>1, <2>a DEF Undisturbed, FileSound
      <4> QED BY <4>1, <4>2, <4>3, <3>1, <1>a
    <3>3. Len(file) = counted
      BY <3>1, <3>2, <2>a DEF FileSound, Undisturbed
    <3>4. /\ \A k \in 1 .. counted : file'[k] = file[k]
          /\ file'[counted + 1] = ring[Slot(written + 1)]
      BY <3>1, <3>2, <3>3 DEF StoreTypes
    <3>5. ASSUME Rolling, ~Overrun(captured, written)
          PROVE  file'[counted + 1].run = cap.run
      <4>1. written + 1 \in 0 .. captured /\ InRing(written + 1)
        BY <3>2, <3>5, NextInRing
      <4>2. Wanted(written + 1)
        BY <3>2, <3>5, <1>a, <1>c, <2>a DEF Wanted
      <4> QED BY <4>1, <4>2, <3>4, <3>5, <1>c, <2>a DEF RunHolds
    <3>6. Pairs /\ (Rolling => Runs)
      BY <2>a, <1>b
    <3>7. Pairs'
      <4>1. \A j, k \in 1 .. counted : file'[j].run = file'[k].run
        BY <3>4, <3>6
      <4>2. counted' = counted
        BY <3>1
      <4> QED BY <4>1, <4>2
    <3>8. Rolling' => Runs' /\ Last'
      BY <3>1, <3>4, <3>5, <3>6, <2>a, <2>b
    <3> QED BY <3>7, <3>8
  <2>3. CASE StoreCounts
    <3>1. /\ store.at = "check" /\ ~Overrun(captured, store.written)
          /\ counted' = counted + 1
          /\ store'.at = "look" /\ UNCHANGED <<file, stale>>
      BY <2>3 DEF StoreCounts, StoreTypes
    <3>2. Rolling /\ ~Overrun(captured, written)
      <4>1. store.written = written
        BY <3>1, <2>a DEF FileSound, Undisturbed
      <4>2. recordStart
        BY <3>1 DEF StoreSound
      <4> QED BY <4>1, <4>2, <3>1, <2>a DEF SessionSound, Rolling, Undisturbed
    <3>3. Runs /\ file[counted + 1].run = cap.run
      BY <3>1, <3>2, <2>a, <1>b
    <3>4. \A k \in 1 .. counted + 1 : file[k].run = cap.run
      BY <3>3, <1>a
    <3> QED BY <3>1, <3>4, <2>a
  <2> QED BY <1>2, <2>1, <2>2, <2>3 DEF Store
<1>3. CASE Browse \/ UNCHANGED vars
  <2>1. /\ Undisturbed
        /\ UNCHANGED <<cap, captured, store, written, counted, file, session>>
    BY <1>3, StaysDisturbed, BrowseLeaves DEF capVars, storeVars
  <2>2. Rolling' = Rolling
    BY <2>1 DEF Rolling
  <2> QED BY <2>1, <2>2, <1>b
<1>4. CASE Session
  <2>a. UNCHANGED <<cap, captured>>
    BY <1>4, SessionLeaves
  <2>1. CASE ResetsStatus
    <3>1. session.at = "status" /\ counted' = 0 /\ UNCHANGED <<store, recordStart>>
      BY <2>1, SessionMoves
    <3>2. store'.at # "check"
      BY <3>1 DEF SessionSound, StoreSound
    <3> QED BY <3>1, <3>2
  <2>2. CASE SignalsStart \/ IsRecording \/ Stop \/ Stopped \/ Completes
    <3>1. /\ Recording /\ session.at # "aborting"
          /\ Rolling' => Rolling
          /\ UNCHANGED <<store, written, counted, file, stale>>
      BY <2>2, SessionMoves DEF Moved, Recording, Rolling, storeVars
    <3>2. Unharmed' => Unharmed
      BY <2>2, AbortStays, SessionMoves, <1>4
      DEF Unharmed, Moved, SessionBegins, SessionSound
    <3>3. UNCHANGED unheard
      BY <2>2 DEF SignalsStart, IsRecording, Stop, Stopped, Completes, statusVars
    <3>4. Undisturbed
      BY <3>1, <3>2, <3>3 DEF Undisturbed
    <3> QED BY <3>1, <3>4, <2>a, <1>b
  <2>3. CASE BackupFails \/ Aborts
    <3>1. session'.at = "aborting" \/ ~Recording'
      BY <2>3, SessionMoves DEF Moved, Recording
    <3> QED BY <3>1 DEF Undisturbed
  <2>4. CASE \/ SessionBegins \/ Start \/ Restarts
             \/ StartFails \/ Opens \/ Aborted
    <3>1. ~Recording'
      BY <2>4, SessionMoves DEF Moved, SessionSame, Recording
    <3> QED BY <3>1 DEF Undisturbed
  <2> QED BY <1>4, <2>1, <2>2, <2>3, <2>4 DEF Session
<1> QED BY <1>1, <1>2, <1>3, <1>4 DEF ArchiveNext

-----------------------------------------------------------------------------
(* The theorems *)

LEMMA ArchiveInvInit == ArchiveInit => ArchiveInv
<1> SUFFICES ASSUME ArchiveInit PROVE ArchiveInv
  OBVIOUS
<1>a. /\ session.at = "idle" /\ session.state = "none" /\ session.first = -1
      /\ captured = -1 /\ written = -1 /\ ~recordStart /\ stopFrame = NotSet
      /\ cap.at = "top" /\ ~cap.prev /\ ~Starting
      /\ store.at = "look" /\ store.captured = -1 /\ store.written = -1
  BY DEF ArchiveInit, Starting
<1>b. ~Recording /\ ~Rolling
  BY <1>a DEF Recording, Rolling
<1>1. CaptureTypes
  BY ArchiveAssumption DEF ArchiveInit, CaptureTypes, Torn, Frames
<1>2. StatusTypes
  BY DEF ArchiveInit, StatusTypes
<1>3. StoreTypes
  <2>1. file \in Seq(Frames \cup {Torn})
    BY EmptySeq DEF ArchiveInit
  <2>2. /\ store = [at |-> "look", captured |-> -1, written |-> -1]
        /\ written = -1 /\ counted = 0
    BY DEF ArchiveInit
  <2>3. recordStart \in BOOLEAN /\ stale \in BOOLEAN
    BY DEF ArchiveInit
  <2>4. store \in [at : {"look", "test", "check"}, captured : -1 .. MaxFrame,
                   written : Int]
    BY <2>2, ArchiveAssumption
  <2> QED BY <2>1, <2>2, <2>3, <2>4 DEF StoreTypes
<1>4. BrowseTypes
  <2>1. copy \in Seq(Frames \cup {Torn, Black})
    BY EmptySeq DEF ArchiveInit
  <2>2. /\ browse = [at |-> "none", skip |-> 0] /\ browseLast = -1
        /\ turn = [write |-> 0, read |-> 0]
        /\ encoding = FALSE /\ skipped = FALSE
    BY DEF ArchiveInit
  <2>3. slots \in [0 .. 1 -> Frames \cup {Torn, Black, Free, End}]
    BY DEF ArchiveInit
  <2> QED BY <2>1, <2>2, <2>3, ArchiveAssumption DEF BrowseTypes
<1>5. SessionTypes
  BY ArchiveAssumption DEF ArchiveInit, SessionTypes
<1>6. RestTypes
  BY ArchiveAssumption DEF ArchiveInit, RestTypes, NotSet
<1>7. CaptureSound
  BY <1>a DEF CaptureSound
<1>8. RingSound
  BY <1>a DEF RingSound
<1>9. SessionSound
  BY <1>a DEF SessionSound, Opened
<1>10. StoreSound
  BY <1>a DEF StoreSound
<1>11. FileSound /\ EndSound /\ CardRuns /\ OneRun
  BY <1>a, <1>b DEF FileSound, EndSound, CardRuns, OneRun
<1> QED BY <1>1, <1>2, <1>3, <1>4, <1>5, <1>6, <1>7, <1>8, <1>9, <1>10, <1>11,
           Types DEF ArchiveInv

LEMMA ArchiveInvStep == ArchiveInv /\ [ArchiveNext]_vars => ArchiveInv'
<1> SUFFICES ASSUME ArchiveInv, [ArchiveNext]_vars PROVE ArchiveInv'
  OBVIOUS
<1>a. /\ ArchiveTypeOK /\ CaptureSound /\ RingSound /\ SessionSound /\ StoreSound
      /\ FileSound /\ EndSound /\ CardRuns /\ OneRun
  BY DEF ArchiveInv
<1>b. /\ CaptureTypes /\ StatusTypes /\ StoreTypes /\ BrowseTypes
      /\ SessionTypes /\ RestTypes
  BY <1>a, Types
<1>1. ArchiveTypeOK'
  BY <1>a, ArchiveTypeStep
<1>2. CaptureSound' /\ RingSound'
  BY <1>a, <1>b, CaptureSoundStep, RingSoundStep
<1>3. SessionSound'
  BY <1>a, <1>b, SessionSoundStep
<1>4. StoreSound'
  BY <1>a, <1>b, StoreSoundStep
<1>5. FileSound'
  BY <1>a, <1>b, FileSoundStep
<1>6. EndSound'
  BY <1>a, <1>b, EndSoundStep
<1>7. CardRuns'
  BY <1>a, <1>b, CardRunsStep
<1>8. OneRun'
  BY <1>a, <1>b, OneRunStep
<1> QED BY <1>1, <1>2, <1>3, <1>4, <1>5, <1>6, <1>7, <1>8 DEF ArchiveInv

LEMMA ArchiveInvariant == ArchiveSpec => []ArchiveInv
<1> QED BY ArchiveInvInit, ArchiveInvStep, PTL DEF ArchiveSpec

\* Every variable of the four threads and of what they share keeps its type.
THEOREM ArchiveTypeCorrect == ArchiveSpec => []ArchiveTypeOK
<1>1. ArchiveInv => ArchiveTypeOK
  BY DEF ArchiveInv
<1> QED BY <1>1, ArchiveInvariant, PTL

\* For every size of the ring: the frames that the archive file counts are the
\* frames captured from the start on, whole, in order and once
\* (store_video_thread's checks before and after it writes a frame are enough).
THEOREM FileIsFaithful == ArchiveSpec => []FileFaithful
<1>1. ArchiveInv => FileFaithful
  <2> SUFFICES ASSUME ArchiveInv, ~stale,
                      session.state \in {"recording", "stopped", "kept"}
               PROVE  \A k \in 1 .. counted : file[k].index = session.first + k - 1
    BY DEF FileFaithful
  <2>1. SessionTypes /\ SessionSound /\ FileSound
    BY Types DEF ArchiveInv
  <2>2. Recording
    BY <2>1 DEF SessionTypes, SessionSound, Starting, Recording
  <2> QED BY <2>1, <2>2 DEF FileSound
<1> QED BY <1>1, ArchiveInvariant, PTL

\* For every size of the ring and every moment of the request to stop: a
\* recording that is kept reaches the last frame captured at that request, and
\* its file holds no frame that is not counted.
THEOREM KeptReachesItsEnd == ArchiveSpec => []KeptIsWhole
<1>1. ArchiveInv => KeptIsWhole
  <2> SUFFICES ASSUME ArchiveInv, ~stale, session.state = "kept"
               PROVE  counted = stopFrame - session.first + 1 /\ Len(file) = counted
    BY DEF KeptIsWhole
  <2>1. /\ SessionTypes /\ StoreTypes /\ RestTypes
        /\ SessionSound /\ StoreSound /\ FileSound /\ EndSound
    BY Types DEF ArchiveInv
  <2>2. session.at = "idle"
    BY <2>1 DEF SessionTypes, SessionSound, Starting
  <2>3. Recording /\ Unharmed
    BY <2>2 DEF Recording, Unharmed
  <2>4. store.at # "check"
    BY <2>1, <2>2 DEF StoreSound, SessionSound
  <2>5. Len(file) = counted /\ written = stopFrame
    BY <2>1, <2>3, <2>4 DEF EndSound
  <2>6. written = session.first - 1 + counted
    BY <2>1, <2>3 DEF FileSound
  <2>7. /\ written \in Int /\ session.first \in Int /\ counted \in Nat
        /\ stopFrame \in Int
    BY <2>1 DEF StoreTypes, SessionTypes, RestTypes
  <2> QED BY <2>5, <2>6, <2>7
<1> QED BY <1>1, ArchiveInvariant, PTL

\* Whatever the card does: a recording that is kept is of one run of the card,
\* unless capture failed while it was being started.
THEOREM KeptHasNoGap == ArchiveSpec => []NoGap
<1>1. ArchiveInv => NoGap
  <2> SUFFICES ASSUME ArchiveInv, session.state = "kept", ~unheard, ~stale,
                      NEW k \in 2 .. counted
               PROVE  file[k].run = file[k - 1].run
    BY DEF NoGap
  <2>1. SessionTypes /\ StoreTypes /\ SessionSound /\ OneRun
    BY Types DEF ArchiveInv
  <2>2. session.at = "idle"
    BY <2>1 DEF SessionTypes, SessionSound, Starting
  <2>3. Recording /\ Unharmed
    BY <2>2 DEF Recording, Unharmed
  <2>4. \A i, j \in 1 .. counted : file[i].run = file[j].run
    BY <2>1, <2>2, <2>3 DEF OneRun
  <2>5. counted \in Nat
    BY <2>1 DEF StoreTypes
  <2>6. k \in 1 .. counted /\ k - 1 \in 1 .. counted
    BY <2>5
  <2> QED BY <2>4, <2>6
<1> QED BY <1>1, ArchiveInvariant, PTL

\* Whatever the card does: a recording whose capture has stopped or has no
\* signal is about to be aborted, unless capture failed while it was being
\* started.
THEOREM DeadIsNotKept == ArchiveSpec => []DeadIsAborted
<1>1. ArchiveInv => DeadIsAborted
  <2> SUFFICES ASSUME ArchiveInv, session.state = "recording",
                      session.at = "idle", ~abort, ~unheard
               PROVE  ~suspend /\ cap.at # "waitgood"
    BY DEF DeadIsAborted
  <2>1. CardRuns /\ Rolling
    BY DEF ArchiveInv, Rolling
  <2> QED BY <2>1 DEF CardRuns
<1> QED BY <1>1, ArchiveInvariant, PTL

-----------------------------------------------------------------------------
(* The browse copy                                                         *)

\* The file of a recording holds what is in the ring, as long as it is there.
FileOfRing ==
  (Recording /\ ~stale) =>
    /\ session.first + Len(file) - 1 <= captured
    /\ \A k \in 1 .. Len(file) :
         InRing(session.first + k - 1) =>
           file[k] = ring[Slot(session.first + k - 1)]

\* From the opening of the file on, while the browse threads keep up
Copying ==
  /\ BrowseEnabled /\ ~skipped
  /\ \/ session.at \in {"status", "signal", "started", "stopping"}
     \/ session.at = "idle" /\ session.state \in {"recording", "stopped", "kept"}

\* How many frames were handed to the thread that encodes, and the k-th one:
\* it is in the browse file, or in one of the two slots
Handed == browseLast - session.first + 1 + (IF browse.at = "check" THEN 1 ELSE 0)
Sent(k) == IF k <= Len(copy) THEN copy[k]
           ELSE IF k = Len(copy) + 1 THEN slots[1 - turn.read] ELSE slots[turn.read]

\* The thread that hands over: it is not ahead of the card.
HandsOver ==
  /\ browse.skip = 0
  /\ session.first - 1 <= browseLast /\ browseLast <= captured
  /\ browse.at \in {"add", "check"} => browseLast < captured

\* The slots: free, or handed over and not yet encoded; the end of the
\* sequence comes after the last frame.
SlotsSound ==
  LET sent == Handed + (IF browse.at = "none" THEN 1 ELSE 0)
  IN  /\ \/ ~encoding /\ browse.at = "none" /\ Len(copy) = Handed
         \/ /\ encoding /\ turn.write = turn.read
            /\ slots[0] = Free /\ slots[1] = Free /\ Len(copy) = sent
         \/ /\ encoding /\ turn.write # turn.read
            /\ slots[turn.write] # Free /\ slots[turn.read] = Free
            /\ Len(copy) + 1 = sent
         \/ /\ encoding /\ turn.write = turn.read
            /\ slots[0] # Free /\ slots[1] # Free /\ Len(copy) + 2 = sent
      /\ \A k \in 1 .. Handed : Sent(k) \in Frames \cup {Torn}
      /\ encoding /\ browse.at = "none" =>
           \A k \in Int : k = Handed + 1 => Sent(k) = End

\* What was handed over is what is in the ring, as long as it is there, and
\* what is in the archive file, unless the card has caught up with the frame
\* and the browse thread has yet to notice.
CopyOfRing ==
  \A k \in 1 .. Handed :
    InRing(session.first + k - 1) => Sent(k) = ring[Slot(session.first + k - 1)]
Sure(k) == k < Handed \/ browse.at # "check" \/ ~Overrun(captured, browseLast)
CopyOfFile ==
  \A k \in 1 .. Handed : k <= counted /\ Sure(k) => Sent(k) = file[k]

\* The copy ends where the recording does.
CopyEnds ==
  /\ stopFrame # NotSet => /\ browseLast <= stopFrame
                           /\ browse.at \in {"add", "check"} => browseLast < stopFrame
  /\ browse.at \in {"end", "none"} => stopFrame # NotSet /\ browseLast = stopFrame

CopySound ==
  Copying => /\ HandsOver /\ SlotsSound /\ CopyOfRing
             /\ Recording /\ ~stale => CopyOfFile
             /\ ~stale /\ Unharmed => CopyEnds

\* What is in the ring before and after a step is the same.
LEMMA RingStays ==
  ASSUME CaptureTypes, [ArchiveNext]_vars, NEW i \in Int, 0 <= i, i <= captured,
         NEW last \in Int, captured' = last, i >= last + 3 - RingSize
  PROVE  InRing(i) /\ ring'[Slot(i)] = ring[Slot(i)]
<1>a. captured \in Int /\ captured >= -1 /\ RingSize \in Nat
  BY ArchiveAssumption DEF CaptureTypes
<1>b. last >= captured
  <2>1. captured' \in {captured, captured + 1}
    BY CaptureFrame, CaptureGrows DEF ArchiveNext, capVars
  <2> QED BY <1>a, <2>1
<1>1. InRing(i) /\ i \in 0 .. captured
  BY <1>a, <1>b DEF InRing
<1>2. CASE CaptureGets
  <2> DEFINE f == captured + (IF HavePrev THEN 2 ELSE 1)
  <2>1. ring' = [ring EXCEPT ![Slot(f)] = Torn]
    BY <1>2 DEF CaptureGets
  <2>2. f \in {captured + 1, captured + 2}
    OBVIOUS
  <2> HIDE DEF f
  <2> QED BY <1>1, <2>1, <2>2, RingKept
<1>3. CASE CapturePuts
  <2>1. ring' = [ring EXCEPT ![Slot(Index)] = [index |-> Index, run |-> cap.run]]
    BY <1>3 DEF CapturePuts
  <2>2. Index \in {captured + 1, captured + 2}
    BY DEF Index
  <2> QED BY <1>1, <2>1, <2>2, RingKept
<1>4. CASE ~CaptureGets /\ ~CapturePuts
  <2>1. UNCHANGED ring
    <3>1. CASE Capture
      BY <1>4, <3>1 DEF Capture, CaptureSuspends, CapturePolls, CaptureFails,
         CaptureGoesOn, CapturePutFails, CaptureGivesUp, CaptureDrops,
         CapturePublishes, capVars
    <3> QED BY <3>1, CaptureFrame DEF ArchiveNext, capVars
  <2> QED BY <1>1, <2>1
<1> QED BY <1>2, <1>3, <1>4

\* The file and the ring agree.
LEMMA FileOfRingStep ==
  ASSUME CaptureTypes, StoreTypes, SessionTypes, SessionSound, StoreSound,
         FileSound, FileOfRing, [ArchiveNext]_vars
  PROVE  FileOfRing'
<1>a. /\ captured \in Int /\ written \in Int /\ store.written \in Int
      /\ session.first \in Int /\ counted \in Nat /\ stale \in BOOLEAN
      /\ Len(file) \in Nat /\ (Opened => session.first >= 0)
  BY DEF CaptureTypes, StoreTypes, SessionTypes, SessionSound
<1>o. Recording => session.first >= 0
  BY <1>a DEF Recording, Opened
<1>b. captured' \in {captured, captured + 1}
  BY <1>a, CaptureFrame, CaptureGrows DEF ArchiveNext, capVars
<1>q. ASSUME UNCHANGED <<file, stale>>, session'.first = session.first,
             Recording' => Recording
      PROVE  FileOfRing'
  <2> SUFFICES ASSUME Recording', ~stale' PROVE FileOfRing'
    BY DEF FileOfRing
  <2>1. /\ Recording /\ ~stale
        /\ session.first + Len(file) - 1 <= captured
        /\ \A k \in 1 .. Len(file) : InRing(session.first + k - 1) =>
             file[k] = ring[Slot(session.first + k - 1)]
    BY <1>q DEF FileOfRing
  <2>2. ASSUME NEW k \in 1 .. Len(file), InRing(session.first + k - 1)'
        PROVE  file[k] = ring'[Slot(session.first + k - 1)]
    <3>1. PICK i \in Int : i = session.first + k - 1 /\ 0 <= i /\ i <= captured
      BY <1>a, <1>o, <2>1
    <3>2. PICK last \in Int : captured' = last
      BY <1>a, <1>b
    <3>3. i >= last + 3 - RingSize
      BY <1>q, <2>2, <3>1, <3>2 DEF InRing
    <3>4. InRing(i) /\ ring'[Slot(i)] = ring[Slot(i)]
      BY <3>1, <3>2, <3>3, RingStays
    <3> QED BY <2>1, <3>1, <3>4
  <2>3. session'.first + Len(file') - 1 <= captured'
    BY <1>q, <1>a, <1>b, <2>1
  <2>4. \A k \in 1 .. Len(file') : InRing(session.first + k - 1)' =>
          file'[k] = ring'[Slot(session'.first + k - 1)]
    BY <1>q, <2>2
  <2> QED BY <2>3, <2>4 DEF FileOfRing, Slot
<1>1. CASE Capture
  BY <1>1, <1>q, CaptureGrows DEF storeVars, Recording
<1>2. CASE Store
  <2>a. UNCHANGED <<ring, captured, session>>
    BY <1>2, StoreLeaves DEF capVars
  <2>b. Recording' = Recording
    BY <2>a DEF Recording
  <2>1. CASE StoreLooks \/ StoreStops \/ StoreWaits \/ StoreCounts
    BY <2>1, <2>a, <2>b, <1>q DEF StoreLooks, StoreStops, StoreWaits, StoreCounts
  <2>2. CASE StoreOverflows
    <3>1. UNCHANGED file /\ (~stale' => ~stale)
      BY <2>2 DEF StoreOverflows
    <3> QED BY <3>1, <2>a, <2>b DEF FileOfRing, InRing
  <2>3. CASE StoreWrites
    <3> SUFFICES ASSUME Recording', ~stale' PROVE FileOfRing'
      BY DEF FileOfRing
    <3>1. /\ store.at = "test" /\ store.written < store.captured
          /\ ~Overrun(store.captured, store.written)
          /\ file' = Append(file, ring[Slot(store.written + 1)])
          /\ ~stale /\ store.written = written /\ Recording
      BY <2>3, <2>b DEF StoreWrites, StoreHasFrame
    <3>2. Len(file) = counted /\ written = session.first - 1 + counted
      BY <3>1 DEF FileSound
    <3>3. written < captured
      BY <3>1, <1>a DEF StoreSound, StoreTypes
    <3>4. /\ Len(file') = Len(file) + 1
          /\ \A k \in 1 .. Len(file) : file'[k] = file[k]
          /\ file'[Len(file) + 1] = ring[Slot(written + 1)]
      BY <3>1 DEF StoreTypes
    <3>5. session.first + Len(file') - 1 <= captured'
      BY <1>a, <2>a, <3>2, <3>3, <3>4
    <3>6. ASSUME NEW k \in 1 .. Len(file'), InRing(session.first + k - 1)'
          PROVE  file'[k] = ring[Slot(session.first + k - 1)]
      <4>1. InRing(session.first + k - 1)
        BY <2>a, <3>6 DEF InRing
      <4>2. CASE k \in 1 .. Len(file)
        BY <3>1, <3>4, <4>1, <4>2 DEF FileOfRing
      <4>3. CASE k = Len(file) + 1
        <5>1. session.first + k - 1 = written + 1
          BY <1>a, <3>2, <4>3
        <5> QED BY <3>4, <4>3, <5>1
      <4> QED BY <1>a, <3>4, <4>2, <4>3
    <3> QED BY <2>a, <3>5, <3>6 DEF FileOfRing, Slot
  <2> QED BY <1>2, <2>1, <2>2, <2>3 DEF Store
<1>3. CASE Browse \/ UNCHANGED vars
  BY <1>3, <1>q, BrowseLeaves DEF storeVars, Recording
<1>4. CASE Session
  <2>1. CASE ResetsStatus
    <3>1. /\ session.at = "status" /\ session'.first = session.first
          /\ UNCHANGED file /\ file = <<>> /\ session.first <= captured
      BY <2>1, SessionMoves DEF Moved, FileSound, SessionSound
    <3>2. Len(file') = 0
      BY <3>1
    <3> QED BY <1>a, <1>4, <3>1, <3>2, SessionLeaves DEF FileOfRing
  <2>2. CASE SignalsStart \/ IsRecording \/ BackupFails \/ Stop \/ Stopped
             \/ Completes \/ (Aborts /\ session.state # "ready")
    <3>1. /\ Recording /\ session'.first = session.first /\ UNCHANGED <<file, stale>>
      BY <2>2, SessionMoves DEF Moved, Recording, storeVars
    <3> QED BY <3>1, <1>q
  <2>3. CASE \/ SessionBegins \/ Start \/ Restarts
             \/ StartFails \/ Opens \/ Aborted
             \/ (Aborts /\ session.state = "ready")
    <3>1. ~Recording'
      BY <2>3, SessionMoves DEF Moved, SessionSame, Recording
    <3> QED BY <3>1 DEF FileOfRing
  <2> QED BY <1>4, <2>1, <2>2, <2>3 DEF Session
<1> QED BY <1>1, <1>2, <1>3, <1>4 DEF ArchiveNext

\* The two slots, by their numbers
LEMMA TwoSlots ==
  ASSUME BrowseTypes
  PROVE  /\ turn.write \in 0 .. 1 /\ turn.read \in 0 .. 1
         /\ WriteSlot = 1 - turn.write /\ ReadSlot = 1 - turn.read
         /\ Len(copy) \in Nat /\ browseLast \in Int
         /\ slots \in [0 .. 1 -> Frames \cup {Torn, Black, Free, End}]
         /\ encoding \in BOOLEAN
<1>1. turn.write \in 0 .. 1 /\ turn.read \in 0 .. 1
  BY DEF BrowseTypes
<1>2. \A n \in 0 .. 1 : (n + 1) % 2 = 1 - n
  OBVIOUS
<1> QED BY <1>1, <1>2 DEF BrowseTypes, WriteSlot, ReadSlot

LEMMA NotAFrame ==
  /\ Torn # Free /\ Torn # End /\ End # Free
  /\ Free \notin Frames /\ End \notin Frames
  BY ArchiveAssumption DEF Torn, Free, End, Frames

\* A frame that is handed over comes after those that were.
LEMMA HandsOverOne ==
  ASSUME BrowseTypes, SessionTypes, SlotsSound, browse.at # "none",
         NEW x, x # Free, HandOver(x), UNCHANGED <<copy, encoding>>
  PROVE  /\ \A k \in 1 .. Handed : Sent(k)' = Sent(k)
         /\ \A k \in Int : k = Handed + 1 => Sent(k)' = x
         /\ encoding' /\ turn'.read = turn.read
         /\ \/ /\ turn'.write # turn'.read
               /\ slots'[turn'.write] # Free /\ slots'[turn'.read] = Free
               /\ Len(copy') = Handed
            \/ /\ turn'.write = turn'.read
               /\ slots'[0] # Free /\ slots'[1] # Free
               /\ Len(copy') + 1 = Handed
<1>a. /\ turn.write \in 0 .. 1 /\ turn.read \in 0 .. 1
      /\ Len(copy) \in Nat /\ Handed \in Int
      /\ slots \in [0 .. 1 -> Frames \cup {Torn, Black, Free, End}]
  BY TwoSlots DEF Handed, SessionTypes
<1>1. /\ slots[1 - turn.write] = Free /\ copy' = copy /\ encoding' = encoding
      /\ slots' = [slots EXCEPT ![1 - turn.write] = x]
      /\ turn'.write = 1 - turn.write /\ turn'.read = turn.read
  BY TwoSlots DEF HandOver, BrowseTypes
<1>2. CASE /\ encoding /\ turn.write = turn.read
           /\ slots[0] = Free /\ slots[1] = Free /\ Len(copy) = Handed
  <2>1. \A k \in 1 .. Handed : Sent(k)' = Sent(k)
    BY <1>a, <1>1, <1>2 DEF Sent
  <2>2. ASSUME NEW k \in Int, k = Handed + 1 PROVE Sent(k)' = x
    <3>1. slots'[1 - turn.read] = x
      BY <1>a, <1>1, <1>2
    <3>2. ~(k <= Len(copy)) /\ k = Len(copy) + 1
      BY <1>a, <1>2, <2>2
    <3> QED BY <1>1, <3>1, <3>2 DEF Sent
  <2>3. slots'[turn'.write] # Free /\ slots'[turn'.read] = Free /\ turn'.write # turn'.read
    BY <1>a, <1>1, <1>2
  <2> QED BY <1>1, <1>2, <2>1, <2>2, <2>3
<1>3. CASE /\ encoding /\ turn.write # turn.read
           /\ slots[turn.write] # Free /\ slots[turn.read] = Free
           /\ Len(copy) + 1 = Handed
  <2>1. turn.write = 1 - turn.read
    BY <1>a, <1>3
  <2>2. slots'[turn.read] = x /\ slots'[1 - turn.read] = slots[1 - turn.read]
    BY <1>a, <1>1, <2>1
  <2>3. \A k \in 1 .. Handed : Sent(k)' = Sent(k)
    BY <1>a, <1>1, <1>3, <2>2 DEF Sent
  <2>4. ASSUME NEW k \in Int, k = Handed + 1 PROVE Sent(k)' = x
    <3>1. ~(k <= Len(copy)) /\ k # Len(copy) + 1
      BY <1>a, <1>3, <2>4
    <3> QED BY <1>1, <2>2, <3>1 DEF Sent
  <2>5. turn'.write = turn'.read /\ slots'[0] # Free /\ slots'[1] # Free
    BY <1>a, <1>1, <1>3, <2>1, <2>2
  <2> QED BY <1>1, <1>3, <2>3, <2>4, <2>5
<1>4. \/ /\ encoding /\ turn.write = turn.read
         /\ slots[0] = Free /\ slots[1] = Free /\ Len(copy) = Handed
      \/ /\ encoding /\ turn.write # turn.read
         /\ slots[turn.write] # Free /\ slots[turn.read] = Free
         /\ Len(copy) + 1 = Handed
  <2>1. slots[0] = Free \/ slots[1] = Free
    BY <1>a, <1>1
  <2> QED BY <1>a, <2>1 DEF SlotsSound
<1> QED BY <1>2, <1>3, <1>4

\* The thread that encodes takes what was handed over first.
LEMMA EncodesFirst ==
  ASSUME BrowseTypes, SessionTypes, SlotsSound, Encodes, session' = session
  PROVE  SlotsSound' /\ Handed' = Handed /\ \A k \in 1 .. Handed : Sent(k)' = Sent(k)
<1>a. /\ turn.write \in 0 .. 1 /\ turn.read \in 0 .. 1
      /\ Len(copy) \in Nat /\ Handed \in Int
      /\ slots \in [0 .. 1 -> Frames \cup {Torn, Black, Free, End}]
  BY TwoSlots DEF Handed, SessionTypes
<1> DEFINE sent == Handed + (IF browse.at = "none" THEN 1 ELSE 0)
<1>b. sent \in {Handed, Handed + 1} /\ sent \in Int
  BY <1>a
<1>1. /\ encoding /\ slots[1 - turn.read] # Free
      /\ turn'.read = 1 - turn.read /\ turn'.write = turn.write
      /\ browse' = browse /\ browseLast' = browseLast
      /\ IF slots[1 - turn.read] = End
         THEN ~encoding' /\ slots' = slots /\ copy' = copy
         ELSE /\ copy' = Append(copy, slots[1 - turn.read])
              /\ slots' = [slots EXCEPT ![1 - turn.read] = Free]
              /\ encoding'
  BY TwoSlots DEF Encodes, BrowseTypes
<1>2. Handed' = Handed
  BY <1>1 DEF Handed
<1>3. \/ /\ turn.write # turn.read /\ slots[turn.read] = Free
         /\ Len(copy) + 1 = sent
      \/ /\ turn.write = turn.read /\ slots[turn.read] # Free
         /\ Len(copy) + 2 = sent
  BY <1>a, <1>1 DEF SlotsSound
<1>4. Sent(Len(copy) + 1) = slots[1 - turn.read]
  BY <1>a DEF Sent
<1>5. CASE slots[1 - turn.read] = End
  <2>1. ~(Len(copy) + 1 \in 1 .. Handed)
    BY <1>4, <1>5, NotAFrame DEF SlotsSound
  <2>2. Len(copy) = Handed /\ browse.at = "none"
    BY <1>a, <1>3, <2>1
  <2>3. \A k \in 1 .. Handed : Sent(k)' = Sent(k)
    BY <1>a, <1>1, <1>5, <2>2 DEF Sent
  <2>4. /\ ~encoding' /\ browse'.at = "none" /\ Len(copy') = Handed'
        /\ \A k \in 1 .. Handed' : Sent(k)' \in Frames \cup {Torn}
    BY <1>1, <1>2, <1>5, <2>2, <2>3 DEF SlotsSound
  <2> QED BY <1>2, <2>3, <2>4 DEF SlotsSound
<1>6. CASE slots[1 - turn.read] # End
  <2>1. /\ Len(copy') = Len(copy) + 1 /\ copy'[Len(copy) + 1] = slots[1 - turn.read]
        /\ \A k \in 1 .. Len(copy) : copy'[k] = copy[k]
        /\ slots'[1 - turn.read] = Free /\ slots'[turn.read] = slots[turn.read]
        /\ encoding'
    <3>1. copy \in Seq(Frames \cup {Torn, Black})
      BY DEF BrowseTypes
    <3>2. /\ copy' = Append(copy, slots[1 - turn.read])
          /\ slots' = [slots EXCEPT ![1 - turn.read] = Free] /\ encoding'
      BY <1>1, <1>6
    <3>3. 1 - turn.read \in 0 .. 1 /\ 1 - turn.read # turn.read
      BY <1>a
    <3>4. slots'[1 - turn.read] = Free /\ slots'[turn.read] = slots[turn.read]
      BY <1>a, <3>2, <3>3
    <3> QED BY <3>1, <3>2, <3>4
  <2>2. 1 - turn'.read = turn.read
    BY <1>a, <1>1
  <2>3. \A k \in 1 .. sent : Sent(k)' = Sent(k)
    BY <1>a, <1>1, <1>3, <2>1, <2>2 DEF Sent
  <2>4. \A k \in 1 .. Handed : Sent(k)' = Sent(k)
    BY <1>a, <1>b, <2>3
  <2>5. ASSUME browse.at = "none", NEW k \in Int, k = Handed + 1
        PROVE  Sent(k)' = End
    <3>1. sent = k /\ k \in 1 .. sent
      BY <1>a, <1>3, <2>5
    <3>2. Sent(k)' = Sent(k)
      BY <2>3, <3>1
    <3> QED BY <1>1, <2>5, <3>2 DEF SlotsSound
  <2>6. \/ /\ turn'.write = turn'.read /\ slots'[0] = Free /\ slots'[1] = Free
           /\ Len(copy') = sent
        \/ /\ turn'.write # turn'.read
           /\ slots'[turn'.write] # Free /\ slots'[turn'.read] = Free
           /\ Len(copy') + 1 = sent
    BY <1>a, <1>b, <1>1, <1>3, <2>1
  <2> QED BY <1>1, <1>2, <2>1, <2>4, <2>5, <2>6 DEF SlotsSound
<1> QED BY <1>2, <1>5, <1>6

\* The numbers that the copy is reckoned with
CopyNumbers == /\ captured \in Int /\ captured >= -1 /\ browseLast \in Int
               /\ session.first \in Int /\ stopFrame \in Int /\ counted \in Nat
               /\ Handed \in Int /\ browse.skip \in Int

LEMMA NumbersKnown ==
  CaptureTypes /\ StoreTypes /\ BrowseTypes /\ SessionTypes /\ RestTypes
  => CopyNumbers
  BY DEF CaptureTypes, StoreTypes, BrowseTypes, SessionTypes, RestTypes,
         CopyNumbers, Handed

\* Where the frames handed over are in the ring
LEMMA HandedIsCaptured ==
  ASSUME CopyNumbers, HandsOver, session.first >= 0, NEW k \in 1 .. Handed
  PROVE  session.first + k - 1 \in 0 .. captured
  BY DEF CopyNumbers, HandsOver, Handed

\* A step that leaves what was handed over alone
LEMMA CopyQuiet ==
  ASSUME CaptureTypes, CopyNumbers, [ArchiveNext]_vars, UNCHANGED browseVars,
         session'.first = session.first, session.first >= 0,
         HandsOver, SlotsSound, CopyOfRing
  PROVE  /\ HandsOver' /\ SlotsSound' /\ CopyOfRing'
         /\ Handed' = Handed /\ \A k \in Int : Sent(k)' = Sent(k)
<1>a. captured' \in {captured, captured + 1}
  BY CaptureFrame, CaptureGrows DEF ArchiveNext, capVars
<1>b. PICK last \in Int : captured' = last /\ last >= captured
  BY <1>a DEF CopyNumbers
<1>1. Handed' = Handed
  BY DEF Handed, browseVars
<1>2. \A k \in Int : Sent(k)' = Sent(k)
  BY DEF Sent, browseVars
<1>3. HandsOver'
  BY <1>b DEF HandsOver, CopyNumbers, browseVars
<1>4. SlotsSound'
  <2>1. \A k \in 1 .. Handed : Sent(k)' = Sent(k)
    BY <1>2
  <2> QED BY <1>1, <1>2, <2>1 DEF SlotsSound, browseVars, CopyNumbers
<1>5. CopyOfRing'
  <2>1. ASSUME NEW k \in 1 .. Handed, InRing(session.first + k - 1)'
        PROVE  Sent(k)' = ring'[Slot(session.first + k - 1)]
    <3>1. PICK i \in Int : i = session.first + k - 1 /\ 0 <= i /\ i <= captured
      BY HandedIsCaptured DEF CopyNumbers
    <3>2. i >= last + 3 - RingSize
      BY <1>b, <2>1, <3>1 DEF InRing
    <3>3. InRing(i) /\ ring'[Slot(i)] = ring[Slot(i)]
      BY <1>b, <3>1, <3>2, RingStays
    <3>4. Sent(k) = ring[Slot(i)]
      BY <3>1, <3>3 DEF CopyOfRing
    <3> QED BY <1>2, <3>1, <3>3, <3>4
  <2> QED BY <1>1, <2>1 DEF CopyOfRing, Slot
<1> QED BY <1>1, <1>2, <1>3, <1>4, <1>5

\* A frame or the end of the sequence is handed over.
LEMMA SlotsHandOver ==
  ASSUME BrowseTypes, SessionTypes, CopyNumbers, SlotsSound, browse.at # "none",
         NEW x, x # Free, HandOver(x), UNCHANGED <<copy, encoding>>,
         \/ /\ Handed' = Handed + 1 /\ browse'.at # "none"
            /\ x \in Frames \cup {Torn}
         \/ Handed' = Handed /\ browse'.at = "none" /\ x = End
  PROVE  SlotsSound'
<1>1. /\ \A k \in 1 .. Handed : Sent(k)' = Sent(k)
      /\ \A k \in Int : k = Handed + 1 => Sent(k)' = x
      /\ encoding' /\ turn'.read = turn.read
      /\ \/ /\ turn'.write # turn'.read
            /\ slots'[turn'.write] # Free /\ slots'[turn'.read] = Free
            /\ Len(copy') = Handed
         \/ /\ turn'.write = turn'.read
            /\ slots'[0] # Free /\ slots'[1] # Free
            /\ Len(copy') + 1 = Handed
  BY HandsOverOne
<1>2. PICK n \in Int : n = Handed
  BY DEF CopyNumbers
<1>3. \A k \in 1 .. n : Sent(k) \in Frames \cup {Torn}
  BY <1>2 DEF SlotsSound
<1>4. CASE /\ Handed' = n + 1 /\ browse'.at # "none" /\ x \in Frames \cup {Torn}
  <2>1. \A k \in 1 .. n + 1 : Sent(k)' \in Frames \cup {Torn}
    <3> SUFFICES ASSUME NEW k \in 1 .. n + 1 PROVE Sent(k)' \in Frames \cup {Torn}
      OBVIOUS
    <3>1. k \in 1 .. n \/ k = n + 1
      OBVIOUS
    <3> QED BY <1>1, <1>2, <1>3, <1>4, <3>1
  <2>2. \/ /\ turn'.write # turn'.read
           /\ slots'[turn'.write] # Free /\ slots'[turn'.read] = Free
           /\ Len(copy') + 1 = n + 1
        \/ /\ turn'.write = turn'.read
           /\ slots'[0] # Free /\ slots'[1] # Free
           /\ Len(copy') + 2 = n + 1
    BY <1>1, <1>2, TwoSlots
  <2> QED BY <1>1, <1>4, <2>1, <2>2 DEF SlotsSound
<1>5. CASE Handed' = n /\ browse'.at = "none" /\ x = End
  <2>1. \A k \in 1 .. n : Sent(k)' \in Frames \cup {Torn}
    BY <1>1, <1>2, <1>3
  <2>2. \A k \in Int : k = n + 1 => Sent(k)' = End
    BY <1>1, <1>2, <1>5
  <2>3. \/ /\ turn'.write # turn'.read
           /\ slots'[turn'.write] # Free /\ slots'[turn'.read] = Free
           /\ Len(copy') + 1 = n + 1
        \/ /\ turn'.write = turn'.read
           /\ slots'[0] # Free /\ slots'[1] # Free
           /\ Len(copy') + 2 = n + 1
    BY <1>1, <1>2, TwoSlots
  <2> QED BY <1>1, <1>5, <2>1, <2>2, <2>3 DEF SlotsSound
<1> QED BY <1>2, <1>4, <1>5

\* The thread that hands over: what it does, place by place, while it keeps up
Stays == UNCHANGED <<browseLast, slots, turn, encoding, copy>> /\ browse'.skip = 0
LEMMA BrowseMoves ==
  ASSUME BrowseTypes, Browse, ~skipped, ~skipped', browse.skip = 0
  PROVE  \/ Encodes
         \/ /\ Stays
            /\ \/ browse.at = "open" /\ browse'.at = "wait"
               \/ browse.at = "wait" /\ browse'.at = "loop"
               \/ /\ browse.at \in {"wait", "loop"} /\ browse'.at = "end"
                  /\ BrowseReachesStop
               \/ /\ browse.at = "loop" /\ browse'.at = "add"
                  /\ ~BrowseReachesStop /\ browseLast < captured
         \/ /\ browse.at = "add" /\ browse'.at = "check" /\ browse'.skip = 0
            /\ HandOver(ring[Slot(browseLast + 1)])
            /\ UNCHANGED <<browseLast, encoding, copy>>
         \/ /\ browse.at = "check" /\ browse'.at = "loop" /\ browse'.skip = 0
            /\ ~Overrun(captured, browseLast) /\ browseLast' = browseLast + 1
            /\ UNCHANGED <<slots, turn, encoding, copy>>
         \/ /\ browse.at = "end" /\ browse'.at = "none" /\ browse'.skip = 0
            /\ HandOver(End) /\ UNCHANGED <<browseLast, encoding, copy>>
<1>1. CASE BrowseOpens \/ BrowseBegins \/ BrowseStops \/ BrowsePicks
  BY <1>1 DEF BrowseOpens, BrowseBegins, BrowseStops, BrowsePicks, BrowseHasFrame,
     BrowseAt, Stays, BrowseTypes
<1>2. CASE BrowseOverflows
  BY <1>2 DEF BrowseOverflows
<1>3. CASE BrowseAdds
  BY <1>3 DEF BrowseAdds
<1>4. CASE BrowseCounts \/ BrowseEnds
  BY <1>4 DEF BrowseCounts, BrowseEnds, BrowseAt, BrowseTypes
<1> QED BY <1>1, <1>2, <1>3, <1>4 DEF Browse

\* The frame to hand over
LEMMA FrameToHand ==
  ASSUME CaptureTypes, CopyNumbers, ~Overrun(captured, browseLast),
         browseLast < captured, browseLast + 1 >= 0
  PROVE  InRing(browseLast + 1)
  BY ArchiveAssumption DEF CopyNumbers, Overrun, InRing

\* A step of the browse threads while they keep up
LEMMA CopyByBrowse ==
  ASSUME CaptureTypes, StoreTypes, BrowseTypes, SessionTypes, RestTypes,
         FileSound, FileOfRing, session.first >= 0,
         Browse, ~skipped, ~skipped', HandsOver, SlotsSound, CopyOfRing
  PROVE  /\ HandsOver' /\ SlotsSound' /\ CopyOfRing'
         /\ Recording /\ ~stale /\ CopyOfFile => CopyOfFile'
         /\ CopyEnds => CopyEnds'
<1>a. CopyNumbers
  BY NumbersKnown
<1>b. UNCHANGED <<cap, ring, captured, stopFrame, session, file, counted, stale>>
  BY BrowseLeaves DEF capVars, storeVars
<1>c. browse.skip = 0 /\ session.first - 1 <= browseLast /\ browseLast <= captured
  BY DEF HandsOver
<1>d. ASSUME Handed' = Handed, \A k \in 1 .. Handed : Sent(k)' = Sent(k)
      PROVE  CopyOfRing'
  BY <1>b, <1>d DEF CopyOfRing, InRing, Slot
<1>e. ASSUME Handed' = Handed, \A k \in 1 .. Handed : Sent(k)' = Sent(k),
             \A k \in 1 .. Handed : Sure(k), CopyOfFile
      PROVE  CopyOfFile'
  BY <1>b, <1>e DEF CopyOfFile
<1>1. CASE Encodes
  <2>1. SlotsSound' /\ Handed' = Handed /\ \A k \in 1 .. Handed : Sent(k)' = Sent(k)
    BY <1>1, <1>b, EncodesFirst
  <2>2. UNCHANGED <<browse, browseLast>>
    BY <1>1 DEF Encodes
  <2>3. HandsOver' /\ (CopyEnds => CopyEnds')
    BY <1>b, <2>2 DEF HandsOver, CopyEnds
  <2>4. CopyOfFile => CopyOfFile'
    BY <1>b, <2>1, <2>2 DEF CopyOfFile, Sure, Overrun
  <2> QED BY <1>d, <2>1, <2>3, <2>4
<1>2. ASSUME Stays, browse.at \notin {"check", "none"}, browse'.at \notin {"check", "none"}
      PROVE  /\ SlotsSound' /\ CopyOfRing'
             /\ CopyOfFile => CopyOfFile'
  <2>1. Handed' = Handed /\ \A k \in Int : Sent(k)' = Sent(k)
    BY <1>b, <1>2 DEF Stays, Handed, Sent
  <2>2. \A k \in 1 .. Handed : Sent(k)' = Sent(k)
    BY <2>1
  <2>3. SlotsSound'
    BY <1>a, <1>2, <2>1, <2>2 DEF SlotsSound, Stays, CopyNumbers
  <2>4. \A k \in 1 .. Handed : Sure(k)
    BY <1>2 DEF Sure
  <2> QED BY <1>d, <1>e, <2>1, <2>2, <2>3, <2>4
<1>3. CASE /\ Stays
           /\ \/ browse.at = "open" /\ browse'.at = "wait"
              \/ browse.at = "wait" /\ browse'.at = "loop"
              \/ /\ browse.at \in {"wait", "loop"} /\ browse'.at = "end"
                 /\ BrowseReachesStop
              \/ /\ browse.at = "loop" /\ browse'.at = "add"
                 /\ ~BrowseReachesStop /\ browseLast < captured
  <2>1. /\ SlotsSound' /\ CopyOfRing'
        /\ CopyOfFile => CopyOfFile'
    BY <1>2, <1>3
  <2>2. HandsOver'
    BY <1>3, <1>b DEF HandsOver, Stays
  <2>3. CopyEnds => CopyEnds'
    BY <1>3, <1>a, <1>b DEF CopyEnds, BrowseReachesStop, Stays, CopyNumbers
  <2> QED BY <2>1, <2>2, <2>3
<1>4. CASE /\ browse.at = "add" /\ browse'.at = "check" /\ browse'.skip = 0
           /\ HandOver(ring[Slot(browseLast + 1)])
           /\ UNCHANGED <<browseLast, encoding, copy>>
  <2> DEFINE x == ring[Slot(browseLast + 1)]
  <2>0. PICK n \in Int : n = Handed
    BY <1>a DEF CopyNumbers
  <2>1. Handed' = n + 1 /\ n = browseLast - session.first + 1
    BY <1>4, <1>a, <1>b, <2>0 DEF Handed, CopyNumbers
  <2>2. x \in Frames \cup {Torn} /\ x # Free
    <3>1. Slot(browseLast + 1) \in 0 .. RingSize - 1
      BY <1>a, SlotType DEF CopyNumbers
    <3> QED BY <3>1, NotAFrame DEF CaptureTypes
  <2> HIDE DEF x
  <2>3. HandOver(x) /\ UNCHANGED <<copy, encoding>>
    BY <1>4 DEF x
  <2>4. SlotsSound'
    BY <1>4, <1>a, <2>0, <2>1, <2>2, <2>3, SlotsHandOver
  <2>5. /\ \A k \in 1 .. n : Sent(k)' = Sent(k)
        /\ \A k \in Int : k = n + 1 => Sent(k)' = x
    BY <1>4, <2>0, <2>2, <2>3, HandsOverOne
  <2>6. browseLast < captured
    BY <1>4 DEF HandsOver
  <2>7. HandsOver'
    BY <1>4, <1>b, <1>c, <2>6 DEF HandsOver
  <2>8. CopyOfRing'
    <3>1. ASSUME NEW k \in 1 .. n + 1, InRing(session.first + k - 1)
          PROVE  Sent(k)' = ring[Slot(session.first + k - 1)]
      <4>1. CASE k \in 1 .. n
        BY <2>0, <2>5, <3>1, <4>1 DEF CopyOfRing
      <4>2. CASE k = n + 1
        <5>1. session.first + k - 1 = browseLast + 1
          BY <1>a, <2>1, <4>2 DEF CopyNumbers
        <5> QED BY <2>5, <4>2, <5>1 DEF x
      <4> QED BY <4>1, <4>2
    <3>2. \A k \in 1 .. Handed' : InRing(session.first + k - 1)' =>
            Sent(k)' = ring'[Slot(session'.first + k - 1)]
      BY <1>b, <2>1, <3>1 DEF InRing
    <3> QED BY <3>2 DEF CopyOfRing, Slot
  <2>9. ASSUME Recording, ~stale, CopyOfFile PROVE CopyOfFile'
    <3>1. ASSUME NEW k \in 1 .. n + 1, k <= counted, k < n + 1 \/ ~Overrun(captured, browseLast)
          PROVE  Sent(k)' = file[k]
      <4>1. CASE k \in 1 .. n
        BY <1>4, <2>0, <2>5, <2>9, <3>1, <4>1 DEF CopyOfFile, Sure
      <4>2. CASE k = n + 1
        <5>1. session.first + k - 1 = browseLast + 1
          BY <1>a, <2>1, <4>2 DEF CopyNumbers
        <5>2. InRing(browseLast + 1)
          BY <1>a, <1>c, <2>6, <3>1, <4>2, FrameToHand DEF CopyNumbers
        <5>3. k \in 1 .. Len(file)
          BY <1>a, <2>9, <3>1 DEF FileSound, CopyNumbers
        <5>4. file[k] = ring[Slot(session.first + k - 1)]
          BY <2>9, <5>1, <5>2, <5>3 DEF FileOfRing
        <5> QED BY <2>5, <4>2, <5>1, <5>4 DEF x
      <4> QED BY <4>1, <4>2
    <3>2. \A k \in 1 .. n + 1 : Sure(k)' => k < n + 1 \/ ~Overrun(captured, browseLast)
      BY <1>4, <1>b, <2>1 DEF Sure, Overrun
    <3> QED BY <1>b, <2>1, <3>1, <3>2 DEF CopyOfFile
  <2>10. CopyEnds => CopyEnds'
    BY <1>4, <1>b DEF CopyEnds
  <2> QED BY <2>4, <2>7, <2>8, <2>9, <2>10
<1>5. CASE /\ browse.at = "check" /\ browse'.at = "loop" /\ browse'.skip = 0
           /\ ~Overrun(captured, browseLast) /\ browseLast' = browseLast + 1
           /\ UNCHANGED <<slots, turn, encoding, copy>>
  <2>1. Handed' = Handed
    BY <1>5, <1>a, <1>b DEF Handed, CopyNumbers
  <2>2. \A k \in Int : Sent(k)' = Sent(k)
    BY <1>5 DEF Sent
  <2>3. \A k \in 1 .. Handed : Sent(k)' = Sent(k)
    BY <2>2
  <2>4. SlotsSound'
    BY <1>a, <1>5, <2>1, <2>2, <2>3 DEF SlotsSound, CopyNumbers
  <2>5. HandsOver'
    BY <1>5, <1>a, <1>b, <1>c DEF HandsOver, CopyNumbers
  <2>6. \A k \in 1 .. Handed : Sure(k)
    BY <1>5 DEF Sure
  <2>7. CopyEnds => CopyEnds'
    BY <1>5, <1>a, <1>b DEF CopyEnds, CopyNumbers
  <2> QED BY <1>d, <1>e, <2>1, <2>3, <2>4, <2>5, <2>6, <2>7
<1>6. CASE /\ browse.at = "end" /\ browse'.at = "none" /\ browse'.skip = 0
           /\ HandOver(End) /\ UNCHANGED <<browseLast, encoding, copy>>
  <2>1. Handed' = Handed
    BY <1>6, <1>b DEF Handed
  <2>2. \A k \in 1 .. Handed : Sent(k)' = Sent(k)
    BY <1>6, NotAFrame, HandsOverOne
  <2>3. SlotsSound'
    BY <1>6, <1>a, <2>1, NotAFrame, SlotsHandOver
  <2>4. HandsOver' /\ (CopyEnds => CopyEnds')
    BY <1>6, <1>b DEF HandsOver, CopyEnds
  <2>5. \A k \in 1 .. Handed : Sure(k)
    BY <1>6 DEF Sure
  <2> QED BY <1>d, <1>e, <2>1, <2>2, <2>3, <2>4, <2>5
<1> QED BY <1>c, <1>1, <1>3, <1>4, <1>5, <1>6, BrowseMoves

\* A step of the capture thread
LEMMA CopyByCapture ==
  ASSUME CaptureTypes, StoreTypes, BrowseTypes, SessionTypes, StatusTypes,
         RestTypes, SessionSound, CopySound, [ArchiveNext]_vars, Capture
  PROVE  CopySound'
<1>a. CopyNumbers
  BY NumbersKnown
<1>b. UNCHANGED <<session, stopFrame, storeVars, browseVars>>
  BY CaptureGrows DEF Capture, CaptureSuspends, CapturePolls, CaptureGets, CaptureFails,
     CaptureGoesOn, CapturePuts, CapturePutFails, CaptureGivesUp,
     CaptureDrops, CapturePublishes
<1> SUFFICES ASSUME Copying' PROVE CopySound'
  BY DEF CopySound
<1>1. Copying /\ session.first >= 0
  BY <1>b DEF Copying, browseVars, SessionSound, Opened
<1>2. HandsOver /\ SlotsSound /\ CopyOfRing
  BY <1>1 DEF CopySound
<1>3. /\ HandsOver' /\ SlotsSound' /\ CopyOfRing'
      /\ Handed' = Handed /\ \A k \in Int : Sent(k)' = Sent(k)
  BY <1>a, <1>b, <1>1, <1>2, CopyQuiet
<1>4. ASSUME Recording', ~stale' PROVE CopyOfFile'
  <2>1. CopyOfFile
    BY <1>b, <1>1, <1>4 DEF CopySound, Recording, storeVars
  <2>2. PICK last \in Int : captured' = last /\ captured <= last
    BY <1>a, CaptureGrows DEF CopyNumbers
  <2>3. Overrun(captured, browseLast) => Overrun(last, browseLast)
    BY <1>a, <2>2, OverrunStays DEF CopyNumbers
  <2>4. \A k \in Int : Sure(k)' => Sure(k)
    BY <1>b, <1>3, <2>2, <2>3 DEF Sure, Overrun, browseVars
  <2> QED BY <1>a, <1>b, <1>3, <2>1, <2>4 DEF CopyOfFile, storeVars, CopyNumbers
<1>5. ASSUME ~stale', Unharmed' PROVE CopyEnds'
  <2>1. ~stale /\ Unharmed
    BY <1>b, <1>5, AbortStays DEF Unharmed, storeVars, StatusTypes
  <2>2. CopyEnds
    BY <1>1, <2>1 DEF CopySound
  <2> QED BY <1>b, <2>2 DEF CopyEnds, browseVars
<1> QED BY <1>3, <1>4, <1>5 DEF CopySound

\* A step of the store thread: a frame that it counts is in the ring, and so is
\* the copy of it.
LEMMA CopyByStore ==
  ASSUME CaptureTypes, StoreTypes, BrowseTypes, SessionTypes, StatusTypes,
         RestTypes, RingSound, SessionSound, StoreSound, FileSound, FileOfRing,
         CopySound, [ArchiveNext]_vars, Store
  PROVE  CopySound'
<1>a. CopyNumbers
  BY NumbersKnown
<1>b. UNCHANGED <<cap, ring, captured, session, browseVars>>
  BY StoreLeaves DEF Store, StoreLooks, StoreStops, StoreWaits, StoreOverflows,
     StoreWrites, StoreCounts, capVars
<1> SUFFICES ASSUME Copying' PROVE CopySound'
  BY DEF CopySound
<1>1. Copying /\ session.first >= 0
  BY <1>b DEF Copying, browseVars, SessionSound, Opened
<1>2. HandsOver /\ SlotsSound /\ CopyOfRing
  BY <1>1 DEF CopySound
<1>3. /\ HandsOver' /\ SlotsSound' /\ CopyOfRing'
      /\ Handed' = Handed /\ \A k \in Int : Sent(k)' = Sent(k)
  BY <1>a, <1>b, <1>1, <1>2, CopyQuiet
<1>4. \A k \in Int : Sure(k)' = Sure(k)
  BY <1>b, <1>3 DEF Sure, Overrun, browseVars
<1>5. ASSUME Recording', ~stale' PROVE CopyOfFile'
  <2>1. ~stale
    BY <1>5 DEF Store, StoreLooks, StoreStops, StoreWaits, StoreOverflows,
       StoreWrites, StoreCounts
  <2>2. Recording /\ CopyOfFile
    BY <1>b, <1>1, <1>5, <2>1 DEF CopySound, Recording
  <2>3. CASE StoreLooks \/ StoreStops \/ StoreWaits \/ StoreOverflows
    <3>1. UNCHANGED <<file, counted>>
      BY <2>3 DEF StoreLooks, StoreStops, StoreWaits, StoreOverflows
    <3> QED BY <1>a, <1>3, <1>4, <2>2, <3>1 DEF CopyOfFile, CopyNumbers
  <2>4. CASE StoreWrites
    <3>1. counted' = counted /\ file' = Append(file, ring[Slot(store.written + 1)])
      BY <2>4 DEF StoreWrites
    <3>2. counted <= Len(file)
      BY <1>a, <2>1, <2>2 DEF FileSound, CopyNumbers
    <3>3. \A k \in 1 .. counted : file'[k] = file[k]
      BY <1>a, <3>1, <3>2 DEF StoreTypes, CopyNumbers
    <3>4. ASSUME NEW k \in 1 .. Handed, k <= counted, Sure(k)
          PROVE  Sent(k)' = file'[k]
      <4>1. k \in 1 .. counted /\ k \in Int
        BY <1>a, <3>4 DEF CopyNumbers
      <4> QED BY <1>3, <2>2, <3>3, <3>4, <4>1 DEF CopyOfFile
    <3>5. ASSUME NEW k \in 1 .. Handed', (k <= counted)', Sure(k)'
          PROVE  Sent(k)' = file'[k]
      <4>1. k \in 1 .. Handed /\ k <= counted /\ Sure(k)
        BY <1>3, <1>4, <3>1, <3>5
      <4> QED BY <3>4, <4>1
    <3> QED BY <3>5 DEF CopyOfFile
  <2>5. CASE StoreCounts
    <3>1. /\ store.at = "check" /\ ~Overrun(captured, store.written)
          /\ counted' = counted + 1 /\ UNCHANGED file
      BY <2>5 DEF StoreCounts
    <3>2. /\ store.written = written /\ Len(file) = counted + 1
          /\ written = session.first - 1 + counted
      BY <2>1, <2>2, <3>1 DEF FileSound
    <3>3. InRing(written + 1)
      BY <3>1, <3>2, NextInRing DEF StoreSound
    <3>4. ASSUME NEW k \in 1 .. Handed, k <= counted + 1, Sure(k)
          PROVE  Sent(k) = file[k]
      <4>1. CASE k <= counted
        BY <2>2, <3>4, <4>1 DEF CopyOfFile
      <4>2. CASE k = counted + 1
        <5>1. session.first + k - 1 = written + 1 /\ k \in 1 .. Len(file)
          BY <1>a, <3>2, <4>2 DEF CopyNumbers
        <5>2. Sent(k) = ring[Slot(session.first + k - 1)]
          BY <1>2, <3>3, <5>1 DEF CopyOfRing
        <5>3. file[k] = ring[Slot(session.first + k - 1)]
          BY <2>1, <2>2, <3>3, <5>1 DEF FileOfRing
        <5> QED BY <5>2, <5>3
      <4> QED BY <1>a, <3>4, <4>1, <4>2 DEF CopyNumbers
    <3> QED BY <1>a, <1>3, <1>4, <3>1, <3>4 DEF CopyOfFile, CopyNumbers
  <2> QED BY <2>3, <2>4, <2>5 DEF Store
<1>6. ASSUME ~stale', Unharmed' PROVE CopyEnds'
  <2>1. ~stale
    BY <1>6 DEF Store, StoreLooks, StoreStops, StoreWaits, StoreOverflows,
       StoreWrites, StoreCounts
  <2>2. Unharmed
    BY <1>b, <1>6, AbortStays DEF Unharmed, StatusTypes
  <2>3. CopyEnds
    BY <1>1, <2>1, <2>2 DEF CopySound
  <2>4. ~StoreOverflows
    BY <1>b, <1>6, OverflowAborts DEF Unharmed
  <2>5. stopFrame' = stopFrame
    BY <2>4 DEF Store, StoreLooks, StoreStops, StoreWaits, StoreWrites, StoreCounts
  <2> QED BY <1>b, <2>3, <2>5 DEF CopyEnds, browseVars
<1> QED BY <1>3, <1>5, <1>6 DEF CopySound

\* A step of the session thread: it opens the browse copy, and a request to
\* stop finds it not ahead of the card.
LEMMA CopyBySession ==
  ASSUME CaptureTypes, StoreTypes, BrowseTypes, SessionTypes, StatusTypes,
         RestTypes, SessionSound, EndSound, CopySound, [ArchiveNext]_vars, Session
  PROVE  CopySound'
<1>a. CopyNumbers
  BY NumbersKnown
<1>1. CASE Opens
  <2>1. CASE ~BrowseEnabled
    BY <2>1 DEF CopySound, Copying
  <2>2. CASE BrowseEnabled
    <3>1. /\ browseLast' = session.first - 1
          /\ browse' = [at |-> "open", skip |-> 0]
          /\ slots' = [s \in 0 .. 1 |-> Free]
          /\ turn' = [write |-> 0, read |-> 0]
          /\ encoding' = TRUE /\ copy' = <<>>
      BY <1>1, <2>2 DEF Opens
    <3>2. /\ session.at = "open" /\ session'.at = "status"
          /\ session'.first = session.first /\ stopFrame' = stopFrame
          /\ captured' = captured
      BY <1>1, SessionMoves, SessionLeaves DEF Moved
    <3>3. stopFrame = NotSet /\ session.first <= captured
      BY <3>2 DEF SessionSound
    <3>4. Handed' = 0
      BY <1>a, <3>1, <3>2 DEF Handed, CopyNumbers
    <3>5. HandsOver'
      BY <1>a, <3>1, <3>2, <3>3 DEF HandsOver, CopyNumbers
    <3>6. SlotsSound'
      BY <3>1, <3>4 DEF SlotsSound
    <3>7. CopyOfRing' /\ CopyOfFile'
      BY <3>4 DEF CopyOfRing, CopyOfFile
    <3>8. CopyEnds'
      BY <3>1, <3>2, <3>3 DEF CopyEnds
    <3> QED BY <3>5, <3>6, <3>7, <3>8 DEF CopySound
  <2> QED BY <2>1, <2>2
<1>2. CASE ResetsStatus \/ SignalsStart \/ IsRecording \/ Stop \/ Stopped \/ Completes
  <2> SUFFICES ASSUME Copying' PROVE CopySound'
    BY DEF CopySound
  <2>0. ~Opens /\ UNCHANGED browseVars
    BY <1>2, SessionMoves DEF Moved, ResetsStatus, SignalsStart, IsRecording,
       Stop, Stopped, Completes, OutsideSession
  <2>1. /\ Copying /\ session'.first = session.first /\ session.first >= 0
    BY <1>2, <2>0, SessionMoves DEF Moved, Copying, SessionSound, Opened, browseVars
  <2>2. HandsOver /\ SlotsSound /\ CopyOfRing
    BY <2>1 DEF CopySound
  <2>3. /\ HandsOver' /\ SlotsSound' /\ CopyOfRing'
        /\ Handed' = Handed /\ \A k \in Int : Sent(k)' = Sent(k)
    BY <1>a, <2>0, <2>1, <2>2, CopyQuiet
  <2>4. ASSUME Recording', ~stale' PROVE CopyOfFile'
    <3>1. CASE ResetsStatus
      <4>1. counted' = 0
        BY <3>1, SessionMoves
      <4> QED BY <4>1, <1>a, <2>3 DEF CopyOfFile, CopyNumbers
    <3>2. CASE SignalsStart \/ IsRecording \/ Stop \/ Stopped \/ Completes
      <4>1. UNCHANGED <<counted, file, stale>> /\ Recording
        BY <3>2, SessionMoves DEF Recording, storeVars
      <4>2. CopyOfFile
        BY <2>1, <2>4, <4>1 DEF CopySound
      <4>3. \A k \in Int : Sure(k)' = Sure(k)
        BY <2>0, <2>3, SessionLeaves DEF Sure, Overrun, browseVars
      <4> QED BY <1>a, <2>3, <4>1, <4>2, <4>3 DEF CopyOfFile, CopyNumbers
    <3> QED BY <1>2, <3>1, <3>2
  <2>5. ASSUME ~stale', Unharmed' PROVE CopyEnds'
    <3>1. ~stale
      BY <1>2, <2>5, SessionMoves DEF storeVars
    <3>2. Unharmed
      BY <1>2, <2>5, SessionMoves, AbortStays DEF Moved, Unharmed, StatusTypes, Completes, ResetsStatus, SignalsStart, IsRecording, Stop, Stopped
    <3>3. CopyEnds
      BY <2>1, <3>1, <3>2 DEF CopySound
    <3>4. CASE Stop
      <4>1. /\ session.at = "idle" /\ session.state = "recording"
            /\ stopFrame' = captured
        BY <3>4, SessionMoves
      <4>2. stopFrame = NotSet
        BY <3>1, <3>2, <4>1 DEF EndSound, Recording
      <4>3. browse.at \notin {"end", "none"}
        BY <3>3, <4>2 DEF CopyEnds
      <4> QED BY <2>0, <2>2, <4>1, <4>3 DEF CopyEnds, HandsOver, browseVars
    <3>5. CASE ~Stop
      <4>1. stopFrame' = stopFrame
        BY <1>2, <3>5, SessionMoves
      <4> QED BY <2>0, <3>3, <4>1 DEF CopyEnds, browseVars
    <3> QED BY <3>4, <3>5
  <2> QED BY <2>3, <2>4, <2>5 DEF CopySound
<1>3. CASE \/ SessionBegins \/ Start \/ Restarts
           \/ StartFails \/ BackupFails \/ Aborts \/ Aborted
  <2>1. ~Copying'
    BY <1>3, SessionMoves DEF Moved, SessionSame, Copying
  <2> QED BY <2>1 DEF CopySound
<1> QED BY <1>1, <1>2, <1>3 DEF Session

LEMMA CopySoundStep ==
  ASSUME ArchiveInv, FileOfRing, CopySound, [ArchiveNext]_vars
  PROVE  CopySound'
<1>a. /\ CaptureTypes /\ StatusTypes /\ StoreTypes /\ BrowseTypes
      /\ SessionTypes /\ RestTypes
      /\ RingSound /\ SessionSound /\ StoreSound /\ FileSound /\ EndSound
  BY Types DEF ArchiveInv
<1>1. CASE Capture
  BY <1>1, <1>a, CopyByCapture
<1>2. CASE Store
  BY <1>2, <1>a, CopyByStore
<1>3. CASE Session
  BY <1>3, <1>a, CopyBySession
<1>4. CASE Browse
  <2> SUFFICES ASSUME Copying' PROVE CopySound'
    BY DEF CopySound
  <2>1. UNCHANGED <<statusVars, file, counted, stale, session>>
    BY <1>4, BrowseLeaves DEF storeVars
  <2>2. ~skipped /\ ~skipped'
    BY <1>4 DEF Copying, Browse, BrowseOpens, BrowseBegins, BrowseStops,
       BrowseOverflows, BrowsePicks, BrowseAdds, BrowseCounts, BrowseEnds, Encodes
  <2>3. Copying /\ session.first >= 0
    BY <1>a, <2>1, <2>2 DEF Copying, SessionSound, Opened
  <2>4. HandsOver /\ SlotsSound /\ CopyOfRing
    BY <2>3 DEF CopySound
  <2>5. /\ HandsOver' /\ SlotsSound' /\ CopyOfRing'
        /\ Recording /\ ~stale /\ CopyOfFile => CopyOfFile'
        /\ CopyEnds => CopyEnds'
    BY <1>4, <1>a, <2>2, <2>3, <2>4, CopyByBrowse
  <2>6. Recording' = Recording /\ Unharmed' = Unharmed
    BY <2>1 DEF Recording, Unharmed, statusVars
  <2> QED BY <2>1, <2>3, <2>5, <2>6 DEF CopySound
<1>5. CASE UNCHANGED vars
  <2>1. /\ HandsOver' = HandsOver /\ SlotsSound' = SlotsSound
        /\ CopyOfRing' = CopyOfRing /\ CopyOfFile' = CopyOfFile
        /\ CopyEnds' = CopyEnds /\ Copying' = Copying
        /\ Recording' = Recording /\ Unharmed' = Unharmed /\ stale' = stale
    BY <1>5 DEF HandsOver, SlotsSound, CopyOfRing, CopyOfFile, CopyEnds, Copying,
       Recording, Unharmed, Handed, Sent, Sure, InRing, Slot, Overrun, vars,
       capVars, statusVars, storeVars, browseVars
  <2> QED BY <2>1 DEF CopySound
<1> QED BY <1>1, <1>2, <1>3, <1>4, <1>5 DEF ArchiveNext

\* For every size of the ring: the browse copy of a recording that is kept
\* shows the frames of the archive file, one for one, if the thread that hands
\* them over kept up.
THEOREM CopyShowsFile == ArchiveSpec => []BrowseMatches
<1>1. ArchiveInit => FileOfRing /\ CopySound
  BY DEF ArchiveInit, FileOfRing, CopySound, Copying, Recording
<1>2. ArchiveInv /\ FileOfRing /\ CopySound /\ [ArchiveNext]_vars
      => FileOfRing' /\ CopySound'
  BY FileOfRingStep, CopySoundStep, Types DEF ArchiveInv
<1>3. ArchiveInv /\ FileOfRing /\ CopySound => BrowseMatches
  <2> SUFFICES ASSUME ArchiveInv, CopySound, session.state = "kept", ~encoding,
                      ~skipped, ~stale, BrowseEnabled
               PROVE  copy = file
    BY DEF BrowseMatches
  <2>1. /\ CaptureTypes /\ StoreTypes /\ BrowseTypes /\ SessionTypes /\ RestTypes
        /\ SessionSound /\ StoreSound /\ FileSound /\ EndSound
    BY Types DEF ArchiveInv
  <2>2. session.at = "idle"
    BY <2>1 DEF SessionTypes, SessionSound, Starting
  <2>3. Recording /\ Unharmed /\ Copying /\ store.at # "check"
    BY <2>1, <2>2 DEF Recording, Unharmed, Copying, StoreSound, SessionSound
  <2>4. Len(file) = counted /\ written = stopFrame
    BY <2>1, <2>3, <2>2 DEF EndSound
  <2>5. written = session.first - 1 + counted
    BY <2>1, <2>3 DEF FileSound
  <2>6. SlotsSound /\ CopyOfFile /\ CopyEnds
    BY <2>3 DEF CopySound
  <2>7. browse.at = "none" /\ Len(copy) = Handed
    BY <2>6 DEF SlotsSound
  <2>8. CopyNumbers /\ browseLast = stopFrame
    BY <2>1, <2>6, <2>7, NumbersKnown DEF CopyEnds
  <2>9. Handed = counted
    <3>1. Handed = stopFrame - session.first + 1
      BY <2>7, <2>8 DEF Handed, CopyNumbers
    <3>2. stopFrame = session.first - 1 + counted
      BY <2>4, <2>5
    <3> QED BY <2>8, <3>1, <3>2 DEF CopyNumbers
  <2>10. ASSUME NEW k \in 1 .. Len(copy) PROVE copy[k] = file[k]
    <3>1. Sent(k) = file[k]
      BY <2>6, <2>7, <2>8, <2>9 DEF CopyOfFile, Sure, CopyNumbers
    <3> QED BY <3>1 DEF Sent
  <2>11. copy \in Seq(Frames \cup {Torn, Black}) /\ file \in Seq(Frames \cup {Torn, Black})
    BY <2>1 DEF BrowseTypes, StoreTypes
  <2> QED BY <2>4, <2>7, <2>9, <2>10, <2>11, SeqEqual
<1> QED BY <1>1, <1>2, <1>3, ArchiveInvariant, PTL DEF ArchiveSpec
=============================================================================
