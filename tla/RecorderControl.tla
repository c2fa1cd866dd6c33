-------------------------- MODULE RecorderControl --------------------------
(***************************************************************************)
(* The control part of a recorder: the ORB thread that serves Start() and  *)
(* Stop() of IngexRecorderImpl, the record threads of each IngexRecorder,  *)
(* the thread that waits for them and then restarts them for the next      *)
(* chunk or completes the recording, and the transfer server that is told  *)
(* to leave the discs alone meanwhile.                                     *)
(*                                                                         *)
(* Timecodes are frame numbers of the capture daemon, without midnight.    *)
(* A record thread is what RecordThread makes of it: a count of frames     *)
(* written or dropped that is compared with the target duration.           *)
(***************************************************************************)
EXTENDS Integers, FiniteSets, FiniteSetsExt

CONSTANTS
  Channels,       \* the enabled channels, one record thread each
  MaxRec,         \* bound: recordings in a behaviour
  Chunk,          \* mChunkSize in frames; 0 is no chunking
  Align,          \* mChunkAlignment in frames
  Search,         \* frames CheckStartTimecode() searches back
  Ahead,          \* frames it predicts ahead (4 in the code)
  Day,            \* frames per day
  StartAt,        \* start timecodes that clients ask for, less their pre-roll,
                  \* from the newest frame
  PostRolls,      \* post-rolls that clients ask for
  StopBack,       \* newest frames a client's stop timecode may name, if any
  MaxDrop,        \* bound: frames dropped at once
  CaptureMayDie,  \* whether the capture daemon may stop
  SpawnMayFail,   \* whether ACE_Thread::spawn() may fail
  StartBy,        \* bound: last frame at which clients call or are served
  MaxNow          \* bound: last frame of a behaviour

ASSUME ControlAssumption ==
  /\ IsFiniteSet(Channels) /\ Channels # {}
  /\ MaxRec \in Nat \ {0}
  /\ Chunk \in Nat /\ Align \in Nat /\ Search \in Nat \ {0} /\ Ahead \in Nat
  /\ StartAt \subseteq Int /\ \A s \in StartAt : Search + s >= 0
  /\ Day \in Nat \ {0} /\ PostRolls \subseteq Nat /\ PostRolls # {}
  /\ StopBack \in Nat /\ MaxDrop \in Nat
  /\ CaptureMayDie \in BOOLEAN /\ SpawnMayFail \in BOOLEAN
  /\ StartBy \in Nat /\ MaxNow \in Nat

Ids == 1 .. MaxRec
None == 0            \* null pointer
Undefined == -1      \* null timecode

VARIABLES
  now,        \* timecode of the newest frame in the ring
  alive,      \* is the capture daemon running?
  \* IngexRecorderImpl
  index,      \* mRecordingIndex
  current,    \* mpIngexRecorder
  recording,  \* mRecording
  status,     \* TrackStatus::rec, as clients see it
  orb,        \* where the ORB thread is, in which call
  \* each IngexRecorder, its manage_record_thread() and its record threads
  rec,
  manage,
  thread,
  \* CopyManager and the transfer server
  args,       \* is mArgs not empty?
  events,     \* %events of this recorder
  \* history
  begun,      \* start timecode that Start() returned last
  asked,      \* first frame the client did not ask for, when it called Stop()
  limit,      \* the same, or what had been recorded by then if that is more
  late,       \* recorders for which Stop() came when a chunk was ending
  gap,        \* recorders whose chunks leave frames out between them
  unsent      \* recorders for which no end of event was sent

implVars    == <<index, current, recording, status, orb>>
recVars     == <<rec, manage, thread>>
copyVars    == <<args, events>>
historyVars == <<begun, asked, limit, late, gap, unsent>>
controlVars == <<now, alive, implVars, recVars, copyVars, historyVars>>

NoRec == [life |-> "none", chunking |-> FALSE, target |-> 0, start |-> 0,
          ok |-> TRUE]
Deleted == [NoRec EXCEPT !.life = "deleted"]
Waiting == [pc |-> "none", restart |-> 0, found |-> FALSE]
Off == [pc |-> "off", total |-> 0]
IdleOrb == [pc |-> "idle", id |-> None, tc |-> Undefined, post |-> 0,
            length |-> 0, then |-> "idle", go |-> FALSE]

ControlInit ==
  /\ now = Search /\ alive = TRUE
  /\ index = 1 /\ current = None /\ recording = FALSE /\ status = FALSE
  /\ orb = IdleOrb
  /\ rec = [i \in Ids |-> NoRec]
  /\ manage = [i \in Ids |-> Waiting]
  /\ thread = [i \in Ids |-> [c \in Channels |-> Off]]
  /\ args = FALSE /\ events = {}
  /\ begun = 0 /\ asked = [i \in Ids |-> 0] /\ limit = [i \in Ids |-> 0]
  /\ late = {} /\ gap = {} /\ unsent = {}

-----------------------------------------------------------------------------
(* The capture daemon *)

Tick ==
  /\ alive /\ now < MaxNow
  /\ orb.pc = "idle" \/ now <= StartBy
  /\ now' = now + 1
  /\ UNCHANGED <<alive, implVars, recVars, copyVars, historyVars>>

CaptureDies ==
  /\ CaptureMayDie /\ alive
  /\ alive' = FALSE
  /\ UNCHANGED <<now, implVars, recVars, copyVars, historyVars>>

-----------------------------------------------------------------------------
(* CalculateChunkDuration() and the longest duration recorded so far *)

\* mutant of ChunkDuration: the start is rounded instead of the end
ChunkDurationOfStart(s) ==
  IF Chunk >= Align /\ Align > 0 THEN (s \div Align) * Align - s ELSE Chunk

ChunkDuration(s) ==
  LET out == s + Chunk
  IN  IF Chunk >= Align /\ Align > 0 THEN (out \div Align) * Align - s
      ELSE Chunk

\* CheckStartTimecode(): the frame is in the ring, or due at once
Found(s) == s \in (now - Search + 1) .. (now + Ahead)

\* IngexRecorder::Start(): a recording starts if one of its threads does; the
\* thread that waits for them is taken to start then
Spawned(i, started) ==
  thread' = [thread EXCEPT ![i] =
               [c \in Channels |-> IF c \in started
                                   THEN [pc |-> "run", total |-> 0] ELSE Off]]
Startable == IF SpawnMayFail THEN (SUBSET Channels) \ {{}} ELSE {Channels}

Recorded(i) == Max({thread[i][c].total : c \in Channels})
Shortest(i) == Min({thread[i][c].total : c \in Channels})

\* serveClient(): an event begins or ends.  Transfers are limited while there
\* is any.
EventBegins(i) == events' = events \cup {i}
EventEnds(i) == events' = events \ {i}

\* CopyManager::StopCopying()
Hold(i) == IF args THEN EventBegins(i) ELSE UNCHANGED events

\* mutant of LetGo: all events of the recorder end
LetGoAll(i) ==
  IF args THEN events' = {} /\ UNCHANGED unsent
  ELSE unsent' = unsent \cup {i} /\ UNCHANGED events

\* CopyManager::StartCopying()
LetGo(i) ==
  IF args THEN EventEnds(i) /\ UNCHANGED unsent
  ELSE unsent' = unsent \cup {i} /\ UNCHANGED events

Running(i, c) == thread[i][c].pc \in {"run", "behind", "check"}
Restarting == {"out", "extend", "locate", "setup", "respawn"}

-----------------------------------------------------------------------------
(* Stop() and DoStop() *)

At(pc) == orb.pc = pc

\* Stop(): a stop timecode, or none for "now"
StopRequest ==
  /\ At("idle") /\ now <= StartBy
  /\ \E p \in PostRolls, t \in {Undefined} \cup (now - StopBack + 1 .. now) :
       /\ t = Undefined \/ t >= begun
       /\ IF current # None
          THEN /\ orb' = [IdleOrb EXCEPT !.pc = "unchunk", !.id = current,
                                         !.tc = t, !.post = p]
               /\ UNCHANGED recording
          ELSE /\ recording' = FALSE
               /\ UNCHANGED orb
  /\ UNCHANGED <<now, alive, index, current, status, recVars, copyVars,
                 historyVars>>

\* mutant of Unchunk: chunking goes on
UnchunkNot ==
  /\ At("unchunk")
  /\ orb' = [orb EXCEPT !.pc = "measure"]
  /\ UNCHANGED <<now, alive, index, current, recording, status, recVars,
                 copyVars, historyVars>>

Unchunk ==
  /\ At("unchunk")
  /\ rec' = [rec EXCEPT ![orb.id].chunking = FALSE]
  /\ late' = IF manage[orb.id].pc \in Restarting THEN late \cup {orb.id}
             ELSE late
  /\ orb' = [orb EXCEPT !.pc = "measure"]
  /\ UNCHANGED <<now, alive, index, current, recording, status, manage, thread,
                 copyVars, begun, asked, limit, gap, unsent>>

\* a negative length is taken for a recording across midnight
StopLength ==
  LET len == orb.tc - rec[orb.id].start + orb.post
  IN  IF orb.tc = Undefined THEN Recorded(orb.id) + orb.post
      ELSE IF len < 0 THEN len + Day ELSE len

Measure ==
  /\ At("measure")
  /\ orb' = [orb EXCEPT !.pc = "settarget", !.tc = Undefined, !.post = 0,
                        !.length = IF StopLength <= 0 THEN 1 ELSE StopLength]
  /\ asked' = [asked EXCEPT ![orb.id] =
                 IF orb.tc = Undefined THEN rec[orb.id].start + StopLength
                 ELSE orb.tc + orb.post]
  /\ UNCHANGED <<now, alive, index, current, recording, status, recVars,
                 copyVars, begun, limit, late, gap, unsent>>

SetTarget ==
  /\ At("settarget")
  /\ rec' = [rec EXCEPT ![orb.id].target = orb.length]
  /\ limit' = [limit EXCEPT ![orb.id] =
                 Max({asked[orb.id], rec[orb.id].start + Recorded(orb.id)})]
  /\ late' = IF \A c \in Channels : Running(orb.id, c) THEN late
             ELSE late \cup {orb.id}
  /\ orb' = [orb EXCEPT !.pc = "forget", !.length = 0]
  /\ UNCHANGED <<now, alive, index, current, recording, status, manage, thread,
                 copyVars, begun, asked, gap, unsent>>

\* "It will be deleted when it signals completion"
Forget ==
  /\ At("forget")
  /\ current' = None
  /\ recording' = FALSE
  /\ orb' = IF orb.then = "new" THEN [IdleOrb EXCEPT !.pc = "new"] ELSE IdleOrb
  /\ UNCHANGED <<now, alive, index, status, recVars, copyVars, historyVars>>
-----------------------------------------------------------------------------
(* Start() *)

\* "Enforce start-stop-start sequence"
StartRequest ==
  /\ At("idle") /\ now <= StartBy /\ index <= MaxRec
  /\ IF recording /\ current # None
     THEN orb' = [IdleOrb EXCEPT !.pc = "unchunk", !.id = current,
                                 !.then = "new"]
     ELSE orb' = [IdleOrb EXCEPT !.pc = "new"]
  /\ recording' = (recording /\ current # None)
  /\ UNCHANGED <<now, alive, index, current, status, recVars, copyVars,
                 historyVars>>

\* a new IngexRecorder; test is test_only
NewRecorder ==
  /\ At("new")
  /\ current' = index
  /\ index' = index + 1
  /\ \E d \in StartAt, test \in BOOLEAN :
       LET start == now + d
       IN  /\ rec' = [rec EXCEPT ![index] =
                        [life |-> "alive", chunking |-> Chunk > 0,
                         start |-> start, ok |-> TRUE,
                         target |-> IF Chunk > 0 THEN ChunkDuration(start)
                                    ELSE 0]]
           /\ orb' = [IdleOrb EXCEPT !.pc = "clear", !.id = index,
                                     !.go = Found(start) /\ ~test]
           /\ begun' = start
  /\ UNCHANGED <<now, alive, recording, status, manage, thread, copyVars,
                 asked, limit, late, gap, unsent>>

\* InitCopying(), in two steps
ClearSrcDest ==
  /\ At("clear")
  /\ args' = FALSE
  /\ orb' = [orb EXCEPT !.pc = "add"]
  /\ UNCHANGED <<now, alive, index, current, recording, status, recVars,
                 events, historyVars>>

AddSrcDest ==
  /\ At("add")
  /\ args' = TRUE
  /\ orb' = [orb EXCEPT !.pc = "stopcopying"]
  /\ UNCHANGED <<now, alive, index, current, recording, status, recVars,
                 events, historyVars>>

StopCopying ==
  /\ At("stopcopying")
  /\ Hold(orb.id)
  /\ orb' = [orb EXCEPT !.pc = IF orb.go THEN "spawn" ELSE "discard"]
  /\ UNCHANGED <<now, alive, index, current, recording, status, recVars, args,
                 historyVars>>

\* mRecording is set whether threads could be started or not
Spawn ==
  /\ At("spawn")
  /\ recording' = TRUE
  /\ \/ /\ \E started \in Startable : Spawned(orb.id, started)
        /\ manage' = [manage EXCEPT ![orb.id].pc = "join"]
        /\ orb' = [orb EXCEPT !.pc = "status"]
     \/ /\ SpawnMayFail
        /\ orb' = [orb EXCEPT !.pc = "discard"]
        /\ UNCHANGED <<thread, manage>>
  /\ UNCHANGED <<now, alive, index, current, status, rec, copyVars,
                 historyVars>>

SetStatus ==
  /\ At("status")
  /\ status' = TRUE
  /\ orb' = IdleOrb
  /\ UNCHANGED <<now, alive, index, current, recording, recVars, copyVars,
                 historyVars>>

\* mutant of Discard: the event is not ended
DiscardOnly ==
  /\ At("discard")
  /\ rec' = [rec EXCEPT ![orb.id] = Deleted]
  /\ current' = None
  /\ orb' = IdleOrb
  /\ UNCHANGED <<now, alive, index, recording, status, manage, thread,
                 copyVars, historyVars>>

Discard ==
  /\ At("discard")
  /\ rec' = [rec EXCEPT ![orb.id] = Deleted]
  /\ current' = None
  /\ orb' = [orb EXCEPT !.pc = "release"]
  /\ UNCHANGED <<now, alive, index, recording, status, manage, thread,
                 copyVars, historyVars>>

Release ==
  /\ At("release")
  /\ LetGo(orb.id)
  /\ orb' = IdleOrb
  /\ UNCHANGED <<now, alive, index, current, recording, status, recVars, args,
                 begun, asked, limit, late, gap>>

-----------------------------------------------------------------------------
(* A record thread *)

Available(i, c) == now - rec[i].start - thread[i][c].total + 1

\* some frames dropped because of a backlog, and then one is written
Drop(i, c) ==
  /\ thread[i][c].pc = "run"
  /\ \E d \in 1 .. MaxDrop :
       /\ d < Available(i, c)
       /\ thread' = [thread EXCEPT ![i][c].pc = "behind",
                                    ![i][c].total = @ + d]
  /\ UNCHANGED <<now, alive, implVars, rec, manage, copyVars, historyVars>>

Write(i, c) ==
  /\ thread[i][c].pc \in {"run", "behind"}
  /\ Available(i, c) > 0
  /\ thread' = [thread EXCEPT ![i][c].pc = "check", ![i][c].total = @ + 1]
  /\ UNCHANGED <<now, alive, implVars, rec, manage, copyVars, historyVars>>

\* mutant of Reached: the target must be met exactly
ReachedExactly(i, c) == rec[i].target > 0 /\ thread[i][c].total = rec[i].target

\* "Check if we have finished"
Reached(i, c) == rec[i].target > 0 /\ thread[i][c].total >= rec[i].target

Check(i, c) ==
  /\ thread[i][c].pc = "check"
  /\ thread' = [thread EXCEPT ![i][c].pc = IF Reached(i, c) THEN "done"
                                           ELSE "run"]
  /\ UNCHANGED <<now, alive, implVars, rec, manage, copyVars, historyVars>>

\* "Shared memory lost - stopping recording!"
Fail(i, c) ==
  /\ thread[i][c].pc = "run"
  /\ ~alive /\ Available(i, c) = 0
  /\ thread' = [thread EXCEPT ![i][c].pc = "done"]
  /\ rec' = [rec EXCEPT ![i].ok = FALSE]
  /\ UNCHANGED <<now, alive, implVars, manage, copyVars, historyVars>>

-----------------------------------------------------------------------------
(* manage_record_thread() and recording_completed() *)

Is(i, pc) == manage[i].pc = pc
Then(i, pc) == manage' = [manage EXCEPT ![i].pc = pc]

\* mutant of Join: the first thread that is done is enough
JoinFirst(i) ==
  /\ Is(i, "join") /\ \E c \in Channels : thread[i][c].pc = "done"
  /\ Then(i, "decide")
  /\ UNCHANGED <<now, alive, implVars, rec, thread, copyVars, historyVars>>

Join(i) ==
  /\ Is(i, "join") /\ \A c \in Channels : thread[i][c].pc \in {"done", "off"}
  /\ Then(i, "decide")
  /\ UNCHANGED <<now, alive, implVars, rec, thread, copyVars, historyVars>>

Decide(i) ==
  /\ Is(i, "decide")
  /\ Then(i, IF rec[i].chunking THEN "out" ELSE "compare")
  /\ UNCHANGED <<now, alive, implVars, rec, thread, copyVars, historyVars>>

OutTimeLate(i) == rec[i].start + rec[i].target + 1   \* mutant of OutTime

\* "Next In time is last Out time"
OutTime(i) == rec[i].start + rec[i].target

Out(i) ==
  /\ Is(i, "out")
  /\ manage' = [manage EXCEPT ![i].pc = "extend", ![i].restart = OutTime(i)]
  /\ UNCHANGED <<now, alive, implVars, rec, thread, copyVars, historyVars>>

\* "Set duration for next chunk"
Extend(i) ==
  /\ Is(i, "extend")
  /\ rec' = [rec EXCEPT ![i].target = ChunkDuration(manage[i].restart)]
  /\ Then(i, "locate")
  /\ UNCHANGED <<now, alive, implVars, thread, copyVars, historyVars>>

\* CheckStartTimecode() of the next chunk
Locate(i) ==
  LET restart == manage[i].restart
      found == Found(restart)
  IN  /\ Is(i, "locate")
      /\ rec' = [rec EXCEPT ![i].start = restart]
      /\ manage' = [manage EXCEPT ![i] = [Waiting EXCEPT !.pc = "setup",
                                                        !.found = found]]
      /\ gap' = IF found /\ restart > rec[i].start + Shortest(i)
                THEN gap \cup {i} ELSE gap
      /\ UNCHANGED <<now, alive, implVars, thread, copyVars, begun, asked,
                     limit, late, unsent>>

Setup(i) ==
  /\ Is(i, "setup")
  /\ thread' = [thread EXCEPT ![i] = [c \in Channels |-> Off]]
  /\ manage' = [manage EXCEPT ![i] =
                  [Waiting EXCEPT !.pc = IF manage[i].found THEN "respawn"
                                         ELSE "compare"]]
  /\ UNCHANGED <<now, alive, implVars, rec, copyVars, historyVars>>

Respawn(i) ==
  /\ Is(i, "respawn")
  /\ \/ /\ \E started \in Startable : Spawned(i, started)
        /\ Then(i, "join")
     \/ /\ SpawnMayFail
        /\ Then(i, "compare")
        /\ UNCHANGED thread
  /\ UNCHANGED <<now, alive, implVars, rec, copyVars, historyVars>>

\* NotifyCompletion(): "make sure mpIngexRecorder isn't still pointing to it"
Compare(i) ==
  /\ Is(i, "compare")
  /\ Then(i, IF current = i THEN "clear" ELSE "another")
  /\ UNCHANGED <<now, alive, implVars, rec, thread, copyVars, historyVars>>

ClearCurrent(i) ==
  /\ Is(i, "clear")
  /\ current' = None
  /\ Then(i, "another")
  /\ UNCHANGED <<now, alive, index, recording, status, orb, rec, thread,
                 copyVars, historyVars>>

\* "only if we haven't started another recording in the meantime"
Another(i) ==
  /\ Is(i, "another")
  /\ Then(i, IF current = None THEN "clearstatus" ELSE "startcopying")
  /\ UNCHANGED <<now, alive, implVars, rec, thread, copyVars, historyVars>>

ClearStatus(i) ==
  /\ Is(i, "clearstatus")
  /\ status' = FALSE
  /\ Then(i, "startcopying")
  /\ UNCHANGED <<now, alive, index, current, recording, orb, rec, thread,
                 copyVars, historyVars>>

StartCopying(i) ==
  /\ Is(i, "startcopying")
  /\ LetGo(i)
  /\ Then(i, "delete")
  /\ UNCHANGED <<now, alive, implVars, rec, thread, args, begun, asked, limit,
                 late, gap>>

\* a thread that is not done goes on with what is deleted
Delete(i) ==
  /\ Is(i, "delete")
  /\ rec' = [rec EXCEPT ![i] = Deleted]
  /\ manage' = [manage EXCEPT ![i] = Waiting]
  /\ thread' = [thread EXCEPT ![i] =
                  [c \in Channels |-> IF Running(i, c) THEN @[c] ELSE Off]]
  /\ asked' = [asked EXCEPT ![i] = 0]
  /\ limit' = [limit EXCEPT ![i] = 0]
  /\ late' = late \ {i}
  /\ gap' = gap \ {i}
  /\ UNCHANGED <<now, alive, implVars, copyVars, begun, unsent>>

-----------------------------------------------------------------------------
StopSteps == Unchunk \/ Measure \/ SetTarget \/ Forget
StartSteps == NewRecorder \/ ClearSrcDest \/ AddSrcDest \/ StopCopying
              \/ Spawn \/ SetStatus \/ Discard \/ Release
OrbStep == StopSteps \/ StartSteps

ThreadStep(i, c) == Drop(i, c) \/ Write(i, c) \/ Check(i, c) \/ Fail(i, c)

ManageStep(i) ==
  \/ Join(i) \/ Decide(i) \/ Out(i) \/ Extend(i) \/ Locate(i) \/ Setup(i)
  \/ Respawn(i) \/ Compare(i) \/ ClearCurrent(i) \/ Another(i)
  \/ ClearStatus(i) \/ StartCopying(i) \/ Delete(i)

ControlNext ==
  \/ Tick \/ CaptureDies \/ StopRequest \/ StartRequest \/ OrbStep
  \/ \E i \in Ids : ManageStep(i) \/ \E c \in Channels : ThreadStep(i, c)

ControlSpec == ControlInit /\ [][ControlNext]_controlVars

FairControlSpec ==
  /\ ControlSpec
  /\ WF_controlVars(Tick) /\ WF_controlVars(OrbStep)
  /\ \A i \in Ids :
       /\ WF_controlVars(ManageStep(i))
       /\ \A c \in Channels : WF_controlVars(ThreadStep(i, c))

-----------------------------------------------------------------------------
(* Properties *)

OrbType ==
  [pc : {"idle", "unchunk", "measure", "settarget", "forget", "new", "clear",
         "add", "stopcopying", "spawn", "status", "discard", "release"},
   id : Ids \cup {None}, tc : Int, post : Nat, length : Nat,
   then : {"idle", "new"}, go : BOOLEAN]
RecType ==
  [life : {"none", "alive", "deleted"}, chunking : BOOLEAN, target : Nat,
   start : Nat, ok : BOOLEAN]
ManageType ==
  [pc : {"none", "join", "decide", "compare", "clear", "another",
         "clearstatus", "startcopying", "delete"} \cup Restarting,
   restart : Nat, found : BOOLEAN]
ThreadType ==
  [pc : {"off", "run", "behind", "check", "done"}, total : Nat]

ControlTypeOK ==
  /\ now \in Nat /\ alive \in BOOLEAN
  /\ index \in 1 .. MaxRec + 1 /\ current \in Ids \cup {None}
  /\ recording \in BOOLEAN /\ status \in BOOLEAN
  /\ orb \in OrbType
  /\ rec \in [Ids -> RecType] /\ manage \in [Ids -> ManageType]
  /\ thread \in [Ids -> [Channels -> ThreadType]]
  /\ args \in BOOLEAN /\ events \subseteq Ids
  /\ begun \in Nat /\ asked \in [Ids -> Int] /\ limit \in [Ids -> Int]
  /\ late \subseteq Ids /\ gap \subseteq Ids /\ unsent \subseteq Ids

Active(i) == \E c \in Channels : Running(i, c)

(***************************************************************************)
(* A recorder is deleted only when all its record threads are done with    *)
(* it: they read its target duration after every frame.                    *)
(***************************************************************************)
ThreadsOwnRecorder == \A i \in Ids : Active(i) => rec[i].life = "alive"

(***************************************************************************)
(* "Control copy process to reduce disc activity": from before the first   *)
(* frame until after the last one, through all chunks and whatever other   *)
(* recordings begin and end meanwhile, the transfer server has been told   *)
(* of the recording and not of its end.                                    *)
(***************************************************************************)
TrafficHeld == \A i \in Ids : Active(i) => i \in events

(***************************************************************************)
(* And it is told of the end of every recording that came to its end, as   *)
(* soon as the thread that deletes it is done with it, unless              *)
(* StartCopying() found mArgs as ClearSrcDest() leaves it for the          *)
(* recording that is being started.                                        *)
(***************************************************************************)
TrafficReleased ==
  \A i \in Ids :
    (rec[i].life = "deleted" /\ ~(At("release") /\ orb.id = i)
     /\ i \notin unsent) => i \notin events

(***************************************************************************)
(* Who has a recorder in hand: the ORB thread alone while it starts it,    *)
(* the thread that waits for the record threads from then on.  A recorder  *)
(* that is not yet made is known to nobody.  With TrafficReleased it makes *)
(* the inductive invariant of the control part.                            *)
(***************************************************************************)
StopCalls == {"unchunk", "measure", "settarget", "forget"}
StartCalls == {"clear", "add", "stopcopying", "spawn", "discard"}

OrbInHand ==
  /\ At("new") \/ orb.then = "new" => index <= MaxRec
  /\ orb.pc \in StopCalls \cup StartCalls \cup {"release"} => orb.id \in Ids
  /\ orb.pc \in StartCalls =>
       rec[orb.id].life = "alive" /\ Is(orb.id, "none")
  /\ At("stopcopying") => args
  /\ orb.pc \in {"spawn", "discard"} => orb.id \in events
  /\ At("release") => rec[orb.id].life = "deleted"

Managed(i) ==
  /\ Active(i) => Is(i, "join")
  /\ ~Is(i, "none") => rec[i].life = "alive"
  /\ manage[i].pc \notin {"none", "delete"} => i \in events
  /\ Is(i, "delete") => i \in unsent \/ i \notin events
  /\ i >= index => rec[i].life = "none" /\ i \notin events

InHand == OrbInHand /\ \A i \in Ids : Managed(i)

ControlInv == ControlTypeOK /\ now >= Search /\ InHand /\ TrafficReleased

(***************************************************************************)
(* What a client asked for is recorded, by every channel and to the frame  *)
(* but for what a thread writes while it is told.  Excepted is a Stop()    *)
(* that came when a chunk was ending.                                      *)
(***************************************************************************)
StopHonoured ==
  \A i \in Ids :
    limit[i] > 0 /\ i \notin late =>
      /\ rec[i].start + Recorded(i) <= limit[i] + 1 + MaxDrop
      /\ manage[i].pc = "compare" /\ rec[i].ok =>
           rec[i].start + Shortest(i) >= asked[i]

(***************************************************************************)
(* "Next In time is last Out time": a recording made of chunks has every   *)
(* frame from its start to its end, whatever the threads drop and however  *)
(* late they are, as long as the capture daemon lives and no Stop() comes  *)
(* when a chunk is ending.                                                 *)
(***************************************************************************)
ChunksAbut == \A i \in gap : i \in late \/ ~rec[i].ok

(***************************************************************************)
(* A recording that a client stopped comes to its end and is cleared away. *)
(***************************************************************************)
StopCompletes ==
  \A i \in Ids : (limit[i] > 0) ~> (rec[i].life = "deleted")
=============================================================================
