--------------------------- MODULE TransferServer ---------------------------
(***************************************************************************)
(* The transfer server xferserver.pl: a parent process that serves         *)
(* recorders and players, a child process that scans source directories    *)
(* and copies what is new in them to the file server, oldest file first,   *)
(* and cpfs, the program that copies one file, fast or slowly.  The two    *)
(* processes share a hash under a lock, a pipe through which the parent    *)
(* kicks the child, and the pid of cpfs, which both of them signal.        *)
(*                                                                         *)
(* Its clients, recorders and players, make a connection per message and   *)
(* never learn whether it was served.  A recorder has one priority for     *)
(* each source directory, and no two directories share a destination.      *)
(***************************************************************************)
EXTENDS Integers, FiniteSets, Sequences

CONSTANTS
  Recorders, Routers, \* recorders, and those that clear their events when
                      \* they start, as RouterRecorders do
  Players,            \* players of the Ingex GUI
  MaxIndex,           \* bound: recordings between two starts of a recorder
  MaxNet,             \* bound: connections waiting to be accepted
  Sources,            \* source directories
  PriorityOf,         \* their priorities
  Files,              \* files that the recorders make
  SourceOf, DirOf,    \* the source and the directory in it, "main" or "xml"
  Collected,          \* files that may be taken off the file server again
  LastArrival,        \* bound: second in which the last file appears
  MaxNow,             \* bound: seconds in a behaviour
  MaxFaults           \* bound: messages lost, failures and crashes

ASSUME TransferAssumption ==
  /\ Routers \subseteq Recorders /\ Recorders \cap Players = {}
  /\ MaxIndex \in Nat /\ MaxNet \in Nat
  /\ IsFiniteSet(Sources) /\ PriorityOf \in [Sources -> Nat \ {0}]
  /\ IsFiniteSet(Files) /\ SourceOf \in [Files -> Sources]
  /\ DirOf \in [Files -> {"main", "xml"}]
  /\ Collected \subseteq Files
  /\ LastArrival \in Nat /\ MaxNow \in Nat /\ MaxFaults \in Nat

UpToDate == 0
Processing == 1
Stale == 2
None == 0         \* no priority, no second
Failed == -1      \* a source directory that had a problem

VARIABLES
  now,        \* seconds
  faults,     \* number of faults so far
  \* the clients and their messages
  client,     \* recorders: do they run, mRecordingIndex, what they record
  player,     \* players: do they run and play (mTrafficControl),
              \* mPrevTrafficControl and mOpeningSocket
  net,        \* connections that the parent has not accepted yet
  \* the parent process
  up,         \* are parent and child running?
  events,     \* %events
  \* the shared hash
  limit,      \* is traffic control on?
  pid,        \* is the pid of cpfs noted?
  staleFrom,  \* priority to scan from, if new directories were supplied
  pair,       \* the directory pairs
  \* PATHS_FILE, the pipe
  saved,      \* ctimeCleared of each pair in the file
  saving,     \* is the file truncated and not yet written?
  kicks,      \* newlines in the pipe
  \* the child process
  child,      \* where it is, and its local variables
  scan,       \* the pair that it is scanning
  work,       \* what it found out about each pair of this priority
  list,       \* files that it has to copy at this priority
  cp,         \* cpfs
  \* the discs
  ctime,      \* when each file was moved into its directory
  disk,       \* files in the source directories
  dest,       \* files at their destinations
  \* history
  copied,     \* files that have ever been at their destinations
  torn,       \* files whose directory was not scanned together with the other
  missed,     \* recordings that the server was not told of
  orphans,    \* clients whose end of event was not sent
  known,      \* the latest ctimeCleared that was not lost in a crash
  raced       \* did the limit change while cpfs was coming alive?

clientVars  == <<client, player, net>>
parentVars  == <<up, events>>
shareVars   == <<limit, pid, staleFrom, pair>>
fileVars    == <<saved, saving>>
childVars   == <<child, scan, work, list>>
diskVars    == <<ctime, disk, dest>>
historyVars == <<copied, torn, missed, orphans, known, raced>>
vars == <<now, faults, clientVars, parentVars, shareVars, fileVars, kicks,
          childVars, cp, diskVars, historyVars>>

NoPair == [stale |-> UpToDate, cleared |-> Failed]
NotSaved == Failed
IdleChild == [pc |-> "wait", retry |-> FALSE, todo |-> {}, pri |-> None,
              scans |-> {}, heard |-> FALSE, limit |-> FALSE]
NoScan == [src |-> {}, dir |-> "main", time |-> None, prev |-> None,
           ok |-> TRUE, last |-> None, latest |-> None, found |-> {}]
NoWork == [copied |-> None, n |-> 0, latest |-> None]
\* Mistake: started fast
NoCopyFast == [st |-> "none", file |-> {}, slow |-> FALSE, sig |-> "none",
               ok |-> TRUE]
NoCopy == [st |-> "none", file |-> {}, slow |-> TRUE, sig |-> "none",
           ok |-> TRUE]

\* Mistake: mPrevTrafficControl starts as if nothing were on
NoPlayerOff == [up |-> FALSE, playing |-> FALSE, sent |-> FALSE,
                opening |-> "no"]
NoPlayer == [up |-> FALSE, playing |-> FALSE, sent |-> TRUE,
             opening |-> "no"]

Paired == {s \in Sources : pair[s] # NoPair}
Lowest(S) == CHOOSE x \in S : \A y \in S : x <= y
Highest(S) == CHOOSE x \in S : \A y \in S : x >= y
Later(S) == Highest(S \cup {None})

TransferInit ==
  /\ now = 1 /\ faults = 0
  /\ client = [c \in Recorders |-> [up |-> TRUE, index |-> 0, on |-> {}]]
  /\ player = [p \in Players |-> NoPlayer]
  /\ net = <<>>
  /\ up = TRUE /\ events = {}
  /\ limit = FALSE /\ pid = FALSE /\ staleFrom = None
  /\ pair = [s \in Sources |-> NoPair]
  /\ saved = [s \in Sources |-> NotSaved] /\ saving = FALSE
  /\ kicks = 0
  /\ child = IdleChild /\ scan = NoScan
  /\ work = [s \in Sources |-> NoWork] /\ list = {}
  /\ cp = NoCopy
  /\ ctime = [f \in Files |-> None] /\ disk = {} /\ dest = {}
  /\ copied = {} /\ torn = {} /\ missed = {} /\ orphans = {}
  /\ known = [s \in Sources |-> None] /\ raced = FALSE

Fault == faults < MaxFaults /\ faults' = faults + 1

-----------------------------------------------------------------------------
(* The clients and the discs *)

Tick ==
  /\ now < MaxNow /\ now' = now + 1
  /\ UNCHANGED <<faults, clientVars, parentVars, shareVars, fileVars, kicks,
                 childVars, cp, diskVars, historyVars>>

\* A finished file is moved into its source directory.  It is torn if that
\* is the main directory of a pair of which only the subdirectory is still
\* to be scanned.
Arrive(f) ==
  /\ ctime[f] = None /\ now <= LastArrival
  /\ ctime' = [ctime EXCEPT ![f] = now]
  /\ disk' = disk \cup {f}
  /\ torn' = IF DirOf[f] = "main" /\ scan.src = {SourceOf[f]}
                  /\ scan.dir = "xml"
             THEN torn \cup {f} ELSE torn
  /\ UNCHANGED <<now, faults, clientVars, parentVars, shareVars, fileVars,
                 kicks, childVars, cp, dest, copied, missed, orphans, known, raced>>

\* Somebody takes a file off the file server.
Collect(f) ==
  /\ f \in dest \cap Collected /\ dest' = dest \ {f}
  /\ UNCHANGED <<now, faults, clientVars, parentVars, shareVars, fileVars,
                 kicks, childVars, cp, ctime, disk, historyVars>>

\* TcpPort::Connect() and Send(): there is no answer, and no second attempt
Send(m, delivered) ==
  IF delivered
  THEN /\ up /\ Len(net) < MaxNet
       /\ net' = Append(net, m) /\ UNCHANGED faults
  ELSE /\ IF up THEN Fault ELSE UNCHANGED faults
       /\ UNCHANGED net

Start(c, i) == [kind |-> "start", client |-> c, index |-> i]
End(c, i)   == [kind |-> "end", client |-> c, index |-> i]
Clear(c)    == [kind |-> "clear", client |-> c, index |-> 0]

\* CopyManager::StopCopying() at the start of a recording
Begin(c, delivered) ==
  LET i == client[c].index + 1
  IN  /\ client[c].up /\ i <= MaxIndex
      /\ client' = [client EXCEPT ![c].index = i, ![c].on = @ \cup {i}]
      /\ Send(Start(c, i), delivered)
      /\ missed' = IF delivered THEN missed ELSE missed \cup {<<c, i>>}
      /\ UNCHANGED <<now, player, parentVars, shareVars, fileVars, kicks,
                     childVars, cp, diskVars, copied, torn, orphans, known, raced>>

\* CopyManager::StartCopying() at its end
Finish(c, i, delivered) ==
  /\ i \in client[c].on
  /\ client' = [client EXCEPT ![c].on = @ \ {i}]
  /\ Send(End(c, i), delivered)
  /\ missed' = missed \ {<<c, i>>}
  /\ orphans' = IF delivered THEN orphans ELSE orphans \cup {c}
  /\ UNCHANGED <<now, player, parentVars, shareVars, fileVars, kicks,
                 childVars, cp, diskVars, copied, torn, known, raced>>

RecorderCrash(c) ==
  /\ client[c].up /\ Fault
  /\ client' = [client EXCEPT ![c] = [up |-> FALSE, index |-> 0, on |-> {}]]
  /\ missed' = {e \in missed : e[1] # c}
  /\ orphans' = IF c \in Routers THEN orphans ELSE orphans \cup {c}
  /\ UNCHANGED <<now, player, net, parentVars, shareVars, fileVars, kicks,
                 childVars, cp, diskVars, copied, torn, known, raced>>

\* RouterRecorder::Init() clears all its events, IngexRecorderImpl does not.
RecorderRestart(c, delivered) ==
  /\ ~client[c].up
  /\ client' = [client EXCEPT ![c].up = TRUE]
  /\ IF c \in Routers
     THEN /\ Send(Clear(c), delivered)
          /\ orphans' = IF delivered THEN orphans ELSE orphans \cup {c}
     ELSE delivered /\ UNCHANGED <<faults, net, orphans>>
  /\ UNCHANGED <<now, player, parentVars, shareVars, fileVars, kicks,
                 childVars, cp, diskVars, copied, torn, missed, known, raced>>

\* Player::TrafficControl() when it starts, or stops, playing and when it is
\* created: unless a socket is being opened already, one is if there is news.
TrafficControl(p, on) ==
  player' = [player EXCEPT
               ![p].up = TRUE, ![p].playing = on,
               ![p].opening = IF @ = "no" /\ on # player[p].sent THEN "yes"
                              ELSE @]

Play(p) ==
  /\ \/ player[p].up /\ \E on \in {~player[p].playing} : TrafficControl(p, on)
     \/ ~player[p].up /\ TrafficControl(p, FALSE)
  /\ missed' = missed \ {<<p, 0>>}
  /\ UNCHANGED <<now, faults, client, net, parentVars, shareVars, fileVars,
                 kicks, childVars, cp, diskVars, copied, torn, orphans, known, raced>>

\* Player::OnSocketEvent(): what is sent is the state by now.
Sends(p, delivered) ==
  LET on == player[p].playing
  IN  /\ Send(IF on THEN Start(p, 0) ELSE Clear(p), delivered)
      /\ missed' = IF on /\ ~delivered THEN missed \cup {<<p, 0>>} ELSE missed
      /\ orphans' = IF ~on /\ ~delivered THEN orphans \cup {p} ELSE orphans

SocketOpened(p, delivered) ==
  /\ up /\ player[p].opening = "yes"
  /\ Sends(p, delivered)
  /\ player' = [player EXCEPT ![p].sent = player[p].playing,
                              ![p].opening = "no"]
  /\ UNCHANGED <<now, client, parentVars, shareVars, fileVars, kicks,
                 childVars, cp, diskVars, copied, torn, known, raced>>

\* Nothing is notified of a connection that fails: no other is tried.
SocketFails(p) ==
  /\ ~up /\ player[p].opening = "yes"
  /\ player' = [player EXCEPT ![p].opening = "failed"]
  /\ UNCHANGED <<now, faults, client, net, parentVars, shareVars, fileVars,
                 kicks, childVars, cp, diskVars, historyVars>>

\* ~Player() waits until it has sent the message, but not if a socket is
\* being opened.
Quit(p, delivered) ==
  /\ player[p].up
  /\ IF player[p].opening = "no" /\ player[p].sent
     THEN /\ Send(Clear(p), delivered)
          /\ orphans' = IF delivered THEN orphans ELSE orphans \cup {p}
     ELSE delivered /\ UNCHANGED <<faults, net, orphans>>
  /\ player' = [player EXCEPT ![p] = NoPlayer]
  /\ missed' = missed \ {<<p, 0>>}
  /\ UNCHANGED <<now, client, parentVars, shareVars, fileVars, kicks,
                 childVars, cp, diskVars, copied, torn, known, raced>>

PlayerCrash(p) ==
  /\ player[p].up /\ Fault
  /\ player' = [player EXCEPT ![p] = NoPlayer]
  /\ missed' = missed \ {<<p, 0>>}
  /\ UNCHANGED <<now, client, net, parentVars, shareVars, fileVars, kicks,
                 childVars, cp, diskVars, copied, torn, orphans, known, raced>>

-----------------------------------------------------------------------------
(* The parent *)

\* Does the child hold the lock?  (While the file is being saved, its writer
\* does, and does nothing else.)
Unlocked == ~saving /\ child.pc \notin {"pri", "pick"}

\* kill(), and the handler of cpfs; until it is installed the signal is
\* ignored
Signalled(m) == IF cp.st = "running" THEN [cp EXCEPT !.sig = m] ELSE cp

\* how cpfs copies once it has looked for signals
CopiesSlowly == IF cp.sig = "none" THEN cp.slow ELSE cp.sig = "slow"

\* addPair() for all of S, with the ctimeCleared of a pair that is new
AddPairs(S, cleared) ==
  /\ pair' = [s \in Sources |->
                IF s \in S THEN [stale |-> Stale, cleared |-> cleared[s]]
                ELSE pair[s]]
  /\ staleFrom' = IF S = {} THEN staleFrom
                  ELSE Lowest({PriorityOf[s] : s \in S}
                                \cup ({staleFrom} \ {None}))
  /\ kicks' = IF S # {} /\ staleFrom = None THEN kicks + 1 ELSE kicks

\* Mistake: nothing is saved
SaveNothing == UNCHANGED <<saved, saving>>
\* SaveConfig() truncates the file ...
Save == /\ saving' = TRUE /\ saved' = [s \in Sources |-> NotSaved]

\* ... and then writes it, all at once on account of its size.
FinishSave ==
  /\ saving
  /\ saving' = FALSE
  /\ saved' = [s \in Sources |-> pair[s].cleared]
  /\ UNCHANGED <<now, faults, clientVars, parentVars, shareVars, kicks,
                 childVars, cp, diskVars, historyVars>>

\* Mistake: cpfs is not told
SetLimitUntold(on) ==
  /\ limit' = on /\ UNCHANGED cp
  /\ raced' = IF limit # on /\ pid THEN ~child.heard ELSE raced

\* switching the limit, and telling cpfs
SetLimit(on) ==
  /\ limit' = on
  /\ cp' = IF limit # on /\ pid
           THEN Signalled(IF on THEN "slow" ELSE "fast") ELSE cp
  /\ raced' = IF limit # on /\ pid THEN ~child.heard ELSE raced

\* serveClient(): start of an event
ServeStart ==
  /\ up /\ Unlocked /\ net # <<>> /\ Head(net).kind = "start"
  /\ net' = Tail(net)
  /\ events' = events \cup {<<Head(net).client, Head(net).index>>}
  /\ SetLimit(TRUE)
  /\ UNCHANGED <<now, faults, client, player, up, pid, staleFrom, pair, fileVars,
                 kicks, childVars, diskVars, copied, torn, missed, orphans, known>>

\* serveClient(): end of one event or, with identifier 0 or none, of all
\* events of a client; recorders add what is to be copied
Ended(m) == IF m.kind = "clear" THEN {e \in events : e[1] = m.client}
            ELSE {<<m.client, m.index>>}
Dirs(m) == IF m.client \in Players THEN {} ELSE Sources

ServeEnd ==
  /\ up /\ Unlocked /\ net # <<>> /\ Head(net).kind \in {"end", "clear"}
  /\ net' = Tail(net)
  /\ events' = events \ Ended(Head(net))
  /\ AddPairs(Dirs(Head(net)),
               [s \in Sources |-> Later({pair[s].cleared})])
  /\ SetLimit(limit /\ events' # {})
  /\ IF Dirs(Head(net)) = {} THEN UNCHANGED fileVars ELSE Save
  /\ UNCHANGED <<now, faults, client, player, up, pid, childVars, diskVars, copied,
                 torn, missed, orphans, known>>

\* The server dies, with the computer or at the hands of an operator.
Crash ==
  /\ up /\ Fault
  /\ up' = FALSE /\ net' = <<>> /\ events' = {}
  /\ limit' = FALSE /\ pid' = FALSE /\ staleFrom' = None
  /\ pair' = [s \in Sources |-> NoPair]
  /\ saving' = FALSE /\ kicks' = 0
  /\ child' = IdleChild /\ scan' = NoScan /\ list' = {}
  /\ work' = [s \in Sources |-> NoWork]
  /\ cp' = NoCopy
  /\ missed' = {e \in Recorders \X (1 .. MaxIndex) :
                  e[2] \in client[e[1]].on}
               \cup {<<p, 0>> : p \in {q \in Players : player[q].playing}}
  /\ raced' = FALSE
  /\ known' = IF saving THEN [s \in Sources |-> None] ELSE known
  /\ UNCHANGED <<now, client, player, saved, diskVars, copied, torn, orphans>>

\* It reads the file before it accepts connections.  %events is empty.
Restart ==
  LET S == {s \in Sources : saved[s] # NotSaved}
  IN  /\ ~up /\ up' = TRUE
      /\ AddPairs(S, saved)
      /\ UNCHANGED <<now, faults, clientVars, events, limit, pid, fileVars,
                     childVars, cp, diskVars, historyVars>>

-----------------------------------------------------------------------------
(* The child: waiting *)

Wake ==
  /\ child' = [IdleChild EXCEPT !.pc = "pri",
                                !.todo = {PriorityOf[s] : s \in Paired}]
  /\ staleFrom' = None
  /\ pair' = [s \in Sources |->
                IF pair[s].stale = UpToDate THEN pair[s]
                ELSE [pair[s] EXCEPT !.stale = Processing]]
  /\ UNCHANGED <<now, faults, clientVars, parentVars, limit, pid, fileVars,
                 scan, work, list, cp, diskVars, historyVars>>

Kicked ==
  /\ up /\ Unlocked /\ child.pc = "wait" /\ kicks > 0
  /\ kicks' = kicks - 1
  /\ Wake

\* select() times out; it is only given a timeout if there is a retry due
TimesOut ==
  /\ up /\ child.pc = "wait" /\ child.retry /\ kicks = 0 /\ ~saving
  /\ child' = [child EXCEPT !.pc = "timedout"]
  /\ UNCHANGED <<now, faults, clientVars, parentVars, shareVars, fileVars,
                 kicks, scan, work, list, cp, diskVars, historyVars>>

Retries ==
  /\ up /\ Unlocked /\ child.pc = "timedout"
  /\ Wake
  /\ UNCHANGED kicks

\* the head of the loop over the priorities, and what follows the loop
NextPriority ==
  /\ up /\ ~saving /\ child.pc = "pri"
  /\ LET p == Lowest(child.todo)
     IN  child' = IF child.todo = {} THEN [child EXCEPT !.pc = "wait"]
                  ELSE [child EXCEPT
                          !.pc = "scan", !.pri = p, !.todo = @ \ {p},
                          !.scans = {s \in Paired :
                                       /\ PriorityOf[s] = p
                                       /\ pair[s].stale = Processing}]
  /\ work' = [s \in Sources |-> NoWork]
  /\ UNCHANGED <<now, faults, clientVars, parentVars, shareVars, fileVars,
                 kicks, scan, list, cp, diskVars, historyVars>>

-----------------------------------------------------------------------------
(* The child: scanning the pairs of a priority *)

\* opendir(), or rewinddir() after a sleep that takes the clock past the
\* last file found
ScanBegins(s) ==
  /\ up /\ child.pc = "scan" /\ ~saving /\ scan.dir # "done"
  /\ IF scan.src = {} THEN s \in child.scans
     ELSE scan.src = {s} /\ scan.time = None /\ now > scan.prev
  /\ scan' = [scan EXCEPT !.src = {s}, !.time = now]
  /\ UNCHANGED <<now, faults, clientVars, parentVars, shareVars, fileVars,
                 kicks, child, work, list, cp, diskVars, historyVars>>

InDir == {f \in disk : SourceOf[f] \in scan.src /\ DirOf[f] = scan.dir}
HasXml(s) == \E f \in Files : SourceOf[f] = s /\ DirOf[f] = "xml"
NextDir == IF scan.dir = "main" /\ \E s \in scan.src : HasXml(s) THEN "xml"
           ELSE "done"
HasCopy(f) == \/ ctime[f] <= pair[SourceOf[f]].cleared
              \/ f \in dest

\* Mistake: it never is read again
AgainNever(last) == FALSE
\* If a file has the ctime of the scan, others of that ctime may follow, and
\* the directory is read again.
Again(last) == last >= scan.time /\ last # scan.prev

\* readdir() and what is done with each file.  Old files that were copied
\* are deleted if the disc is getting full.
ScanReads(deleted) ==
  LET last == Later({ctime[f] : f \in InDir})
      again == Again(last)
  IN  /\ up /\ child.pc = "scan" /\ scan.time # None /\ ~saving
      /\ deleted \subseteq {f \in InDir : HasCopy(f)}
      /\ disk' = disk \ deleted
      /\ scan' = IF again THEN [scan EXCEPT !.time = None, !.prev = last]
                 ELSE [scan EXCEPT
                         !.time = None, !.prev = None, !.dir = NextDir,
                         !.last = last, !.latest = Later({@, last}),
                         !.found = @ \cup {f \in InDir : ~HasCopy(f)}]
      /\ UNCHANGED <<now, faults, clientVars, parentVars, shareVars, fileVars,
                     kicks, child, work, list, cp, ctime, dest, historyVars>>

\* A directory that cannot be read, or a file in it that cannot be examined,
\* ends the scan of the pair, but what was found before remains.
ScanFails(deleted) ==
  /\ up /\ child.pc = "scan" /\ scan.time # None /\ ~saving /\ Fault
  /\ deleted \subseteq {f \in InDir : HasCopy(f)}
  /\ disk' = disk \ deleted
  /\ scan' = [scan EXCEPT !.time = None, !.dir = "done", !.ok = FALSE]
  /\ torn' = IF scan.found = {} THEN torn
             ELSE torn \cup {f \in InDir : ~HasCopy(f)}
  /\ UNCHANGED <<now, clientVars, parentVars, shareVars, fileVars, kicks,
                 child, work, list, cp, ctime, dest, copied, missed, orphans,
                 known, raced>>

\* Mistake: it is up to date all the same
SettledAlways(stale) == UpToDate
\* A pair stays stale if the parent was told of new files meanwhile.
Settled(stale) == IF stale = Processing THEN UpToDate ELSE stale

\* what each pair has had cleared, for the history
Known == [s \in Sources |-> Later({known[s], pair'[s].cleared})]

\* Mistake: the files to copy are not counted
NewWorkUncounted == [NoWork EXCEPT !.latest = scan.latest]
\* what is to be copied of a pair that has been scanned
NewWork == [NoWork EXCEPT !.n = Cardinality(scan.found), !.latest = scan.latest]

\* A pair with nothing to copy is up to date, unless the parent has been
\* told of new files, and its ctimeCleared is that of the directory scanned
\* last.  (pair[s] # NoPair: pairs are never removed.)
PairScanned(s) ==
  LET clean == scan.ok /\ scan.found = {}
  IN  /\ up /\ Unlocked /\ scan.src = {s} /\ scan.dir = "done"
      /\ pair' = IF clean
                 THEN [pair EXCEPT ![s].cleared = scan.last,
                                   ![s].stale = Settled(@)]
                 ELSE pair
      /\ IF clean /\ scan.last # pair[s].cleared THEN Save
         ELSE UNCHANGED fileVars
      /\ work' = [work EXCEPT ![s] = NewWork]
      /\ list' = list \cup scan.found
      /\ child' = [child EXCEPT !.retry = @ \/ ~scan.ok, !.scans = @ \ {s}]
      /\ scan' = NoScan
      /\ known' = Known
      /\ UNCHANGED <<now, faults, clientVars, parentVars, limit, pid,
                     staleFrom, kicks, cp, diskVars, copied, torn, missed, orphans, raced>>

AllScanned ==
  /\ up /\ Unlocked /\ child.pc = "scan" /\ scan.src = {}
  /\ child.scans = {}
  /\ child' = [child EXCEPT !.pc = "pick"]
  /\ UNCHANGED <<now, faults, clientVars, parentVars, shareVars, fileVars,
                 kicks, scan, work, list, cp, diskVars, historyVars>>

-----------------------------------------------------------------------------
(* The child: copying the files of a priority, oldest first *)

\* the end of the loop over the files, or its interruption for files of a
\* higher priority
StopsCopying ==
  /\ up /\ ~saving /\ child.pc = "pick"
  /\ \/ list = {} /\ child' = [child EXCEPT !.pc = "pri"]
     \/ /\ list # {} /\ staleFrom \in 1 .. child.pri - 1
        /\ child' = [child EXCEPT !.pc = "wait"]
  /\ list' = {}
  /\ UNCHANGED <<now, faults, clientVars, parentVars, shareVars, fileVars,
                 kicks, scan, work, cp, diskVars, historyVars>>

\* Mistake: without a retry
GivesUpForGood(f, s) ==
  /\ work' = [work EXCEPT ![s].copied = Failed]
  /\ child' = [child EXCEPT !.pc = "pick"]
  /\ list' = list \ {f}

\* Nothing more is copied from source s until the retry.
GivesUp(f, s) ==
  /\ work' = [work EXCEPT ![s].copied = Failed]
  /\ child' = [child EXCEPT !.pc = "pick", !.retry = TRUE]
  /\ list' = list \ {f}

\* the part of the loop before the copy.  Unless the source had a problem,
\* a file newer than the last one copied clears the ctime of that one.
Pick(f, room) ==
  LET s == SourceOf[f]
      last == work[s].copied
      clears == last # None /\ ctime[f] > last
  IN  /\ up /\ ~saving /\ child.pc = "pick"
      /\ ~ staleFrom \in 1 .. child.pri - 1
      /\ f \in list /\ \A g \in list : ctime[f] <= ctime[g]
      /\ IF last = Failed
         THEN /\ list' = list \ {f} /\ room
              /\ UNCHANGED <<faults, pair, fileVars, child, work, cp>>
         ELSE /\ pair' = IF clears THEN [pair EXCEPT ![s].cleared = last]
                         ELSE pair
              /\ IF clears THEN Save ELSE UNCHANGED fileVars
              /\ IF room
                 THEN /\ cp' = [NoCopy EXCEPT !.st = "forked", !.file = {f}]
                      /\ child' = [child EXCEPT !.pc = "note"]
                      /\ UNCHANGED <<faults, work, list>>
                 ELSE Fault /\ GivesUp(f, s) /\ UNCHANGED cp
      /\ known' = Known
      /\ UNCHANGED <<now, clientVars, parentVars, limit, pid, staleFrom,
                     kicks, scan, diskVars, copied, torn, missed, orphans, raced>>

\* cpfs has been forked: its pid is noted, together with the limit
NotePid ==
  /\ up /\ Unlocked /\ child.pc = "note"
  /\ pid' = TRUE
  /\ child' = [child EXCEPT !.pc = "read", !.heard = FALSE, !.limit = limit]
  /\ raced' = FALSE
  /\ UNCHANGED <<now, faults, clientVars, parentVars, limit, staleFrom, pair,
                 fileVars, kicks, scan, work, list, cp, diskVars, copied,
                 torn, missed, orphans, known>>

\* It has come alive and may copy fast, if it might when the pid was noted.
FirstOutput ==
  /\ up /\ child.pc = "read" /\ ~child.heard /\ cp.st \in {"running", "done"}
  /\ child' = [child EXCEPT !.heard = TRUE]
  /\ cp' = IF child.limit THEN cp ELSE Signalled("fast")
  /\ UNCHANGED <<now, faults, clientVars, parentVars, shareVars, fileVars,
                 kicks, scan, work, list, diskVars, historyVars>>

OutputEnds ==
  /\ up /\ Unlocked /\ child.pc = "read" /\ child.heard /\ cp.st = "done"
  /\ pid' = FALSE
  /\ child' = [child EXCEPT !.pc = "check"]
  /\ UNCHANGED <<now, faults, clientVars, parentVars, limit, staleFrom, pair,
                 fileVars, kicks, scan, work, list, cp, diskVars, historyVars>>

\* The copy, or moving it out of the incoming directory, has failed.
CopyFails(f) ==
  /\ up /\ Unlocked /\ child.pc = "check" /\ cp.file = {f}
  /\ IF cp.ok THEN Fault ELSE UNCHANGED faults
  /\ GivesUp(f, SourceOf[f])
  /\ cp' = NoCopy
  /\ UNCHANGED <<now, clientVars, parentVars, shareVars, fileVars, kicks,
                 scan, diskVars, historyVars>>

Moves(f) ==
  /\ up /\ ~saving /\ child.pc = "check" /\ cp.file = {f} /\ cp.ok
  /\ dest' = dest \cup {f} /\ copied' = copied \cup {f}
  /\ child' = [child EXCEPT !.pc = "moved"]
  /\ UNCHANGED <<now, faults, clientVars, parentVars, shareVars, fileVars,
                 kicks, scan, work, list, cp, ctime, disk, torn, missed,
                 orphans, known, raced>>

\* When the last file of a pair has been copied, the ctimes of all that were
\* scanned are cleared.
Copied(f) ==
  LET s == SourceOf[f]
      left == work[s].n - 1
  IN  /\ up /\ Unlocked /\ child.pc = "moved" /\ cp.file = {f}
      /\ work' = [work EXCEPT ![s].copied = ctime[f], ![s].n = left]
      /\ pair' = IF left > 0 THEN pair
                 ELSE [pair EXCEPT ![s].cleared = work[s].latest,
                                   ![s].stale = Settled(@)]
      /\ IF left > 0 THEN UNCHANGED fileVars ELSE Save
      /\ list' = list \ {f}
      /\ child' = [child EXCEPT !.pc = "pick"]
      /\ cp' = NoCopy
      /\ known' = Known
      /\ UNCHANGED <<now, faults, clientVars, parentVars, limit, pid,
                     staleFrom, kicks, scan, diskVars, copied, torn, missed, orphans, raced>>

-----------------------------------------------------------------------------
(* cpfs *)

cpfsUnchanged == <<now, faults, clientVars, parentVars, shareVars, fileVars,
                   kicks, childVars, diskVars, historyVars>>

\* It installs its handlers and prints something.
ComesAlive ==
  /\ cp.st = "forked" /\ cp' = [cp EXCEPT !.st = "running"]
  /\ UNCHANGED cpfsUnchanged

\* update()
Updates ==
  /\ cp.st = "running" /\ cp.sig # "none"
  /\ cp' = [cp EXCEPT !.slow = CopiesSlowly, !.sig = "none"]
  /\ UNCHANGED cpfsUnchanged

Exits(ok) ==
  /\ cp.st = "running"
  /\ cp' = [cp EXCEPT !.st = "done", !.ok = ok]
  /\ IF ok THEN UNCHANGED faults ELSE Fault
  /\ UNCHANGED <<now, clientVars, parentVars, shareVars, fileVars, kicks,
                 childVars, diskVars, historyVars>>

-----------------------------------------------------------------------------

Environment ==
  \/ \E f \in Files : Arrive(f) \/ Collect(f)
  \/ \E c \in Recorders, d \in BOOLEAN :
       \/ Begin(c, d) \/ RecorderRestart(c, d)
       \/ \E i \in 1 .. MaxIndex : Finish(c, i, d)
  \/ \E c \in Recorders : RecorderCrash(c)
  \/ \E p \in Players, d \in BOOLEAN :
       (d \/ up) /\ (SocketOpened(p, d) \/ Quit(p, d))
  \/ \E p \in Players : Play(p) \/ SocketFails(p) \/ PlayerCrash(p)
  \/ Crash

Parent == ServeStart \/ ServeEnd

ChildScans ==
  \/ Kicked \/ TimesOut \/ Retries \/ NextPriority \/ AllScanned
  \/ \E s \in Sources : ScanBegins(s) \/ PairScanned(s)
  \/ \E d \in SUBSET Files : ScanReads(d)

ChildCopies ==
  \/ StopsCopying \/ NotePid \/ FirstOutput \/ OutputEnds
  \/ \E f \in Files : Pick(f, TRUE) \/ Moves(f) \/ Copied(f)
                      \/ (~cp.ok /\ CopyFails(f))

ChildFails ==
  \/ \E d \in SUBSET Files : ScanFails(d)
  \/ \E f \in Files : Pick(f, FALSE) \/ (cp.ok /\ CopyFails(f))

Cpfs == ComesAlive \/ Updates \/ Exits(TRUE)

TransferNext ==
  \/ Tick \/ Environment \/ Restart \/ Parent \/ FinishSave
  \/ ChildScans \/ ChildCopies \/ ChildFails
  \/ Cpfs \/ Exits(FALSE)

\* The kernel runs all processes and makes connections, the clock ticks, and
\* the server is started again when it has died.
Fairness ==
  /\ WF_vars(Tick) /\ WF_vars(Restart) /\ WF_vars(FinishSave)
  /\ WF_vars(Parent) /\ WF_vars(ChildScans) /\ WF_vars(ChildCopies)
  /\ WF_vars(ComesAlive \/ Exits(TRUE)) /\ WF_vars(Updates)
  /\ \A p \in Players : WF_vars(SocketOpened(p, TRUE))

TransferSpec == TransferInit /\ [][TransferNext]_vars /\ Fairness

-----------------------------------------------------------------------------
(* Properties *)

\* The variables have their types; in particular every ctime that is kept, in
\* the shared hash, in PATHS_FILE or by the child, is that of a file or one of
\* the values that stand for none.
TransferTypeOK ==
  /\ now \in Nat /\ faults \in Nat /\ kicks \in Nat
  /\ client \in [Recorders -> [up : BOOLEAN, index : Nat, on : SUBSET Nat]]
  /\ player \in [Players -> [up : BOOLEAN, playing : BOOLEAN, sent : BOOLEAN,
                              opening : {"no", "yes", "failed"}]]
  /\ net \in Seq([kind : {"start", "end", "clear"}, client : Recorders \cup Players,
                  index : Nat])
  /\ up \in BOOLEAN /\ events \subseteq (Recorders \cup Players) \X Nat
  /\ limit \in BOOLEAN /\ pid \in BOOLEAN /\ saving \in BOOLEAN
  /\ staleFrom \in Nat
  /\ pair \in [Sources -> [stale : {UpToDate, Processing, Stale},
                           cleared : Nat \cup {Failed}]]
  /\ saved \in [Sources -> Nat \cup {NotSaved}]
  /\ child \in [pc : {"wait", "timedout", "pri", "scan", "pick", "note",
                      "read", "check", "moved"},
                retry : BOOLEAN, todo : SUBSET Nat, pri : Nat,
                scans : SUBSET Sources, heard : BOOLEAN, limit : BOOLEAN]
  /\ scan \in [src : SUBSET Sources, dir : {"main", "xml", "done"},
               time : Nat, prev : Nat, ok : BOOLEAN, last : Nat,
               latest : Nat, found : SUBSET Files]
  /\ work \in [Sources -> [copied : Nat \cup {Failed}, n : Nat, latest : Nat]]
  /\ list \subseteq Files
  /\ cp \in [st : {"none", "forked", "running", "done"},
             file : SUBSET Files, slow : BOOLEAN,
             sig : {"none", "slow", "fast"}, ok : BOOLEAN]
  /\ ctime \in [Files -> Nat] /\ disk \subseteq Files /\ dest \subseteq Files
  /\ copied \subseteq Files /\ torn \subseteq Files
  /\ missed \subseteq (Recorders \cup Players) \X Nat
  /\ orphans \subseteq Recorders \cup Players
  /\ known \in [Sources -> Nat] /\ raced \in BOOLEAN

\* No source file is deleted, nor regarded as copied by the server or by
\* its file, unless it has been copied or was torn: cleared and saved ctimes
\* and the deletion of old files never get ahead of the copying, whatever
\* fails or is retried, interrupted or started again.
Regarded(f) ==
  /\ ctime[f] # None
  /\ \/ f \notin disk
     \/ ctime[f] <= pair[SourceOf[f]].cleared
     \/ ctime[f] <= saved[SourceOf[f]]

NothingLost == \A f \in Files : Regarded(f) => f \in copied \cup torn

\* The same for torn files too, as the comment at the scan of the
\* subdirectories and the header of xferserver.pl have it.
NothingLostAtAll == \A f \in Files : Regarded(f) => f \in copied

\* The child never sleeps while a pair is out of date, unless a kick or a
\* retry is to come: the pipe and staleFrom stay in step through time-outs,
\* interruptions and restarts.
NoSleepOverWork ==
  (up /\ child.pc = "wait" /\ kicks = 0 /\ ~child.retry)
    => \A s \in Sources : pair[s].stale = UpToDate

\* The discs are spared: while a recorder records, or a player plays, and
\* nothing of what it sent was lost or is to be served, a file is copied
\* slowly, unless the limit changed just when cpfs came alive.
Served(c, i) == /\ <<c, i>> \notin missed
                /\ \A n \in 1 .. Len(net) : net[n].client # c
UsesDiscs(c, i) ==
  \/ c \in Recorders /\ i \in client[c].on
  \/ /\ c \in Players /\ i = 0
     /\ player[c].playing /\ player[c].opening = "no"
DiscsSpared ==
  \A c \in Recorders \cup Players, i \in 0 .. MaxIndex :
    (UsesDiscs(c, i) /\ Served(c, i) /\ cp.st = "running" /\ ~raced)
      => CopiesSlowly

\* ... and copying is fast again afterwards.
FastOtherwise ==
  (child.pc = "read" /\ child.heard /\ cp.st = "running" /\ ~limit /\ ~raced)
    => ~CopiesSlowly

\* What has been cleared is remembered for as long as a file could need it,
\* across restarts as well unless the server died while it saved, so that files
\* may be taken off the file server for good.  (Sources with a subdirectory
\* forget: the last directory scanned decides alone.)
Remembered ==
  \A f \in disk :
    LET s == SourceOf[f]
    IN  ~HasXml(s) /\ ctime[f] <= known[s] =>
          ctime[f] <= IF up THEN pair[s].cleared ELSE saved[s]

\* Traffic control does not remain on: it ends, unless a client still uses
\* the discs or is down, or the end of what it did was never sent.
LimitReleased ==
  limit ~> \/ ~limit
           \/ \E c \in Recorders : client[c].on # {} \/ ~client[c].up
           \/ \E p \in Players : player[p].playing \/ ~player[p].up
           \/ \E e \in events : e[1] \in orphans

\* A file in a directory of which the server was told is copied in the end,
\* unless it is torn or the server died while it saved.
CopiedInTheEnd ==
  \A f \in Files :
    (f \in disk /\ pair[SourceOf[f]].stale = Stale)
      ~> (f \in copied \cup torn \/ ~up)
=============================================================================
