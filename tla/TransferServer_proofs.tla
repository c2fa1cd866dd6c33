----------------------- MODULE TransferServer_proofs -----------------------
(***************************************************************************)
(* Proofs about the transfer server.                                       *)
(*                                                                         *)
(* TransferInv is inductive.  Its parts, in the order in which they rest   *)
(* on one another:                                                         *)
(*   Places    where the processes are, and what of their local variables  *)
(*             means something there                                       *)
(*   Counted   the count of the files left of each pair                    *)
(*   Timely    whatever is cleared, saved or known of a scan lies in the   *)
(*             past, and a scan is read again if it does not               *)
(*   Cleared   files up to a cleared, saved or scanned ctime are done, but *)
(*             for those still to be copied                                *)
(*   Kept      what was known to be cleared remains so                     *)
(*   Kicks     work that the child knows of will be seen to                *)
(*   Copier    what cpfs has been told                                     *)
(*   Uses      what the server has been told of its clients                *)
(* A step is one of the groups of actions of StepIs; for each part there   *)
(* are lemmas that say which groups leave it alone (OthersLeave...) and    *)
(* what the others do (...Does, ...Pairs).                                 *)
(***************************************************************************)
EXTENDS TransferServer, FiniteSetTheorems, SequenceTheorems, TLAPS

-----------------------------------------------------------------------------
(* The inductive invariant *)

Active == child.pc \in {"scan", "pick", "note", "read", "check", "moved"}
Copying == child.pc \in {"note", "read", "check", "moved"}
Of(s, F) == {f \in F : SourceOf[f] = s}
HasWork(s) == Active /\ work[s].copied # Failed /\ work[s].n > 0

\* Where the processes are: nothing is left of a server that is down, and the
\* local variables of the child mean something at its places only.
UpPlaces ==
  /\ saving => up
  /\ ~up => /\ child = IdleChild /\ list = {} /\ cp = NoCopy
            /\ staleFrom = None /\ kicks = 0
            /\ pair = [s \in Sources |-> NoPair]
ScanPlaces ==
  /\ child.scans # {} => child.pc = "scan"
  /\ scan.src = {} => scan = NoScan
  /\ scan.src # {} => child.pc = "scan" /\ \E s \in child.scans : scan.src = {s}
  /\ scan.time # None => scan.src # {} /\ scan.dir # "done"
  /\ scan.dir = "main" => scan.found = {} /\ scan.latest = None
  /\ scan.dir # "done" => scan.ok
CopyPlaces ==
  /\ list # {} => Active
  /\ Copying => \E f \in list : cp.file = {f} /\ work[SourceOf[f]].copied # Failed
  /\ child.pc = "moved" => cp.file \subseteq copied
  /\ pid <=> child.pc = "read"
  /\ cp.st # "none" => Copying
  /\ cp.st \in {"forked", "running"} => child.pc \in {"note", "read"}
Places == UpPlaces /\ ScanPlaces /\ CopyPlaces

\* The work left of each pair is counted.
Counted ==
  /\ scan.found \subseteq {f \in Files : SourceOf[f] \in scan.src}
  /\ child.pc = "scan" => \A s \in Sources : work[s].copied = None
  /\ \A s \in child.scans : work[s] = NoWork /\ Of(s, list) = {}
  /\ Active => \A s \in Sources :
       work[s].copied # Failed => work[s].n = Cardinality(Of(s, list))

\* Whatever is cleared, saved or known of a scan lies in the past, where no
\* file can arrive any more.
DiscsTimely ==
  /\ now >= 1 /\ dest \subseteq copied
  /\ \A f \in Files : ctime[f] <= now
  /\ \A f \in disk \cup list \cup scan.found : ctime[f] # None
ScanTimely ==
  /\ scan.time <= now /\ (scan.time # None => scan.prev < scan.time)
  /\ scan.last <= scan.latest /\ scan.latest < now
  /\ \A f \in scan.found : /\ pair[SourceOf[f]].cleared < ctime[f]
                           /\ ctime[f] <= scan.latest
PairsTimely ==
  \A s \in Sources :
    /\ pair[s].cleared < now /\ saved[s] < now /\ known[s] < now
    /\ work[s].latest < now /\ work[s].copied <= work[s].latest
ListTimely ==
  \A f \in list : /\ pair[SourceOf[f]].cleared < ctime[f]
                  /\ ctime[f] <= work[SourceOf[f]].latest
Timely == DiscsTimely /\ ScanTimely /\ PairsTimely /\ ListTimely

\* All files of a source up to a ctime are done, but for those of a list.
Done == copied \cup torn
ReachedBy(s, t, F, times, done) ==
  \A f \in Files : (SourceOf[f] = s /\ times[f] # None /\ times[f] <= t)
                     => f \in done \cup F
Reached(s, t, F) == ReachedBy(s, t, F, ctime, Done)
MainRead(s) ==
  \A f \in Files : (SourceOf[f] = s /\ DirOf[f] = "main" /\ ctime[f] # None)
                     => f \in Done \cup scan.found
Complete == scan.dir = "done" /\ (scan.ok \/ scan.found # {})

\* Clearing does not get ahead of copying.
DiscsCleared ==
  \A f \in Files : ctime[f] # None /\ f \notin disk => f \in Done
PairsCleared ==
  \A s \in Sources : Reached(s, pair[s].cleared, {}) /\ Reached(s, saved[s], {})
ScanCleared ==
  \A s \in Sources :
    /\ scan.src = {s} /\ scan.dir = "xml" => MainRead(s)
    /\ scan.src = {s} /\ Complete => Reached(s, scan.latest, scan.found)
WorkCleared ==
  \A s \in Sources : HasWork(s) => Reached(s, work[s].latest, list)
Cleared == DiscsCleared /\ PairsCleared /\ ScanCleared /\ WorkCleared

\* The files still there of which it was known that they were cleared are
\* cleared by ctime t.
KeepsBy(s, t, D, times, k) ==
  \A f \in D : (SourceOf[f] = s /\ times[f] <= k) => times[f] <= t
Keeps(s, t) == KeepsBy(s, t, disk, ctime, known[s])
KnownSound ==
  /\ saving => saved = [s \in Sources |-> NotSaved]
  /\ \A s \in Sources : pair[s].cleared <= known[s] /\ saved[s] <= known[s]
PairsKept ==
  \A s \in Sources : ~HasXml(s) =>
    /\ up => Keeps(s, pair[s].cleared)
    /\ ~saving => Keeps(s, saved[s])
ScanKept ==
  \A s \in Sources : (~HasXml(s) /\ scan.src = {s}) =>
    /\ scan.dir # "xml"
    /\ Complete => scan.last = scan.latest /\ Keeps(s, scan.last)
WorkKept ==
  \A s \in Sources : (~HasXml(s) /\ HasWork(s)) =>
    /\ Keeps(s, work[s].latest)
    /\ work[s].copied # None => pair[s].cleared <= work[s].copied
Kept == KnownSound /\ PairsKept /\ ScanKept /\ WorkKept

\* Work that the child knows of will be seen to.
Awaited(s) ==
  \/ child.retry
  \/ child.pc = "timedout"
  \/ child.pc = "wait" /\ kicks > 0
  \/ (child.pc = "pri" \/ Active) /\ PriorityOf[s] \in child.todo
  \/ s \in child.scans
  \/ HasWork(s)
KicksSound ==
  /\ staleFrom # None => kicks > 0
  /\ \A s \in Sources :
       /\ pair[s].stale = Stale => staleFrom # None
       /\ pair[s].stale = Processing => Awaited(s)

\* What cpfs has been told.
CopierSound ==
  /\ limit <=> events # {}
  /\ cp.st = "forked" =>
       cp.slow /\ cp.sig = "none" /\ ~(child.pc = "read" /\ child.heard)
  /\ cp.st = "running" /\ child.pc = "note" => CopiesSlowly
  /\ child.pc = "read" /\ ~raced =>
       /\ ~child.heard => (child.limit <=> limit)
       /\ cp.st = "running" =>
            (CopiesSlowly <=> ~child.heard \/ limit)

\* A use of the discs of which the server was told is noted, or is about to
\* be, and nothing on the way to the server ends it.
Ends(m, c, i) == m.client = c /\ (m.kind = "clear" \/ (m.kind = "end" /\ m.index = i))
InForce(c, i) ==
  \/ <<c, i>> \in events /\ \A n \in 1 .. Len(net) : ~Ends(net[n], c, i)
  \/ \E n \in 1 .. Len(net) :
       net[n] = Start(c, i) /\ \A m \in n + 1 .. Len(net) : ~Ends(net[m], c, i)
RecordersSound ==
  \A c \in Recorders : /\ client[c].on \subseteq 1 .. client[c].index
                       /\ ~client[c].up => client[c].on = {}
                       /\ client[c].index <= MaxIndex
PlayersSound ==
  \A p \in Players :
    /\ player[p].playing => player[p].up
    /\ player[p].up /\ player[p].opening = "no" =>
         player[p].sent = player[p].playing
UsesTold ==
  \A c \in Recorders \cup Players, i \in 0 .. MaxIndex :
    UsesDiscs(c, i) => <<c, i>> \in missed \/ InForce(c, i)
UsesSound == RecordersSound /\ PlayersSound /\ UsesTold

TransferInv ==
  /\ TransferTypeOK /\ Places /\ Counted /\ Timely /\ Cleared /\ Kept
  /\ KicksSound /\ CopierSound /\ UsesSound

-----------------------------------------------------------------------------
(* The least and the greatest *)

\* A nonempty set of natural numbers has a least element.
LEMMA LeastExists ==
  ASSUME NEW S, S \subseteq Nat, S # {}
  PROVE  \E m \in S : \A n \in S : m <= n
<1> PICK k \in S : TRUE
  OBVIOUS
<1> DEFINE Below(x) == {y \in S : y <= x}
           Sets == {Below(x) : x \in Below(k)}
<1>1. Below(k) \in SUBSET Nat /\ k \in Nat /\ \A s \in Below(k) : s <= k
  OBVIOUS
<1>2. IsFiniteSet(Below(k))
  BY <1>1, FS_BoundedSetOfNaturals
<1>3. IsWellFoundedOn(StrictSubsetOrdering(Below(k)), FiniteSubsetsOf(Below(k)))
  BY <1>2, FS_StrictSubsetOrderingWellFounded
<1>4. Sets \subseteq FiniteSubsetsOf(Below(k)) /\ Sets # {}
  <2>1. ASSUME NEW x \in Below(k) PROVE Below(x) \in FiniteSubsetsOf(Below(k))
    <3>1. Below(x) \subseteq Below(k)
      <4>1. x \in Nat /\ k \in Nat /\ x <= k
        OBVIOUS
      <4>2. ASSUME NEW y \in S, y <= x PROVE y <= k
        <5>1. y \in Nat
          OBVIOUS
        <5> QED BY <4>1, <4>2, <5>1
      <4> QED BY <4>2
    <3>2. IsFiniteSet(Below(x))
      BY <3>1, <1>2, FS_Subset
    <3> QED BY <3>1, <3>2 DEF FiniteSubsetsOf
  <2>2. k \in Below(k)
    BY <1>1
  <2> QED BY <2>1, <2>2
<1>5. \E M \in Sets : \A N \in Sets :
        <<N, M>> \notin StrictSubsetOrdering(Below(k))
  BY <1>3, <1>4, WFMin
<1>6. PICK m \in Below(k) : \A x \in Below(k) :
        <<Below(x), Below(m)>> \notin StrictSubsetOrdering(Below(k))
  BY <1>5
<1>7. ASSUME NEW n \in S, ~(m <= n) PROVE FALSE
  <2>1. n \in Below(k) /\ n < m
    BY <1>7, <1>1
  <2>2. n \in Nat /\ m \in Nat /\ k \in Nat /\ m <= k
    BY <2>1
  <2>3. ASSUME NEW y \in S PROVE (y <= n => y <= m) /\ (y <= m => y <= k)
    <3>1. y \in Nat
      OBVIOUS
    <3> QED BY <3>1, <2>1, <2>2
  <2>4. Below(n) \subseteq Below(m) /\ Below(m) \subseteq Below(k)
    BY <2>3
  <2>5. m \in Below(m) /\ m \notin Below(n)
    BY <2>1, <2>2
  <2>6. <<Below(n), Below(m)>> \in StrictSubsetOrdering(Below(k))
    BY <2>4, <2>5 DEF StrictSubsetOrdering
  <2> QED BY <1>6, <2>1, <2>6
<1> QED BY <1>7

LEMMA LowestIs ==
  ASSUME NEW S, S \subseteq Nat, S # {}
  PROVE  Lowest(S) \in S /\ \A n \in S : Lowest(S) <= n
BY LeastExists DEF Lowest

\* Of finitely many files one has the latest ctime.
LEMMA LatestExists ==
  ASSUME NEW F, IsFiniteSet(F), F # {}, NEW h, \A f \in F : h[f] \in Int
  PROVE  \E f \in F : \A g \in F : h[g] <= h[f]
<1> DEFINE After(f) == {g \in F : h[g] >= h[f]}
           Sets == {After(f) : f \in F}
<1>1. IsWellFoundedOn(StrictSubsetOrdering(F), FiniteSubsetsOf(F))
  BY FS_StrictSubsetOrderingWellFounded
<1>2. Sets \subseteq FiniteSubsetsOf(F) /\ Sets # {}
  <2>1. ASSUME NEW f \in F PROVE After(f) \in FiniteSubsetsOf(F)
    <3>1. IsFiniteSet(After(f))
      BY FS_Subset
    <3> QED BY <3>1 DEF FiniteSubsetsOf
  <2> QED BY <2>1
<1>3. \E M \in Sets : \A N \in Sets : <<N, M>> \notin StrictSubsetOrdering(F)
  BY <1>1, <1>2, WFMin
<1>4. PICK f \in F : \A g \in F :
        <<After(g), After(f)>> \notin StrictSubsetOrdering(F)
  BY <1>3
<1>5. ASSUME NEW g \in F, ~(h[g] <= h[f]) PROVE FALSE
  <2>1. h[f] \in Int /\ h[g] \in Int /\ h[f] < h[g]
    BY <1>5
  <2>2. After(g) \subseteq After(f)
    BY <2>1
  <2>3. f \in After(f) /\ f \notin After(g)
    BY <2>1
  <2>4. <<After(g), After(f)>> \in StrictSubsetOrdering(F)
    BY <2>2, <2>3 DEF StrictSubsetOrdering
  <2> QED BY <1>4, <2>4
<1> QED BY <1>5

LEMMA LaterIs ==
  ASSUME NEW S, S \subseteq Int,
         NEW m \in S \cup {None}, \A n \in S \cup {None} : m >= n
  PROVE  Later(S) = m
<1>1. \A x \in S \cup {None} :
        (\A y \in S \cup {None} : x >= y) => x = m
  BY DEF None
<1> QED BY <1>1 DEF Later, Highest

LEMMA LaterOne ==
  ASSUME NEW x \in Int
  PROVE  Later({x}) = IF x >= 0 THEN x ELSE 0
<1>1. CASE x >= 0
  BY <1>1, LaterIs DEF None
<1>2. CASE x < 0
  <2>1. Later({x}) = None
    BY <1>2, LaterIs DEF None
  <2> QED BY <1>2, <2>1 DEF None
<1> QED BY <1>1, <1>2

LEMMA LaterTwo ==
  ASSUME NEW x \in Nat, NEW y \in Int
  PROVE  Later({x, y}) = IF x >= y THEN x ELSE y
<1>1. CASE x >= y
  BY <1>1, LaterIs DEF None
<1>2. CASE x < y
  BY <1>2, LaterIs DEF None
<1> QED BY <1>1, <1>2

\* The latest ctime in a directory.
LEMMA LaterOfFiles ==
  ASSUME NEW F, F \subseteq Files, ctime \in [Files -> Nat]
  PROVE  LET last == Later({ctime[f] : f \in F})
         IN  /\ last \in Nat /\ \A f \in F : ctime[f] <= last
             /\ last = None \/ \E f \in F : ctime[f] = last
<1>1. CASE F = {}
  <2>1. Later({ctime[f] : f \in F}) = None
    BY <1>1, LaterIs DEF None
  <2> QED BY <1>1, <2>1 DEF None
<1>2. CASE F # {}
  <2>1. IsFiniteSet(F)
    BY FS_Subset, TransferAssumption
  <2>2. PICK f \in F : \A g \in F : ctime[g] <= ctime[f]
    BY <1>2, <2>1, LatestExists
  <2>3. Later({ctime[g] : g \in F}) = ctime[f]
    <3> DEFINE S == {ctime[g] : g \in F}
    <3>1. S \subseteq Int /\ ctime[f] \in S \cup {None}
      OBVIOUS
    <3>2. \A n \in S \cup {None} : ctime[f] >= n
      BY <2>2 DEF None
    <3> HIDE DEF S
    <3>3. Later(S) = ctime[f]
      BY <3>1, <3>2, LaterIs
    <3> QED BY <3>3 DEF S
  <2> QED BY <2>2, <2>3
<1> QED BY <1>1, <1>2
-----------------------------------------------------------------------------
(* Who writes what *)

\* Steps of the clients, and of the clock and the discs.
Clients ==
  \/ \E c \in Recorders, d \in BOOLEAN :
       \/ Begin(c, d) \/ RecorderRestart(c, d)
       \/ \E i \in 1 .. MaxIndex : Finish(c, i, d)
  \/ \E c \in Recorders : RecorderCrash(c)
  \/ \E p \in Players, d \in BOOLEAN : SocketOpened(p, d) \/ Quit(p, d)
  \/ \E p \in Players : Play(p) \/ SocketFails(p) \/ PlayerCrash(p)
Discs == Tick \/ \E f \in Files : Arrive(f) \/ Collect(f)

clientSide == <<clientVars, missed, orphans>>
serverSide == <<now, parentVars, shareVars, fileVars, kicks, childVars, cp,
                diskVars, copied, torn, known, raced>>

\* The steps of the server that have parameters.
Begun == \E s \in Sources : ScanBegins(s)
Scanned == \E s \in Sources : PairScanned(s)
Read == \E d \in SUBSET Files : ScanReads(d)
ReadFailed == \E d \in SUBSET Files : ScanFails(d)
Picked == \E f \in Files, r \in BOOLEAN : Pick(f, r)
Moved == \E f \in Files : Moves(f)
Finished == \E f \in Files : Copied(f)
GaveUp == \E f \in Files : CopyFails(f)
Exited == \E ok \in BOOLEAN : Exits(ok)

LEMMA NextIs ==
  ASSUME TransferNext
  PROVE  \/ Clients \/ Discs \/ Crash \/ Restart \/ ServeStart \/ ServeEnd
         \/ FinishSave
         \/ Kicked \/ TimesOut \/ Retries \/ NextPriority \/ AllScanned
         \/ \E s \in Sources : ScanBegins(s) \/ PairScanned(s)
         \/ \E d \in SUBSET Files : ScanReads(d) \/ ScanFails(d)
         \/ StopsCopying \/ NotePid \/ FirstOutput \/ OutputEnds
         \/ \E f \in Files : \/ Pick(f, TRUE) \/ Pick(f, FALSE)
                             \/ Moves(f) \/ Copied(f) \/ CopyFails(f)
         \/ ComesAlive \/ Updates \/ Exits(TRUE) \/ Exits(FALSE)
  BY DEF TransferNext, Environment, Parent, ChildScans, ChildCopies, ChildFails,
         Cpfs, Clients, Discs

LEMMA StepIs ==
  ASSUME [TransferNext]_vars
  PROVE  \/ Clients \/ UNCHANGED vars \/ Discs \/ Crash \/ Restart
         \/ ServeStart \/ ServeEnd \/ FinishSave
         \/ Kicked \/ TimesOut \/ Retries \/ NextPriority \/ AllScanned
         \/ Begun \/ Scanned \/ Read \/ ReadFailed
         \/ StopsCopying \/ NotePid \/ FirstOutput \/ OutputEnds
         \/ Picked \/ Moved \/ Finished \/ GaveUp
         \/ ComesAlive \/ Updates \/ Exited
<1>1. CASE UNCHANGED vars
  BY <1>1
<1>2. ASSUME NEW f \in Files,
             \/ Pick(f, TRUE) \/ Pick(f, FALSE)
             \/ Moves(f) \/ Copied(f) \/ CopyFails(f)
      PROVE  Picked \/ Moved \/ Finished \/ GaveUp
  BY <1>2 DEF Picked, Moved, Finished, GaveUp
<1>3. ASSUME NEW s \in Sources, ScanBegins(s) \/ PairScanned(s)
      PROVE  Begun \/ Scanned
  BY <1>3 DEF Begun, Scanned
<1>4. ASSUME NEW d \in SUBSET Files, ScanReads(d) \/ ScanFails(d)
      PROVE  Read \/ ReadFailed
  BY <1>4 DEF Read, ReadFailed
<1>5. Exits(TRUE) \/ Exits(FALSE) => Exited
  BY DEF Exited
<1>6. CASE TransferNext
  BY <1>2, <1>3, <1>4, <1>5, <1>6, NextIs
<1> QED BY <1>1, <1>6

LEMMA ClientsLeave == Clients \/ UNCHANGED vars => UNCHANGED serverSide
<1>1. UNCHANGED vars => UNCHANGED serverSide
  BY DEF vars, serverSide, historyVars
<1>2. ASSUME NEW c \in Recorders, NEW d \in BOOLEAN,
             \/ Begin(c, d) \/ RecorderRestart(c, d) \/ RecorderCrash(c)
             \/ \E i \in 1 .. MaxIndex : Finish(c, i, d)
      PROVE  UNCHANGED serverSide
  BY <1>2 DEF Begin, RecorderRestart, RecorderCrash, Finish, serverSide
<1>3. ASSUME NEW p \in Players, NEW d \in BOOLEAN,
             \/ SocketOpened(p, d) \/ Quit(p, d)
             \/ Play(p) \/ SocketFails(p) \/ PlayerCrash(p)
      PROVE  UNCHANGED serverSide
  BY <1>3 DEF SocketOpened, Quit, Play, SocketFails, PlayerCrash, serverSide,
              historyVars
<1> QED BY <1>1, <1>2, <1>3 DEF Clients

\* What the server does leaves the clients alone.
LEMMA ServerLeaves ==
  [TransferNext]_vars => Clients \/ Crash \/ ServeStart \/ ServeEnd \/ UNCHANGED clientSide
<1> SUFFICES ASSUME [TransferNext]_vars,
                    ~(Clients \/ Crash \/ ServeStart \/ ServeEnd)
             PROVE  UNCHANGED clientSide
  OBVIOUS
<1>1. CASE Discs \/ UNCHANGED vars
  BY <1>1 DEF Discs, Tick, Arrive, Collect, vars, historyVars, clientSide
<1>2. CASE Restart \/ FinishSave
  BY <1>2 DEF Restart, FinishSave, historyVars, clientSide
<1>3. CASE Kicked \/ TimesOut \/ Retries \/ NextPriority \/ AllScanned
  BY <1>3 DEF Kicked, TimesOut, Retries, NextPriority, AllScanned, Wake,
              historyVars, clientSide
<1>4. CASE \E s \in Sources : ScanBegins(s) \/ PairScanned(s)
  BY <1>4 DEF ScanBegins, PairScanned, historyVars, clientSide
<1>5. CASE \E d \in SUBSET Files : ScanReads(d) \/ ScanFails(d)
  BY <1>5 DEF ScanReads, ScanFails, historyVars, clientSide
<1>6. CASE StopsCopying \/ NotePid \/ FirstOutput \/ OutputEnds
  BY <1>6 DEF StopsCopying, NotePid, FirstOutput, OutputEnds, historyVars,
              clientSide
<1>7. CASE \E f \in Files : \/ Pick(f, TRUE) \/ Pick(f, FALSE)
                            \/ Moves(f) \/ Copied(f) \/ CopyFails(f)
  BY <1>7 DEF Pick, Moves, Copied, CopyFails, historyVars, clientSide
<1>8. CASE ComesAlive \/ Updates \/ Exits(TRUE) \/ Exits(FALSE)
  BY <1>8 DEF ComesAlive, Updates, Exits, cpfsUnchanged, historyVars, clientSide
<1> QED BY <1>1, <1>2, <1>3, <1>4, <1>5, <1>6, <1>7, <1>8, NextIs

-----------------------------------------------------------------------------
(* Types *)

ClientTypes ==
  /\ client \in [Recorders -> [up : BOOLEAN, index : Nat, on : SUBSET Nat]]
  /\ player \in [Players -> [up : BOOLEAN, playing : BOOLEAN, sent : BOOLEAN,
                              opening : {"no", "yes", "failed"}]]
  /\ net \in Seq([kind : {"start", "end", "clear"}, client : Recorders \cup Players,
                  index : Nat])
  /\ missed \subseteq (Recorders \cup Players) \X Nat
  /\ orphans \subseteq Recorders \cup Players
ParentTypes ==
  /\ up \in BOOLEAN /\ saving \in BOOLEAN
  /\ staleFrom \in Nat /\ kicks \in Nat
  /\ pair \in [Sources -> [stale : {UpToDate, Processing, Stale},
                           cleared : Nat \cup {Failed}]]
  /\ saved \in [Sources -> Nat \cup {NotSaved}]
EventTypes == events \subseteq (Recorders \cup Players) \X Nat
ChildTypes ==
  /\ child \in [pc : {"wait", "timedout", "pri", "scan", "pick", "note",
                      "read", "check", "moved"},
                retry : BOOLEAN, todo : SUBSET Nat, pri : Nat,
                scans : SUBSET Sources, heard : BOOLEAN, limit : BOOLEAN]
  /\ work \in [Sources -> [copied : Nat \cup {Failed}, n : Nat, latest : Nat]]
  /\ list \subseteq Files
ScanTypes ==
  /\ scan \in [src : SUBSET Sources, dir : {"main", "xml", "done"},
               time : Nat, prev : Nat, ok : BOOLEAN, last : Nat,
               latest : Nat, found : SUBSET Files]
CopierTypes ==
  /\ limit \in BOOLEAN /\ pid \in BOOLEAN /\ raced \in BOOLEAN
  /\ cp \in [st : {"none", "forked", "running", "done"},
             file : SUBSET Files, slow : BOOLEAN,
             sig : {"none", "slow", "fast"}, ok : BOOLEAN]
DiscTypes ==
  /\ now \in Nat /\ faults \in Nat
  /\ ctime \in [Files -> Nat] /\ disk \subseteq Files /\ dest \subseteq Files
  /\ copied \subseteq Files /\ torn \subseteq Files
  /\ known \in [Sources -> Nat]

LEMMA Types ==
  TransferTypeOK <=> /\ ClientTypes /\ ParentTypes /\ EventTypes /\ ChildTypes
                     /\ ScanTypes /\ CopierTypes /\ DiscTypes
  BY DEF TransferTypeOK, ClientTypes, ParentTypes, EventTypes, ChildTypes,
         ScanTypes, CopierTypes, DiscTypes

LEMMA ClientTypesStep ==
  ASSUME ClientTypes, ParentTypes, EventTypes, [TransferNext]_vars
  PROVE  ClientTypes'
<1> DEFINE M == [kind : {"start", "end", "clear"},
                 client : Recorders \cup Players, index : Nat]
<1>a. /\ client \in [Recorders -> [up : BOOLEAN, index : Nat, on : SUBSET Nat]]
      /\ player \in [Players -> [up : BOOLEAN, playing : BOOLEAN, sent : BOOLEAN,
                                  opening : {"no", "yes", "failed"}]]
      /\ net \in Seq(M)
      /\ missed \subseteq (Recorders \cup Players) \X Nat
      /\ orphans \subseteq Recorders \cup Players
  BY DEF ClientTypes
<1>b. /\ \A c \in Recorders, i \in Nat : Start(c, i) \in M /\ End(c, i) \in M
      /\ \A c \in Recorders \cup Players : Clear(c) \in M
      /\ \A p \in Players : Start(p, 0) \in M
  BY DEF Start, End, Clear
<1>c. ASSUME NEW m \in M, NEW d, Send(m, d) PROVE net' \in Seq(M)
  <2>1. CASE d
    <3>1. net' = Append(net, m)
      BY <1>c, <2>1 DEF Send
    <3> HIDE DEF M
    <3> QED BY <3>1, <1>a, <1>c, AppendProperties
  <2>2. CASE ~d
    BY <1>a, <1>c, <2>2 DEF Send
  <2> QED BY <2>1, <2>2
<1> HIDE DEF M
<1> SUFFICES
      /\ client' \in [Recorders -> [up : BOOLEAN, index : Nat, on : SUBSET Nat]]
      /\ player' \in [Players -> [up : BOOLEAN, playing : BOOLEAN, sent : BOOLEAN,
                                   opening : {"no", "yes", "failed"}]]
      /\ net' \in Seq(M)
      /\ missed' \subseteq (Recorders \cup Players) \X Nat
      /\ orphans' \subseteq Recorders \cup Players
  BY DEF ClientTypes, M
<1>1. CASE \E c \in Recorders, d \in BOOLEAN : Begin(c, d)
  <2> PICK c \in Recorders, d \in BOOLEAN : Begin(c, d)
    BY <1>1
  <2>1. /\ client[c].index + 1 \in Nat
        /\ client' = [client EXCEPT ![c].index = client[c].index + 1,
                                    ![c].on = @ \cup {client[c].index + 1}]
        /\ Send(Start(c, client[c].index + 1), d)
        /\ missed' \subseteq missed \cup {<<c, client[c].index + 1>>}
        /\ UNCHANGED <<player, orphans>>
    BY <1>a DEF Begin
  <2>2. net' \in Seq(M)
    BY <2>1, <1>b, <1>c
  <2>3. client' \in [Recorders -> [up : BOOLEAN, index : Nat, on : SUBSET Nat]]
    <3> DEFINE R == [up : BOOLEAN, index : Nat, on : SUBSET Nat]
               k == client[c].index + 1
               r == [client[c] EXCEPT !.index = k, !.on = @ \cup {k}]
    <3>1. client[c] \in R
      BY <1>a
    <3>2. r \in R
      <4>1. ASSUME NEW b \in R, NEW n \in Nat
            PROVE  [b EXCEPT !.index = n, !.on = @ \cup {n}] \in R
        OBVIOUS
      <4>2. k \in Nat
        BY <3>1
      <4> HIDE DEF k, R
      <4> QED BY <3>1, <4>1, <4>2
    <3>3. client' = [client EXCEPT ![c] = r]
      BY <2>1
    <3>4. client \in [Recorders -> R]
      BY <1>a
    <3> HIDE DEF R, r
    <3>5. client' \in [Recorders -> R]
      BY <3>2, <3>3, <3>4
    <3> QED BY <3>5 DEF R
  <2> QED BY <2>1, <2>2, <2>3, <1>a
<1>2. CASE \E c \in Recorders, d \in BOOLEAN, i \in 1 .. MaxIndex : Finish(c, i, d)
  <2> PICK c \in Recorders, d \in BOOLEAN, i \in 1 .. MaxIndex : Finish(c, i, d)
    BY <1>2
  <2>1. /\ client' = [client EXCEPT ![c].on = @ \ {i}]
        /\ Send(End(c, i), d)
        /\ missed' \subseteq missed /\ orphans' \subseteq orphans \cup {c}
        /\ player' = player
    BY DEF Finish
  <2>2. net' \in Seq(M)
    BY <2>1, <1>b, <1>c
  <2>3. client' \in [Recorders -> [up : BOOLEAN, index : Nat, on : SUBSET Nat]]
    BY <2>1, <1>a
  <2> QED BY <2>1, <2>2, <2>3, <1>a
<1>3. CASE \E c \in Recorders : RecorderCrash(c)
  BY <1>3, <1>a DEF RecorderCrash
<1>4. CASE \E c \in Recorders, d \in BOOLEAN : RecorderRestart(c, d)
  <2> PICK c \in Recorders, d \in BOOLEAN : RecorderRestart(c, d)
    BY <1>4
  <2>1. /\ client' = [client EXCEPT ![c].up = TRUE]
        /\ orphans' \subseteq orphans \cup {c}
        /\ UNCHANGED <<player, missed>>
        /\ Send(Clear(c), d) \/ UNCHANGED net
    BY DEF RecorderRestart
  <2>2. net' \in Seq(M)
    BY <2>1, <1>a, <1>b, <1>c
  <2> QED BY <2>1, <2>2, <1>a
<1>5. CASE \E p \in Players : Play(p) \/ SocketFails(p) \/ PlayerCrash(p)
  <2> PICK p \in Players : Play(p) \/ SocketFails(p) \/ PlayerCrash(p)
    BY <1>5
  <2>1. UNCHANGED <<client, net, orphans>> /\ missed' \subseteq missed
    BY DEF Play, SocketFails, PlayerCrash, historyVars
  <2>2. player' \in [Players -> [up : BOOLEAN, playing : BOOLEAN, sent : BOOLEAN,
                                  opening : {"no", "yes", "failed"}]]
    <3> DEFINE P == [up : BOOLEAN, playing : BOOLEAN, sent : BOOLEAN,
                     opening : {"no", "yes", "failed"}]
    <3>1. CASE Play(p)
      <4>1. PICK on \in BOOLEAN : TrafficControl(p, on)
        BY <3>1, <1>a DEF Play
      <4>2. PICK o \in {"no", "yes", "failed"} :
              player' = [player EXCEPT ![p].up = TRUE, ![p].playing = on,
                                       ![p].opening = o]
        <5>1. player[p].opening \in {"no", "yes", "failed"}
          BY <1>a
        <5> QED BY <4>1, <5>1 DEF TrafficControl
      <4> DEFINE R == [up : BOOLEAN, playing : BOOLEAN, sent : BOOLEAN,
                       opening : {"no", "yes", "failed"}]
                 r == [player[p] EXCEPT !.up = TRUE, !.playing = on, !.opening = o]
      <4>3. player \in [Players -> R] /\ player' = [player EXCEPT ![p] = r]
        BY <4>2, <1>a
      <4>4. player[p] \in R
        BY <1>a
      <4>5. r \in R
        BY <4>1, <4>4
      <4> HIDE DEF R, r
      <4>6. player' \in [Players -> R]
        BY <4>3, <4>5
      <4> QED BY <4>6 DEF R
    <3>2. CASE SocketFails(p)
      BY <3>2, <1>a DEF SocketFails
    <3>3. CASE PlayerCrash(p)
      BY <3>3, <1>a DEF PlayerCrash, NoPlayer
    <3> QED BY <3>1, <3>2, <3>3
  <2> QED BY <2>1, <2>2, <1>a
<1>6. CASE \E p \in Players, d \in BOOLEAN : SocketOpened(p, d)
  <2> PICK p \in Players, d \in BOOLEAN : SocketOpened(p, d)
    BY <1>6
  <2>1. /\ Sends(p, d)
        /\ player' = [player EXCEPT ![p].sent = player[p].playing,
                                    ![p].opening = "no"]
        /\ client' = client
    BY DEF SocketOpened
  <2>2. /\ Send(Start(p, 0), d) \/ Send(Clear(p), d)
        /\ missed' \subseteq missed \cup {<<p, 0>>}
        /\ orphans' \subseteq orphans \cup {p}
    BY <2>1 DEF Sends
  <2>3. net' \in Seq(M)
    BY <2>2, <1>b, <1>c
  <2>4. player' \in [Players -> [up : BOOLEAN, playing : BOOLEAN, sent : BOOLEAN,
                                  opening : {"no", "yes", "failed"}]]
    BY <2>1, <1>a
  <2> QED BY <2>1, <2>2, <2>3, <2>4, <1>a
<1>7. CASE \E p \in Players, d \in BOOLEAN : Quit(p, d)
  <2> PICK p \in Players, d \in BOOLEAN : Quit(p, d)
    BY <1>7
  <2>1. /\ player' = [player EXCEPT ![p] = NoPlayer]
        /\ client' = client
        /\ missed' \subseteq missed /\ orphans' \subseteq orphans \cup {p}
        /\ Send(Clear(p), d) \/ UNCHANGED net
    BY DEF Quit
  <2>2. net' \in Seq(M)
    BY <2>1, <1>a, <1>b, <1>c
  <2> QED BY <2>1, <2>2, <1>a DEF NoPlayer
<1>8. CASE ServeStart \/ ServeEnd
  <2>1. net # <<>> /\ net' = Tail(net) /\ UNCHANGED <<client, player, missed, orphans>>
    BY <1>8 DEF ServeStart, ServeEnd
  <2>2. net' \in Seq(M)
    BY <2>1, <1>a, HeadTailProperties
  <2> QED BY <2>1, <2>2, <1>a
<1>9. CASE Crash
  <2>1. UNCHANGED <<client, player, orphans>> /\ net' = <<>>
    BY <1>9 DEF Crash
  <2>2. net' \in Seq(M)
    BY <2>1, EmptySeq
  <2>3. missed' \subseteq (Recorders \cup Players) \X Nat
    BY <1>9, TransferAssumption DEF Crash
  <2> QED BY <2>1, <2>2, <2>3, <1>a
<1>10. CASE UNCHANGED clientSide
  BY <1>10, <1>a DEF clientSide, clientVars
<1> QED BY <1>1, <1>2, <1>3, <1>4, <1>5, <1>6, <1>7, <1>8, <1>9, <1>10,
           ServerLeaves DEF Clients

LEMMA AddPairsDoes ==
  ASSUME ParentTypes, NEW S \in SUBSET Sources,
         NEW cl \in [Sources -> Nat \cup {Failed}], AddPairs(S, cl)
  PROVE  /\ pair' \in [Sources -> [stale : {UpToDate, Processing, Stale},
                                   cleared : Nat \cup {Failed}]]
         /\ \A s \in Sources : pair'[s] = IF s \in S
                                          THEN [stale |-> Stale, cleared |-> cl[s]]
                                          ELSE pair[s]
         /\ S = {} => UNCHANGED <<staleFrom, kicks>>
         /\ S # {} => /\ staleFrom' \in Nat \ {0} /\ kicks' \in Nat
                      /\ kicks' = IF staleFrom = None THEN kicks + 1 ELSE kicks
<1>1. /\ pair' = [s \in Sources |->
                    IF s \in S THEN [stale |-> Stale, cleared |-> cl[s]]
                    ELSE pair[s]]
      /\ kicks' = IF S # {} /\ staleFrom = None THEN kicks + 1 ELSE kicks
      /\ staleFrom' = IF S = {} THEN staleFrom
                      ELSE Lowest({PriorityOf[s] : s \in S}
                                    \cup ({staleFrom} \ {None}))
  BY DEF AddPairs
<1>2. ASSUME S # {} PROVE staleFrom' \in Nat \ {0}
  <2> DEFINE P == {PriorityOf[s] : s \in S} \cup ({staleFrom} \ {None})
  <2>1. \A s \in S : PriorityOf[s] \in Nat \ {0}
    BY TransferAssumption
  <2>2. staleFrom \in Nat
    BY DEF ParentTypes
  <2>3. P \subseteq Nat \ {0}
    BY <2>1, <2>2 DEF None
  <2>4. P # {}
    BY <1>2
  <2> HIDE DEF P
  <2>5. Lowest(P) \in P
    BY <2>3, <2>4, LowestIs
  <2>6. staleFrom' = Lowest(P)
    BY <1>1, <1>2 DEF P
  <2> QED BY <2>3, <2>5, <2>6
<1>3. kicks \in Nat
  BY DEF ParentTypes
<1>4. pair' \in [Sources -> [stale : {UpToDate, Processing, Stale},
                             cleared : Nat \cup {Failed}]]
  BY <1>1 DEF ParentTypes
<1>5. \A s \in Sources : pair'[s] = IF s \in S
                                    THEN [stale |-> Stale, cleared |-> cl[s]]
                                    ELSE pair[s]
  BY <1>1
<1> QED BY <1>1, <1>2, <1>3, <1>4, <1>5

\* What the parent and the crash of the server do to the pairs.
LEMMA ServeEndDoes ==
  ASSUME ParentTypes, ServeEnd
  PROVE  \E S \in {{}, Sources} :
           /\ AddPairs(S, [s \in Sources |-> Later({pair[s].cleared})])
           /\ IF S = {} THEN UNCHANGED fileVars ELSE Save
  BY DEF ServeEnd, Dirs

LEMMA LaterTypes ==
  ASSUME ParentTypes
  PROVE  [s \in Sources |-> Later({pair[s].cleared})] \in [Sources -> Nat]
<1>1. ASSUME NEW s \in Sources PROVE Later({pair[s].cleared}) \in Nat
  <2>1. pair[s].cleared \in Int
    BY DEF ParentTypes, Failed
  <2> QED BY <2>1, LaterOne
<1> QED BY <1>1

LEMMA ParentTypesStep ==
  ASSUME ParentTypes, ChildTypes, ScanTypes, [TransferNext]_vars
  PROVE  ParentTypes'
<1> USE DEF ParentTypes
<1>1. CASE Clients \/ UNCHANGED vars
  BY <1>1, ClientsLeave DEF serverSide, parentVars, shareVars, fileVars
<1>2. CASE Discs
  BY <1>2 DEF Discs, Tick, Arrive, Collect, parentVars, shareVars, fileVars
<1>3. CASE Crash
  BY <1>3 DEF Crash, None, NoPair, UpToDate, Failed
<1>4. CASE Restart
  <2>1. saved \in [Sources -> Nat \cup {Failed}]
    BY DEF NotSaved
  <2>2. PICK S \in SUBSET Sources : AddPairs(S, saved)
    BY <1>4 DEF Restart
  <2>3. up' \in BOOLEAN /\ UNCHANGED fileVars
    BY <1>4 DEF Restart
  <2> QED BY <2>1, <2>2, <2>3, AddPairsDoes DEF fileVars
<1>5. CASE ServeStart
  BY <1>5 DEF ServeStart, fileVars
<1>6. CASE ServeEnd
  <2>1. PICK S \in {{}, Sources} :
           /\ AddPairs(S, [s \in Sources |-> Later({pair[s].cleared})])
           /\ IF S = {} THEN UNCHANGED fileVars ELSE Save
    BY <1>6, ServeEndDoes
  <2>2. /\ pair' \in [Sources -> [stale : {UpToDate, Processing, Stale},
                                  cleared : Nat \cup {Failed}]]
        /\ staleFrom' \in Nat /\ kicks' \in Nat
    BY <2>1, LaterTypes, AddPairsDoes
  <2>3. saving' \in BOOLEAN /\ saved' \in [Sources -> Nat \cup {NotSaved}]
    BY <2>1 DEF Save, fileVars
  <2>4. up' \in BOOLEAN
    BY <1>6 DEF ServeEnd
  <2> QED BY <2>2, <2>3, <2>4
<1>7. CASE FinishSave
  BY <1>7 DEF FinishSave, parentVars, shareVars, NotSaved, Failed
<1>8. CASE Kicked \/ Retries
  <2>1. kicks' \in Nat /\ UNCHANGED <<up, fileVars>> /\ Wake
    BY <1>8 DEF Kicked, Retries, Wake, parentVars
  <2>2. staleFrom' = None
        /\ pair' \in [Sources -> [stale : {UpToDate, Processing, Stale},
                                  cleared : Nat \cup {Failed}]]
    BY <2>1 DEF Wake
  <2> QED BY <2>1, <2>2 DEF None, fileVars
<1>9. CASE TimesOut \/ NextPriority \/ AllScanned
  BY <1>9 DEF TimesOut, NextPriority, AllScanned, parentVars, shareVars, fileVars
<1>10. CASE \E s \in Sources : ScanBegins(s)
  BY <1>10 DEF ScanBegins, parentVars, shareVars, fileVars
<1>11. CASE \E s \in Sources : PairScanned(s)
  <2> PICK s \in Sources : PairScanned(s)
    BY <1>11
  <2>1. UNCHANGED <<up, staleFrom, kicks>> /\ (Save \/ UNCHANGED fileVars)
    BY DEF PairScanned, parentVars
  <2>2. pair' = pair \/ pair' = [pair EXCEPT ![s].cleared = scan.last,
                                            ![s].stale = Settled(@)]
    BY DEF PairScanned
  <2>3. scan.last \in Nat
    BY DEF ScanTypes
  <2>4. pair' \in [Sources -> [stale : {UpToDate, Processing, Stale},
                              cleared : Nat \cup {Failed}]]
    BY <2>2, <2>3 DEF Settled
  <2> QED BY <2>1, <2>4 DEF Save, fileVars
<1>12. CASE \E d \in SUBSET Files : ScanReads(d) \/ ScanFails(d)
  BY <1>12 DEF ScanReads, ScanFails, parentVars, shareVars, fileVars
<1>13. CASE StopsCopying \/ NotePid \/ FirstOutput \/ OutputEnds
  BY <1>13 DEF StopsCopying, NotePid, FirstOutput, OutputEnds, parentVars,
               shareVars, fileVars
<1>14. CASE \E f \in Files, r \in BOOLEAN : Pick(f, r)
  <2> PICK f \in Files, r \in BOOLEAN : Pick(f, r)
    BY <1>14
  <2>1. UNCHANGED <<up, staleFrom, kicks>> /\ (Save \/ UNCHANGED fileVars)
    BY DEF Pick, parentVars
  <2>2. pair' = pair \/ pair' = [pair EXCEPT ![SourceOf[f]].cleared
                                              = work[SourceOf[f]].copied]
    BY DEF Pick
  <2>3. SourceOf[f] \in Sources /\ work[SourceOf[f]].copied \in Nat \cup {Failed}
    BY TransferAssumption DEF ChildTypes
  <2>4. pair' \in [Sources -> [stale : {UpToDate, Processing, Stale},
                              cleared : Nat \cup {Failed}]]
    BY <2>2, <2>3
  <2> QED BY <2>1, <2>4 DEF Save, fileVars
<1>15. CASE \E f \in Files : Moves(f) \/ CopyFails(f)
  BY <1>15 DEF Moves, CopyFails, parentVars, shareVars, fileVars
<1>16. CASE \E f \in Files : Copied(f)
  <2> PICK f \in Files : Copied(f)
    BY <1>16
  <2>1. UNCHANGED <<up, staleFrom, kicks>> /\ (Save \/ UNCHANGED fileVars)
    BY DEF Copied, parentVars
  <2>2. pair' = pair \/ pair' = [pair EXCEPT
                                  ![SourceOf[f]].cleared = work[SourceOf[f]].latest,
                                  ![SourceOf[f]].stale = Settled(@)]
    BY DEF Copied
  <2>3. SourceOf[f] \in Sources /\ work[SourceOf[f]].latest \in Nat
    BY TransferAssumption DEF ChildTypes
  <2>4. pair' \in [Sources -> [stale : {UpToDate, Processing, Stale},
                              cleared : Nat \cup {Failed}]]
    BY <2>2, <2>3 DEF Settled
  <2> QED BY <2>1, <2>4 DEF Save, fileVars
<1>17. CASE ComesAlive \/ Updates \/ Exits(TRUE) \/ Exits(FALSE)
  BY <1>17 DEF ComesAlive, Updates, Exits, cpfsUnchanged, parentVars, shareVars,
               fileVars
<1> QED BY <1>1, <1>2, <1>3, <1>4, <1>5, <1>6, <1>7, <1>8, <1>9, <1>10, <1>11,
           <1>12, <1>13, <1>14, <1>15, <1>16, <1>17, NextIs

LEMMA EventTypesStep ==
  ClientTypes /\ EventTypes /\ [TransferNext]_vars => EventTypes'
<1> SUFFICES ASSUME ClientTypes, EventTypes, [TransferNext]_vars PROVE EventTypes'
  OBVIOUS
<1> USE DEF EventTypes
<1>1. CASE ServeStart
  <2>1. Head(net) \in [kind : {"start", "end", "clear"},
                       client : Recorders \cup Players, index : Nat]
    BY <1>1, HeadTailProperties DEF ServeStart, ClientTypes
  <2> QED BY <1>1, <2>1 DEF ServeStart
<1>2. CASE ServeEnd
  BY <1>2 DEF ServeEnd
<1>3. CASE Clients \/ UNCHANGED vars
  BY <1>3, ClientsLeave DEF serverSide, parentVars
<1>4. CASE Discs \/ Crash \/ Restart \/ FinishSave
  BY <1>4 DEF Discs, Tick, Arrive, Collect, Crash, Restart, FinishSave, parentVars
<1>5. CASE Kicked \/ TimesOut \/ Retries \/ NextPriority \/ AllScanned
  BY <1>5 DEF Kicked, TimesOut, Retries, NextPriority, AllScanned, Wake, parentVars
<1>6. CASE \/ \E s \in Sources : ScanBegins(s) \/ PairScanned(s)
           \/ \E d \in SUBSET Files : ScanReads(d) \/ ScanFails(d)
  BY <1>6 DEF ScanBegins, PairScanned, ScanReads, ScanFails, parentVars
<1>7. CASE StopsCopying \/ NotePid \/ FirstOutput \/ OutputEnds
  BY <1>7 DEF StopsCopying, NotePid, FirstOutput, OutputEnds, parentVars
<1>8. CASE \E f \in Files : \/ Pick(f, TRUE) \/ Pick(f, FALSE)
                            \/ Moves(f) \/ Copied(f) \/ CopyFails(f)
  BY <1>8 DEF Pick, Moves, Copied, CopyFails, parentVars
<1>9. CASE ComesAlive \/ Updates \/ Exits(TRUE) \/ Exits(FALSE)
  BY <1>9 DEF ComesAlive, Updates, Exits, cpfsUnchanged, parentVars
<1> QED BY <1>1, <1>2, <1>3, <1>4, <1>5, <1>6, <1>7, <1>8, <1>9, NextIs

\* What leaves the child, its scan and its list alone.
LEMMA OthersLeaveChild ==
  ASSUME \/ Clients \/ UNCHANGED vars \/ Discs \/ Restart \/ ServeStart \/ ServeEnd
         \/ FinishSave \/ ComesAlive \/ Updates \/ Exited
  PROVE  UNCHANGED childVars
<1>1. Clients \/ UNCHANGED vars => UNCHANGED childVars
  BY ClientsLeave DEF serverSide
<1>2. Discs \/ Restart \/ ServeStart \/ ServeEnd \/ FinishSave => UNCHANGED childVars
  BY DEF Discs, Tick, Arrive, Collect, Restart, ServeStart, ServeEnd, FinishSave
<1>3. ComesAlive \/ Updates \/ Exited => UNCHANGED childVars
  BY DEF ComesAlive, Updates, Exited, Exits, cpfsUnchanged
<1> QED BY <1>1, <1>2, <1>3

\* The work on a file that is being copied is counted.
LEMMA CopiedCounts ==
  ASSUME ChildTypes, Places, Counted, Copying, NEW f \in Files, cp.file = {f}
  PROVE  /\ f \in list /\ SourceOf[f] \in Sources
         /\ work[SourceOf[f]].copied # Failed
         /\ work[SourceOf[f]].n = Cardinality(Of(SourceOf[f], list))
         /\ work[SourceOf[f]].n \in Nat \ {0}
         /\ Cardinality(Of(SourceOf[f], list \ {f})) = work[SourceOf[f]].n - 1
<1>1. f \in list /\ work[SourceOf[f]].copied # Failed
  BY DEF Places, CopyPlaces
<1>2. SourceOf[f] \in Sources /\ Active
  BY TransferAssumption DEF Copying, Active
<1>3. work[SourceOf[f]].n = Cardinality(Of(SourceOf[f], list))
  BY <1>1, <1>2 DEF Counted
<1>4. IsFiniteSet(Of(SourceOf[f], list)) /\ f \in Of(SourceOf[f], list)
  <2>1. Of(SourceOf[f], list) \subseteq Files
    BY DEF Of, ChildTypes
  <2> QED BY <1>1, <2>1, FS_Subset, TransferAssumption DEF Of
<1>5. /\ Cardinality(Of(SourceOf[f], list)) \in Nat
      /\ Cardinality(Of(SourceOf[f], list)) # 0
  BY <1>4, FS_CardinalityType, FS_EmptySet
<1>6. Of(SourceOf[f], list \ {f}) = Of(SourceOf[f], list) \ {f}
  BY DEF Of
<1>7. Cardinality(Of(SourceOf[f], list \ {f})) = Cardinality(Of(SourceOf[f], list)) - 1
  BY <1>4, <1>6, FS_RemoveElement
<1> QED BY <1>1, <1>2, <1>3, <1>5, <1>7

LEMMA NewWorkType ==
  ScanTypes => NewWork \in [copied : Nat \cup {Failed}, n : Nat, latest : Nat]
<1> SUFFICES ASSUME ScanTypes
             PROVE  NewWork \in [copied : Nat \cup {Failed}, n : Nat, latest : Nat]
  OBVIOUS
<1>1. IsFiniteSet(scan.found)
  BY FS_Subset, TransferAssumption DEF ScanTypes
<1>2. Cardinality(scan.found) \in Nat
  BY <1>1, FS_CardinalityType
<1> QED BY <1>2 DEF NewWork, NoWork, ScanTypes, None

LEMMA ChildTypesStep ==
  ASSUME ParentTypes, ChildTypes, ScanTypes, CopierTypes, DiscTypes,
         Places, Counted, [TransferNext]_vars
  PROVE  ChildTypes'
<1> DEFINE C == [pc : {"wait", "timedout", "pri", "scan", "pick", "note",
                       "read", "check", "moved"},
                 retry : BOOLEAN, todo : SUBSET Nat, pri : Nat,
                 scans : SUBSET Sources, heard : BOOLEAN, limit : BOOLEAN]
           W == [copied : Nat \cup {Failed}, n : Nat, latest : Nat]
<1>a. child \in C /\ work \in [Sources -> W] /\ list \subseteq Files
  BY DEF ChildTypes
<1>b. IdleChild \in C /\ NoWork \in W
  BY DEF IdleChild, NoWork, None
<1>c. \A s \in Sources : PriorityOf[s] \in Nat
  BY TransferAssumption
<1> SUFFICES child' \in C /\ work' \in [Sources -> W] /\ list' \subseteq Files
  BY DEF ChildTypes
<1>1. CASE UNCHANGED childVars
  BY <1>1, <1>a DEF childVars
<1>2. CASE Crash
  BY <1>2, <1>b DEF Crash
<1>3. CASE Kicked \/ Retries
  <2>1. child' = [IdleChild EXCEPT !.pc = "pri",
                                   !.todo = {PriorityOf[s] : s \in Paired}]
        /\ UNCHANGED <<work, list>>
    BY <1>3 DEF Kicked, Retries, Wake
  <2>2. {PriorityOf[s] : s \in Paired} \in SUBSET Nat
    BY <1>c DEF Paired
  <2> HIDE DEF W
  <2> QED BY <2>1, <2>2, <1>a DEF IdleChild, None
<1>4. CASE NextPriority
  <2>1. work' = [s \in Sources |-> NoWork] /\ list' = list
    BY <1>4 DEF NextPriority
  <2>2. CASE child.todo = {}
    <3>1. child' = [child EXCEPT !.pc = "wait"]
      BY <1>4, <2>2 DEF NextPriority
    <3>2. child' \in C
      BY <3>1, <1>a
    <3> HIDE DEF W, C
    <3> QED BY <2>1, <3>2, <1>a, <1>b
  <2>3. CASE child.todo # {}
    <3>1. PICK S \in SUBSET Sources : child' =
            [child EXCEPT !.pc = "scan", !.pri = Lowest(child.todo),
                          !.todo = @ \ {Lowest(child.todo)}, !.scans = S]
      BY <1>4, <2>3 DEF NextPriority, Paired
    <3>2. Lowest(child.todo) \in Nat
      <4>1. child.todo \subseteq Nat
        BY <1>a
      <4> QED BY <4>1, <2>3, LowestIs
    <3>3. child' \in C
      BY <3>1, <3>2, <1>a
    <3> HIDE DEF W, C
    <3> QED BY <2>1, <3>3, <1>a, <1>b
  <2> QED BY <2>2, <2>3
<1>5. CASE TimesOut \/ AllScanned \/ FirstOutput \/ OutputEnds
  BY <1>5, <1>a DEF TimesOut, AllScanned, FirstOutput, OutputEnds, childVars
<1>6. CASE NotePid
  BY <1>6, <1>a DEF NotePid, CopierTypes
<1>7. CASE Begun \/ Read \/ ReadFailed
  BY Zenon, <1>7, <1>a DEF Begun, Read, ReadFailed, ScanBegins, ScanReads, ScanFails
<1>8. CASE Scanned
  <2> PICK s \in Sources : PairScanned(s)
    BY <1>8 DEF Scanned
  <2>1. /\ work' = [work EXCEPT ![s] = NewWork] /\ list' = list \cup scan.found
        /\ child' = [child EXCEPT !.retry = @ \/ ~scan.ok, !.scans = @ \ {s}]
    BY DEF PairScanned
  <2>2. NewWork \in W /\ scan.found \subseteq Files /\ scan.ok \in BOOLEAN
    BY NewWorkType DEF ScanTypes
  <2>3. child' \in C
    BY <2>1, <2>2, <1>a
  <2> HIDE DEF C, W
  <2> QED BY <2>1, <2>2, <2>3, <1>a
<1>9. CASE StopsCopying
  BY <1>9, <1>a DEF StopsCopying
<1>10. CASE Picked
  <2> PICK f \in Files, r \in BOOLEAN : Pick(f, r)
    BY <1>10 DEF Picked
  <2>1. SourceOf[f] \in Sources
    BY TransferAssumption
  <2>2. list' = list \ {f} \/ list' = list
    BY DEF Pick, GivesUp
  <2>3. \/ UNCHANGED <<child, work>>
        \/ child' = [child EXCEPT !.pc = "note"] /\ UNCHANGED work
        \/ /\ work' = [work EXCEPT ![SourceOf[f]].copied = Failed]
           /\ child' = [child EXCEPT !.pc = "pick", !.retry = TRUE]
    BY DEF Pick, GivesUp
  <2>4. child' \in C
    BY <2>3, <1>a
  <2>5. work' \in [Sources -> W]
    BY <2>1, <2>3, <1>a
  <2> QED BY <2>2, <2>4, <2>5, <1>a
<1>11. CASE Moved \/ GaveUp
  <2> PICK f \in Files : Moves(f) \/ CopyFails(f)
    BY <1>11 DEF Moved, GaveUp
  <2>1. SourceOf[f] \in Sources
    BY TransferAssumption
  <2>2. \/ child' = [child EXCEPT !.pc = "moved"] /\ UNCHANGED <<work, list>>
        \/ /\ work' = [work EXCEPT ![SourceOf[f]].copied = Failed]
           /\ child' = [child EXCEPT !.pc = "pick", !.retry = TRUE]
           /\ list' = list \ {f}
    BY DEF Moves, CopyFails, GivesUp
  <2>3. child' \in C
    BY <2>2, <1>a
  <2>4. work' \in [Sources -> W]
    BY <2>1, <2>2, <1>a
  <2> QED BY <2>2, <2>3, <2>4, <1>a
<1>12. CASE Finished
  <2> PICK f \in Files : Copied(f)
    BY <1>12 DEF Finished
  <2> DEFINE s == SourceOf[f]
  <2>1. /\ s \in Sources /\ work[s].n - 1 \in Nat
    <3>1. Copying /\ cp.file = {f}
      BY DEF Copied, Copying
    <3>2. work[s].n \in Nat \ {0} /\ s \in Sources
      BY <3>1, CopiedCounts
    <3> QED BY <3>2
  <2>2. /\ work' = [work EXCEPT ![s].copied = ctime[f], ![s].n = work[s].n - 1]
        /\ child' = [child EXCEPT !.pc = "pick"] /\ list' = list \ {f}
    BY DEF Copied
  <2>3. child' \in C
    BY <2>2, <1>a
  <2>4. ctime[f] \in Nat
    BY DEF DiscTypes
  <2>5. work' \in [Sources -> W]
    BY <2>1, <2>2, <2>4, <1>a
  <2> QED BY <2>2, <2>3, <2>5, <1>a
<1> HIDE DEF C, W
<1> QED BY <1>1, <1>2, <1>3, <1>4, <1>5, <1>6, <1>7, <1>8, <1>9, <1>10, <1>11,
           <1>12, StepIs, OthersLeaveChild

\* What leaves the scan alone.
LEMMA OthersLeaveScan ==
  ASSUME \/ Clients \/ UNCHANGED vars \/ Discs \/ Restart \/ ServeStart \/ ServeEnd
         \/ FinishSave \/ ComesAlive \/ Updates \/ Exited
         \/ Kicked \/ TimesOut \/ Retries \/ NextPriority \/ AllScanned
         \/ StopsCopying \/ NotePid \/ FirstOutput \/ OutputEnds
         \/ Picked \/ Moved \/ Finished \/ GaveUp
  PROVE  UNCHANGED scan
<1>1. Kicked \/ TimesOut \/ Retries \/ NextPriority \/ AllScanned => UNCHANGED scan
  BY DEF Kicked, TimesOut, Retries, NextPriority, AllScanned, Wake
<1>2. StopsCopying \/ NotePid \/ FirstOutput \/ OutputEnds => UNCHANGED scan
  BY Zenon DEF StopsCopying, NotePid, FirstOutput, OutputEnds, childVars
<1>3. Picked \/ Moved \/ Finished \/ GaveUp => UNCHANGED scan
  BY Zenon DEF Picked, Moved, Finished, GaveUp, Pick, Moves, Copied, CopyFails, childVars
<1>4. UNCHANGED childVars => UNCHANGED scan
  BY DEF childVars
<1> QED BY <1>1, <1>2, <1>3, <1>4, OthersLeaveChild

\* What ScanReads makes of a directory.
ScanLast == Later({ctime[f] : f \in InDir})
LEMMA ScanReadsDoes ==
  ASSUME ScanTypes, DiscTypes, NEW d \in SUBSET Files, ScanReads(d)
  PROVE  /\ ScanLast \in Nat /\ \A f \in InDir : ctime[f] <= ScanLast
         /\ ScanLast = None \/ \E f \in InDir : ctime[f] = ScanLast
         /\ scan'.src = scan.src /\ scan'.time = None /\ scan'.ok = scan.ok
         /\ \/ /\ Again(ScanLast) /\ scan'.prev = ScanLast /\ scan'.dir = scan.dir
               /\ scan'.last = scan.last /\ scan'.latest = scan.latest
               /\ scan'.found = scan.found
            \/ /\ ~Again(ScanLast) /\ scan'.prev = None /\ scan'.dir = NextDir
               /\ scan'.last = ScanLast
               /\ scan'.latest = (IF scan.latest >= ScanLast
                                  THEN scan.latest ELSE ScanLast)
               /\ scan'.found = scan.found \cup {f \in InDir : ~HasCopy(f)}
         /\ scan' \in [src : SUBSET Sources, dir : {"main", "xml", "done"},
                       time : Nat, prev : Nat, ok : BOOLEAN, last : Nat,
                       latest : Nat, found : SUBSET Files]
<1>1. InDir \subseteq Files /\ ctime \in [Files -> Nat]
  BY DEF InDir, DiscTypes
<1>2. /\ ScanLast \in Nat /\ \A f \in InDir : ctime[f] <= ScanLast
      /\ ScanLast = None \/ \E f \in InDir : ctime[f] = ScanLast
  BY <1>1, LaterOfFiles DEF ScanLast
<1>3. Later({scan.latest, ScanLast}) = IF scan.latest >= ScanLast
                                       THEN scan.latest ELSE ScanLast
  BY <1>2, LaterTwo DEF ScanTypes
<1>4. scan' = IF Again(ScanLast)
              THEN [scan EXCEPT !.time = None, !.prev = ScanLast]
              ELSE [scan EXCEPT
                      !.time = None, !.prev = None, !.dir = NextDir,
                      !.last = ScanLast,
                      !.latest = Later({scan.latest, ScanLast}),
                      !.found = @ \cup {f \in InDir : ~HasCopy(f)}]
  BY DEF ScanReads, ScanLast, ScanTypes
<1>5. NextDir \in {"xml", "done"} /\ None \in Nat
  BY DEF NextDir, None
<1>6. CASE Again(ScanLast)
  BY <1>2, <1>4, <1>5, <1>6 DEF ScanTypes
<1>7. CASE ~Again(ScanLast)
  <2> DEFINE L == Later({scan.latest, ScanLast})
             F == {f \in InDir : ~HasCopy(f)}
  <2>1. L \in Nat /\ F \subseteq Files
    BY <1>1, <1>2, <1>3 DEF ScanTypes
  <2>2. scan' = [scan EXCEPT !.time = None, !.prev = None, !.dir = NextDir,
                             !.last = ScanLast, !.latest = L, !.found = @ \cup F]
    BY <1>4, <1>7
  <2> HIDE DEF L, F
  <2>3. /\ scan'.src = scan.src /\ scan'.time = None /\ scan'.ok = scan.ok
        /\ scan'.prev = None /\ scan'.dir = NextDir /\ scan'.last = ScanLast
        /\ scan'.latest = L /\ scan'.found = scan.found \cup F
        /\ scan' \in [src : SUBSET Sources, dir : {"main", "xml", "done"},
                      time : Nat, prev : Nat, ok : BOOLEAN, last : Nat,
                      latest : Nat, found : SUBSET Files]
    BY <1>2, <1>5, <2>1, <2>2 DEF ScanTypes
  <2> QED BY <1>2, <1>3, <1>7, <2>3 DEF L, F
<1> QED BY <1>6, <1>7

LEMMA ScanTypesStep ==
  ASSUME ScanTypes, DiscTypes, [TransferNext]_vars
  PROVE  ScanTypes'
<1>0. NoScan \in [src : SUBSET Sources, dir : {"main", "xml", "done"},
                  time : Nat, prev : Nat, ok : BOOLEAN, last : Nat,
                  latest : Nat, found : SUBSET Files]
  BY DEF NoScan, None
<1>1. CASE UNCHANGED scan
  BY <1>1 DEF ScanTypes
<1>2. CASE Crash
  BY <1>0, <1>2 DEF Crash, ScanTypes
<1>3. CASE Scanned
  BY <1>0, <1>3 DEF Scanned, PairScanned, ScanTypes
<1>4. CASE Begun
  <2>1. PICK s \in Sources : scan' = [scan EXCEPT !.src = {s}, !.time = now]
    BY <1>4 DEF Begun, ScanBegins
  <2>2. now \in Nat /\ {s} \in SUBSET Sources
    BY DEF DiscTypes
  <2> QED BY <2>1, <2>2 DEF ScanTypes
<1>5. CASE Read
  BY <1>5, ScanReadsDoes DEF ScanTypes, Read
<1>6. CASE ReadFailed
  <2>1. scan' = [scan EXCEPT !.time = None, !.dir = "done", !.ok = FALSE]
    BY <1>6 DEF ReadFailed, ScanFails
  <2> QED BY <2>1 DEF ScanTypes, None
<1> QED BY <1>1, <1>2, <1>3, <1>4, <1>5, <1>6, StepIs, OthersLeaveScan

LEMMA SignalledDoes ==
  ASSUME CopierTypes, NEW m \in {"slow", "fast"}
  PROVE  /\ Signalled(m).st = cp.st /\ Signalled(m).file = cp.file
         /\ Signalled(m).slow = cp.slow /\ Signalled(m).ok = cp.ok
         /\ Signalled(m).sig = (IF cp.st = "running" THEN m ELSE cp.sig)
         /\ Signalled(m) \in [st : {"none", "forked", "running", "done"},
                              file : SUBSET Files, slow : BOOLEAN,
                              sig : {"none", "slow", "fast"}, ok : BOOLEAN]
<1>1. CASE cp.st = "running"
  BY <1>1 DEF Signalled, CopierTypes
<1>2. CASE cp.st # "running"
  BY <1>2 DEF Signalled, CopierTypes
<1> QED BY <1>1, <1>2

\* What the switching of the limit does.
LEMMA SetLimitDoes ==
  ASSUME CopierTypes, ChildTypes, NEW on \in BOOLEAN, SetLimit(on)
  PROVE  /\ limit' = on
         /\ \/ limit # on /\ pid /\ cp' = Signalled(IF on THEN "slow" ELSE "fast")
               /\ raced' = ~child.heard
            \/ ~(limit # on /\ pid) /\ UNCHANGED <<cp, raced>>
         /\ raced' \in BOOLEAN
         /\ cp' \in [st : {"none", "forked", "running", "done"},
                     file : SUBSET Files, slow : BOOLEAN,
                     sig : {"none", "slow", "fast"}, ok : BOOLEAN]
<1>1. /\ limit' = on
      /\ \/ limit # on /\ pid /\ cp' = Signalled(IF on THEN "slow" ELSE "fast")
            /\ raced' = ~child.heard
         \/ ~(limit # on /\ pid) /\ UNCHANGED <<cp, raced>>
  BY DEF SetLimit
<1>2. (IF on THEN "slow" ELSE "fast") \in {"slow", "fast"}
  OBVIOUS
<1>3. raced' \in BOOLEAN
  BY <1>1 DEF CopierTypes, ChildTypes
<1>4. cp' \in [st : {"none", "forked", "running", "done"},
               file : SUBSET Files, slow : BOOLEAN,
               sig : {"none", "slow", "fast"}, ok : BOOLEAN]
  BY <1>1, <1>2, SignalledDoes DEF CopierTypes
<1> QED BY <1>1, <1>3, <1>4

LEMMA ServesLimit ==
  ServeStart \/ ServeEnd => \E on \in BOOLEAN : SetLimit(on)
<1>1. ServeStart => SetLimit(TRUE)
  BY DEF ServeStart
<1>2. ServeEnd => SetLimit(limit /\ events' # {})
  BY DEF ServeEnd
<1> QED BY <1>1, <1>2

\* What leaves cpfs, its pid and the limit alone.
LEMMA OthersLeaveCopier ==
  ASSUME \/ Clients \/ UNCHANGED vars \/ Discs \/ Restart \/ FinishSave
         \/ Kicked \/ TimesOut \/ Retries \/ NextPriority \/ AllScanned
         \/ Begun \/ Scanned \/ Read \/ ReadFailed \/ StopsCopying \/ Moved
  PROVE  UNCHANGED <<limit, pid, raced, cp>>
<1>1. Clients \/ UNCHANGED vars => UNCHANGED <<limit, pid, raced, cp>>
  BY ClientsLeave DEF serverSide, shareVars
<1>2. Discs \/ Restart \/ FinishSave => UNCHANGED <<limit, pid, raced, cp>>
  BY DEF Discs, Tick, Arrive, Collect, Restart, FinishSave, shareVars, historyVars
<1>3. Kicked \/ TimesOut \/ Retries \/ NextPriority \/ AllScanned
        => UNCHANGED <<limit, pid, raced, cp>>
  BY Zenon DEF Kicked, TimesOut, Retries, NextPriority, AllScanned, Wake, shareVars,
         historyVars
<1>4. Begun \/ Scanned => UNCHANGED <<limit, pid, raced, cp>>
  <2>1. Begun => UNCHANGED <<limit, pid, raced, cp>>
    BY Zenon DEF Begun, ScanBegins, shareVars, historyVars
  <2>2. Scanned => UNCHANGED <<limit, pid, raced, cp>>
    BY Zenon DEF Scanned, PairScanned
  <2> QED BY <2>1, <2>2
<1>5. Read \/ ReadFailed => UNCHANGED <<limit, pid, raced, cp>>
  BY Zenon DEF Read, ReadFailed, ScanReads, ScanFails, shareVars, historyVars
<1>6. StopsCopying \/ Moved => UNCHANGED <<limit, pid, raced, cp>>
  BY DEF StopsCopying, Moved, Moves, shareVars, historyVars
<1> QED BY <1>1, <1>2, <1>3, <1>4, <1>5, <1>6

LEMMA CopierTypesStep ==
  ASSUME CopierTypes, ChildTypes, [TransferNext]_vars
  PROVE  CopierTypes'
<1>0. /\ NoCopy \in [st : {"none", "forked", "running", "done"},
                     file : SUBSET Files, slow : BOOLEAN,
                     sig : {"none", "slow", "fast"}, ok : BOOLEAN]
      /\ \A f \in Files : [NoCopy EXCEPT !.st = "forked", !.file = {f}]
           \in [st : {"none", "forked", "running", "done"},
                file : SUBSET Files, slow : BOOLEAN,
                sig : {"none", "slow", "fast"}, ok : BOOLEAN]
  BY DEF NoCopy
<1>1. CASE UNCHANGED <<limit, pid, raced, cp>>
  BY <1>1 DEF CopierTypes
<1>2. CASE Crash
  BY <1>0, <1>2 DEF Crash, CopierTypes
<1>3. CASE ServeStart \/ ServeEnd
  <2>1. UNCHANGED pid
    BY <1>3 DEF ServeStart, ServeEnd
  <2>2. PICK on \in BOOLEAN : SetLimit(on)
    BY <1>3, ServesLimit
  <2> QED BY <2>1, <2>2, SetLimitDoes DEF CopierTypes
<1>4. CASE NotePid \/ OutputEnds
  BY <1>4 DEF NotePid, OutputEnds, CopierTypes, historyVars
<1>5. CASE FirstOutput
  <2>1. /\ UNCHANGED <<limit, pid, raced>>
        /\ cp' = cp \/ cp' = Signalled("fast")
    BY <1>5 DEF FirstOutput, shareVars, historyVars
  <2> QED BY <2>1, SignalledDoes DEF CopierTypes
<1>6. CASE Picked \/ Finished \/ GaveUp
  <2> PICK f \in Files, r \in BOOLEAN : Pick(f, r) \/ Copied(f) \/ CopyFails(f)
    BY <1>6 DEF Picked, Finished, GaveUp
  <2>1. /\ UNCHANGED <<limit, pid, raced>>
        /\ \/ cp' = cp \/ cp' = NoCopy
           \/ cp' = [NoCopy EXCEPT !.st = "forked", !.file = {f}]
    BY DEF Pick, Copied, CopyFails, shareVars, historyVars
  <2> QED BY <1>0, <2>1 DEF CopierTypes
<1>7. CASE ComesAlive \/ Updates \/ Exited
  <2>1. UNCHANGED <<limit, pid, raced>>
    BY <1>7 DEF ComesAlive, Updates, Exited, Exits, cpfsUnchanged, shareVars, historyVars
  <2>2. cp' \in [st : {"none", "forked", "running", "done"},
                 file : SUBSET Files, slow : BOOLEAN,
                 sig : {"none", "slow", "fast"}, ok : BOOLEAN]
    <3>1. CASE ComesAlive
      BY <3>1 DEF ComesAlive, CopierTypes
    <3>2. CASE Updates
      <4>1. CopiesSlowly \in BOOLEAN
        BY DEF CopiesSlowly, CopierTypes
      <4> QED BY <3>2, <4>1 DEF Updates, CopierTypes
    <3>3. CASE Exited
      BY <3>3 DEF Exited, Exits, CopierTypes
    <3> QED BY <1>7, <3>1, <3>2, <3>3
  <2> QED BY <2>1, <2>2 DEF CopierTypes
<1> QED BY <1>1, <1>2, <1>3, <1>4, <1>5, <1>6, <1>7, StepIs, OthersLeaveCopier

\* What the step makes of the history of what was cleared.
LEMMA KnownIs ==
  ASSUME DiscTypes, ParentTypes', NEW s \in Sources
  PROVE  Known[s] = IF known[s] >= pair'[s].cleared THEN known[s]
                    ELSE pair'[s].cleared
<1>1. known[s] \in Nat /\ pair'[s].cleared \in Int
  BY DEF DiscTypes, ParentTypes, Failed
<1> QED BY <1>1, LaterTwo DEF Known

LEMMA KnownType ==
  ASSUME DiscTypes, ParentTypes' PROVE Known \in [Sources -> Nat]
<1>1. ASSUME NEW s \in Sources PROVE Known[s] \in Nat
  <2>1. known[s] \in Nat /\ pair'[s].cleared \in Nat \cup {-1}
    BY DEF DiscTypes, ParentTypes, Failed
  <2> QED BY <2>1, KnownIs
<1> QED BY <1>1 DEF Known

LEMMA FaultType ==
  DiscTypes /\ Fault => faults' \in Nat
  BY DEF DiscTypes, Fault

LEMMA DiscTypesStep ==
  ASSUME ClientTypes, DiscTypes, ParentTypes', [TransferNext]_vars
  PROVE  DiscTypes'
<1>a. /\ now \in Nat /\ faults \in Nat
      /\ ctime \in [Files -> Nat] /\ disk \subseteq Files /\ dest \subseteq Files
      /\ copied \subseteq Files /\ torn \subseteq Files
      /\ known \in [Sources -> Nat]
  BY DEF DiscTypes
<1>b. Known \in [Sources -> Nat] /\ (Fault => faults' \in Nat)
  BY KnownType, FaultType
<1>c. None \in Nat
  BY DEF None
<1> SUFFICES /\ now' \in Nat /\ faults' \in Nat
             /\ ctime' \in [Files -> Nat] /\ disk' \subseteq Files
             /\ dest' \subseteq Files
             /\ copied' \subseteq Files /\ torn' \subseteq Files
             /\ known' \in [Sources -> Nat]
  BY DEF DiscTypes
<1>1. CASE Clients
  <2>1. UNCHANGED <<now, diskVars, copied, torn, known>>
    BY <1>1, ClientsLeave DEF serverSide
  <2>2. \A m, d : Send(m, d) => faults' \in Nat
    BY <1>a, <1>b DEF Send
  <2>3. ASSUME NEW c \in Recorders, NEW d \in BOOLEAN,
               \/ Begin(c, d) \/ RecorderRestart(c, d) \/ RecorderCrash(c)
               \/ \E i \in 1 .. MaxIndex : Finish(c, i, d)
        PROVE  faults' \in Nat
    BY <2>2, <2>3, <1>a, <1>b DEF Begin, RecorderRestart, RecorderCrash, Finish
  <2>4. ASSUME NEW p \in Players, NEW d \in BOOLEAN,
               \/ SocketOpened(p, d) \/ Quit(p, d)
               \/ Play(p) \/ SocketFails(p) \/ PlayerCrash(p)
        PROVE  faults' \in Nat
    BY <2>2, <2>4, <1>a, <1>b DEF SocketOpened, Sends, Quit, Play, SocketFails,
                                  PlayerCrash
  <2>5. faults' \in Nat
    BY <1>1, <2>3, <2>4 DEF Clients
  <2> QED BY <2>1, <2>5, <1>a DEF diskVars
<1>2. CASE Discs
  <2>1. CASE Tick
    BY <2>1, <1>a DEF Tick, diskVars, historyVars
  <2>2. CASE \E f \in Files : Arrive(f)
    BY <2>2, <1>a DEF Arrive
  <2>3. CASE \E f \in Files : Collect(f)
    BY <2>3, <1>a DEF Collect, historyVars
  <2> QED BY <1>2, <2>1, <2>2, <2>3 DEF Discs
<1>3. CASE Crash
  <2>1. UNCHANGED <<now, diskVars, copied, torn>> /\ faults' \in Nat
    BY <1>3, <1>b DEF Crash
  <2>2. known' \in [Sources -> Nat]
    BY <1>3, <1>a, <1>c DEF Crash
  <2> QED BY <2>1, <2>2, <1>a DEF diskVars
<1>4. CASE Restart \/ ServeStart \/ ServeEnd \/ FinishSave
  BY <1>4, <1>a DEF Restart, ServeStart, ServeEnd, FinishSave, diskVars, historyVars
<1>5. CASE Kicked \/ TimesOut \/ Retries \/ NextPriority \/ AllScanned
  BY <1>5, <1>a DEF Kicked, TimesOut, Retries, NextPriority, AllScanned, Wake,
              diskVars, historyVars
<1>6. CASE \E s \in Sources : ScanBegins(s) \/ PairScanned(s)
  BY <1>6, <1>a, <1>b DEF ScanBegins, PairScanned, diskVars, historyVars
<1>7. CASE \E d \in SUBSET Files : ScanReads(d) \/ ScanFails(d)
  <2> PICK d \in SUBSET Files : ScanReads(d) \/ ScanFails(d)
    BY <1>7
  <2>1. /\ disk' = disk \ d /\ UNCHANGED <<now, ctime, dest, copied, known>>
        /\ torn' \subseteq torn \cup Files
    BY <1>a DEF ScanReads, ScanFails, InDir, historyVars
  <2>2. faults' \in Nat
    BY <1>a, <1>b DEF ScanReads, ScanFails
  <2> QED BY <2>1, <2>2, <1>a
<1>8. CASE StopsCopying \/ NotePid \/ FirstOutput \/ OutputEnds
  BY <1>8, <1>a DEF StopsCopying, NotePid, FirstOutput, OutputEnds, diskVars,
                    historyVars
<1>9. CASE \E f \in Files : Pick(f, TRUE) \/ Pick(f, FALSE) \/ Copied(f)
  <2>1. UNCHANGED <<now, diskVars, copied, torn>> /\ known' = Known
    BY <1>9 DEF Pick, Copied
  <2>2. faults' \in Nat
    BY <1>9, <1>a, <1>b DEF Pick, Copied
  <2> QED BY <2>1, <2>2, <1>a, <1>b DEF diskVars
<1>10. CASE \E f \in Files : Moves(f) \/ CopyFails(f)
  BY <1>10, <1>a, <1>b DEF Moves, CopyFails, diskVars, historyVars
<1>11. CASE ComesAlive \/ Updates \/ Exits(TRUE) \/ Exits(FALSE)
  BY <1>11, <1>a, <1>b DEF ComesAlive, Updates, Exits, cpfsUnchanged, diskVars,
                           historyVars
<1>12. CASE UNCHANGED vars
  BY <1>12, <1>a DEF vars, diskVars, historyVars
<1> QED BY <1>1, <1>2, <1>3, <1>4, <1>5, <1>6, <1>7, <1>8, <1>9, <1>10, <1>11,
           <1>12, NextIs
-----------------------------------------------------------------------------
(* Where the processes are *)

\* The server does something only if it is up.
LEMMA OnlyUp ==
  ASSUME UpPlaces,
         \/ ServeStart \/ ServeEnd \/ FinishSave
         \/ Kicked \/ TimesOut \/ Retries \/ NextPriority \/ AllScanned
         \/ Begun \/ Scanned \/ Read \/ ReadFailed
         \/ StopsCopying \/ NotePid \/ FirstOutput \/ OutputEnds
         \/ Picked \/ Moved \/ Finished \/ GaveUp
         \/ ComesAlive \/ Updates \/ Exited
  PROVE  up /\ up' = up
<1>1. CASE ServeStart \/ ServeEnd \/ FinishSave
  BY Zenon, <1>1 DEF UpPlaces, ServeStart, ServeEnd, FinishSave, parentVars
<1>2. CASE Kicked \/ TimesOut \/ Retries \/ NextPriority \/ AllScanned
  BY <1>2 DEF Kicked, TimesOut, Retries, NextPriority, AllScanned, Wake, parentVars
<1>3. CASE Begun \/ Scanned \/ Read \/ ReadFailed
  BY Zenon, <1>3 DEF Begun, Scanned, Read, ReadFailed, ScanBegins, PairScanned,
              ScanReads, ScanFails, parentVars
<1>4. CASE StopsCopying \/ NotePid \/ FirstOutput \/ OutputEnds
  BY Zenon, <1>4 DEF StopsCopying, NotePid, FirstOutput, OutputEnds, parentVars
<1>5. CASE Picked \/ Moved \/ Finished \/ GaveUp
  BY Zenon, <1>5 DEF Picked, Moved, Finished, GaveUp, Pick, Moves, Copied, CopyFails,
              parentVars
<1>6. CASE ComesAlive \/ Updates \/ Exited
  <2>1. UNCHANGED up /\ cp.st # "none"
    BY <1>6 DEF ComesAlive, Updates, Exited, Exits, cpfsUnchanged, parentVars
  <2> QED BY <2>1 DEF UpPlaces, NoCopy
<1> QED BY <1>1, <1>2, <1>3, <1>4, <1>5, <1>6

LEMMA UpPlacesStep ==
  ASSUME UpPlaces, ParentTypes, [TransferNext]_vars PROVE UpPlaces'
<1>1. CASE Clients \/ UNCHANGED vars
  BY <1>1, ClientsLeave DEF serverSide, parentVars, shareVars, fileVars,
                            childVars, UpPlaces
<1>2. CASE Discs
  BY <1>2 DEF Discs, Tick, Arrive, Collect, parentVars, shareVars, fileVars,
              childVars, UpPlaces
<1>3. CASE Crash
  BY <1>3 DEF Crash, UpPlaces
<1>4. CASE Restart
  BY <1>4 DEF Restart, fileVars, UpPlaces, ParentTypes
<1> QED BY <1>1, <1>2, <1>3, <1>4, OnlyUp, StepIs DEF UpPlaces

\* What the child does with its local variables, waiting ...
LEMMA WakeDoes ==
  ASSUME Kicked \/ Retries
  PROVE  /\ child.pc \in {"wait", "timedout"}
         /\ child'.pc = "pri" /\ child'.retry = FALSE /\ child'.scans = {}
         /\ child'.todo = {PriorityOf[s] : s \in Paired} /\ Wake
         /\ UNCHANGED <<scan, work, list, cp, pid, copied>>
<1>1. /\ child.pc \in {"wait", "timedout"} /\ Wake
      /\ UNCHANGED <<scan, work, list, cp, pid, copied>>
  BY DEF Kicked, Retries, Wake, historyVars
<1>2. child' = [IdleChild EXCEPT !.pc = "pri",
                                 !.todo = {PriorityOf[s] : s \in Paired}]
  BY <1>1 DEF Wake
<1> QED BY <1>1, <1>2 DEF IdleChild

LEMMA NextPriorityDoes ==
  ASSUME ChildTypes, NextPriority
  PROVE  /\ child.pc = "pri" /\ child'.retry = child.retry
         /\ work' = [s \in Sources |-> NoWork]
         /\ UNCHANGED <<scan, list, cp, pid, copied, pair>>
         /\ \/ /\ child.todo = {} /\ child'.todo = {}
               /\ child'.pc = "wait" /\ child'.scans = child.scans
            \/ /\ child.todo # {} /\ child'.pc = "scan"
               /\ Lowest(child.todo) \in child.todo
               /\ child'.pri = Lowest(child.todo)
               /\ child'.todo = child.todo \ {Lowest(child.todo)}
               /\ child'.scans = {s \in Paired :
                                    /\ PriorityOf[s] = Lowest(child.todo)
                                    /\ pair[s].stale = Processing}
<1>1. /\ child.pc = "pri" /\ UNCHANGED <<scan, list, cp, pid, copied, pair>>
      /\ work' = [s \in Sources |-> NoWork]
  BY DEF NextPriority, shareVars, historyVars
<1>2. CASE child.todo = {}
  <2>1. child' = [child EXCEPT !.pc = "wait"]
    BY <1>2 DEF NextPriority
  <2> QED BY <1>1, <1>2, <2>1 DEF ChildTypes
<1>3. CASE child.todo # {}
  <2> DEFINE p == Lowest(child.todo)
             S == {s \in Paired : PriorityOf[s] = p /\ pair[s].stale = Processing}
  <2>1. child' = [child EXCEPT !.pc = "scan", !.pri = p, !.todo = @ \ {p},
                               !.scans = S]
    BY <1>3 DEF NextPriority
  <2>2. p \in child.todo
    BY <1>3, LowestIs DEF ChildTypes
  <2> HIDE DEF p, S
  <2>3. /\ child'.pc = "scan" /\ child'.pri = p /\ child'.todo = child.todo \ {p}
        /\ child'.scans = S /\ child'.retry = child.retry
    BY <2>1 DEF ChildTypes
  <2> QED BY <1>1, <1>3, <2>2, <2>3 DEF p, S
<1> QED BY <1>2, <1>3

\* ... and at its places outside the scans.
LEMMA ChildMoves ==
  ASSUME ChildTypes,
         \/ TimesOut \/ StopsCopying \/ NotePid \/ FirstOutput \/ OutputEnds
         \/ Picked \/ Moved \/ Finished \/ GaveUp
  PROVE  /\ child.pc # "scan" /\ child'.pc # "scan" /\ UNCHANGED scan
         /\ child'.scans = child.scans /\ child'.todo = child.todo
         /\ child'.pri = child.pri
         /\ child.retry => child'.retry
<1>1. CASE TimesOut \/ StopsCopying \/ NotePid \/ FirstOutput \/ OutputEnds
  <2>1. child.pc # "scan" /\ UNCHANGED scan
    BY <1>1 DEF TimesOut, StopsCopying, NotePid, FirstOutput, OutputEnds, childVars
  <2>2. \/ \E x \in {"timedout", "pri", "wait", "check"} : child' = [child EXCEPT !.pc = x]
        \/ child' = [child EXCEPT !.pc = "read", !.heard = FALSE, !.limit = limit]
        \/ child' = [child EXCEPT !.heard = TRUE]
    BY <1>1 DEF TimesOut, StopsCopying, NotePid, FirstOutput, OutputEnds
  <2> QED BY <2>1, <2>2 DEF ChildTypes
<1>2. CASE Picked \/ Moved \/ Finished \/ GaveUp
  <2>1. child.pc # "scan" /\ UNCHANGED scan
    <3>1. Picked => child.pc = "pick" /\ UNCHANGED scan
      BY Zenon DEF Picked, Pick
    <3>2. Moved => child.pc = "check" /\ UNCHANGED scan
      BY Zenon DEF Moved, Moves
    <3>3. Finished => child.pc = "moved" /\ UNCHANGED scan
      BY Zenon DEF Finished, Copied
    <3>4. GaveUp => child.pc = "check" /\ UNCHANGED scan
      BY Zenon DEF GaveUp, CopyFails
    <3> QED BY <1>2, <3>1, <3>2, <3>3, <3>4
  <2>2. \/ child' = child
        \/ \E x \in {"note", "moved", "pick"} : child' = [child EXCEPT !.pc = x]
        \/ child' = [child EXCEPT !.pc = "pick", !.retry = TRUE]
    BY Zenon, <1>2 DEF Picked, Moved, Finished, GaveUp, Pick, Moves, Copied, CopyFails,
                GivesUp
  <2> QED BY <2>1, <2>2 DEF ChildTypes
<1> QED BY <1>1, <1>2

LEMMA ScanDone ==
  ASSUME ChildTypes, ScanTypes, Scanned
  PROVE  /\ UNCHANGED <<cp, pid, copied>>
         /\ \E s \in Sources :
              /\ PairScanned(s) /\ scan.src = {s} /\ scan.dir = "done"
              /\ scan' = NoScan /\ child'.pc = child.pc
              /\ child'.scans = child.scans \ {s}
              /\ child'.todo = child.todo /\ child'.pri = child.pri
              /\ child'.retry = (child.retry \/ ~scan.ok)
              /\ work' = [work EXCEPT ![s] = NewWork]
              /\ list' = list \cup scan.found
<1> PICK s \in Sources : PairScanned(s)
  BY DEF Scanned
<1>1. /\ scan.src = {s} /\ scan.dir = "done" /\ scan' = NoScan
      /\ UNCHANGED <<cp, pid, copied>>
      /\ work' = [work EXCEPT ![s] = NewWork] /\ list' = list \cup scan.found
  BY DEF PairScanned
<1>2. child' = [child EXCEPT !.retry = @ \/ ~scan.ok, !.scans = @ \ {s}]
  BY DEF PairScanned
<1>3. /\ child'.pc = child.pc /\ child'.scans = child.scans \ {s}
      /\ child'.todo = child.todo /\ child'.pri = child.pri
      /\ child'.retry = (child.retry \/ ~scan.ok)
  BY <1>2 DEF ChildTypes, ScanTypes
<1> QED BY <1>1, <1>3

LEMMA ScanPlacesStep ==
  ASSUME ChildTypes, ScanTypes, DiscTypes, ScanPlaces, [TransferNext]_vars
  PROVE  ScanPlaces'
<1>1. CASE UNCHANGED childVars
  BY <1>1 DEF childVars, ScanPlaces
<1>2. CASE Crash
  BY <1>2 DEF Crash, ScanPlaces, IdleChild, NoScan, None
<1>3. CASE Kicked \/ Retries
  BY <1>3, WakeDoes DEF ScanPlaces
<1>4. CASE NextPriority
  BY <1>4, NextPriorityDoes DEF ScanPlaces
<1>5. CASE AllScanned
  <2>1. /\ scan.src = {} /\ child.scans = {} /\ UNCHANGED scan
        /\ child'.scans = child.scans
    BY <1>5 DEF AllScanned, ChildTypes
  <2> QED BY <2>1 DEF ScanPlaces
<1>6. CASE \/ TimesOut \/ StopsCopying \/ NotePid \/ FirstOutput \/ OutputEnds
           \/ Picked \/ Moved \/ Finished \/ GaveUp
  BY <1>6, ChildMoves DEF ScanPlaces
<1>7. CASE Begun
  <2>1. PICK s \in Sources : ScanBegins(s)
    BY <1>7 DEF Begun
  <2>2. /\ UNCHANGED child /\ child.pc = "scan" /\ scan.dir # "done"
        /\ \/ scan.src = {} /\ s \in child.scans
           \/ scan.src = {s}
        /\ scan' = [scan EXCEPT !.src = {s}, !.time = now]
    BY <2>1 DEF ScanBegins
  <2>3. /\ scan'.src = {s} /\ scan'.dir = scan.dir /\ scan'.ok = scan.ok
        /\ scan'.found = scan.found /\ scan'.latest = scan.latest
    BY <2>2 DEF ScanTypes
  <2> QED BY <2>2, <2>3 DEF ScanPlaces
<1>8. CASE Read
  <2>1. PICK d \in SUBSET Files : ScanReads(d)
    BY <1>8 DEF Read
  <2>2. /\ UNCHANGED child /\ scan.time # None
        /\ scan'.src = scan.src /\ scan'.time = None /\ scan'.ok = scan.ok
        /\ \/ /\ scan'.dir = scan.dir
              /\ scan'.latest = scan.latest /\ scan'.found = scan.found
           \/ scan'.dir = NextDir
    BY <2>1, ScanReadsDoes DEF ScanReads
  <2>3. NextDir \in {"xml", "done"}
    BY DEF NextDir
  <2> QED BY <2>2, <2>3 DEF ScanPlaces
<1>9. CASE ReadFailed
  <2>1. UNCHANGED child /\ scan.time # None
        /\ scan' = [scan EXCEPT !.time = None, !.dir = "done", !.ok = FALSE]
    BY <1>9 DEF ReadFailed, ScanFails
  <2>2. scan'.src = scan.src /\ scan'.time = None /\ scan'.dir = "done"
    BY <2>1 DEF ScanTypes
  <2> QED BY <2>1, <2>2 DEF ScanPlaces
<1>10. CASE Scanned
  <2>1. scan' = NoScan /\ child'.pc = child.pc /\ child'.scans \subseteq child.scans
    BY <1>10, ScanDone
  <2> QED BY <2>1 DEF ScanPlaces, NoScan, None
<1> QED BY <1>1, <1>2, <1>3, <1>4, <1>5, <1>6, <1>7, <1>8, <1>9, <1>10, StepIs,
           OthersLeaveChild

LEMMA OthersLeavePlaces ==
  ASSUME CopierTypes, ChildTypes,
         \/ Clients \/ UNCHANGED vars \/ Discs \/ Restart
         \/ ServeStart \/ ServeEnd \/ FinishSave
  PROVE  /\ UNCHANGED <<child, work, list, copied, pid>>
         /\ cp'.st = cp.st /\ cp'.file = cp.file /\ cp'.slow = cp.slow
         /\ cp'.ok = cp.ok
<1>1. UNCHANGED <<child, work, list>>
  BY OthersLeaveChild DEF childVars
<1>2. Clients \/ UNCHANGED vars => UNCHANGED <<copied, pid, cp>>
  BY ClientsLeave DEF serverSide, shareVars
<1>3. Discs \/ Restart \/ FinishSave => UNCHANGED <<copied, pid, cp>>
  BY DEF Discs, Tick, Arrive, Collect, Restart, FinishSave, shareVars, historyVars
<1>4. ASSUME ServeStart \/ ServeEnd
      PROVE  /\ UNCHANGED <<copied, pid>>
             /\ cp'.st = cp.st /\ cp'.file = cp.file /\ cp'.slow = cp.slow
             /\ cp'.ok = cp.ok
  <2>1. UNCHANGED <<copied, pid>>
    BY <1>4 DEF ServeStart, ServeEnd, historyVars
  <2>2. PICK on \in BOOLEAN : SetLimit(on)
    BY <1>4, ServesLimit
  <2>3. cp' = cp \/ cp' = Signalled("slow") \/ cp' = Signalled("fast")
    BY <2>2, SetLimitDoes
  <2> QED BY <2>1, <2>3, SignalledDoes
<1> QED BY <1>1, <1>2, <1>3, <1>4

\* Where cpfs gets to by itself.
LEMMA CpfsDoes ==
  ASSUME CopierTypes, ComesAlive \/ Updates \/ Exited
  PROVE  /\ UNCHANGED <<child, work, list, copied, pid, limit, events, raced>>
         /\ cp'.file = cp.file
         /\ \/ /\ cp.st = "forked" /\ cp'.st = "running"
               /\ cp'.slow = cp.slow /\ cp'.sig = cp.sig
            \/ /\ cp.st = "running" /\ cp'.st = "running" /\ cp.sig # "none"
               /\ cp'.slow = CopiesSlowly /\ cp'.sig = "none"
            \/ cp.st = "running" /\ cp'.st = "done"
<1>1. UNCHANGED <<child, work, list, copied, pid, limit, events, raced>>
  BY DEF ComesAlive, Updates, Exited, Exits, cpfsUnchanged, childVars, shareVars,
         historyVars, parentVars
<1>2. CopiesSlowly \in BOOLEAN
  BY DEF CopiesSlowly, CopierTypes
<1>3. CASE ComesAlive
  BY <1>1, <1>3 DEF ComesAlive, CopierTypes
<1>4. CASE Updates
  <2>1. /\ cp.st = "running" /\ cp.sig # "none"
        /\ cp' = [cp EXCEPT !.slow = CopiesSlowly, !.sig = "none"]
    BY <1>4 DEF Updates
  <2> HIDE DEF CopiesSlowly
  <2> QED BY <1>1, <2>1 DEF CopierTypes
<1>5. CASE Exited
  <2>1. PICK ok \in BOOLEAN : cp.st = "running" /\ cp' = [cp EXCEPT !.st = "done", !.ok = ok]
    BY <1>5 DEF Exited, Exits
  <2> QED BY <1>1, <2>1 DEF CopierTypes
<1> QED BY <1>3, <1>4, <1>5

\* What is done with a file that is picked, and with its copy.
LEMMA PickDoes ==
  ASSUME ChildTypes, NEW f \in Files, NEW r \in BOOLEAN, Pick(f, r)
  PROVE  /\ SourceOf[f] \in Sources /\ f \in list /\ child.pc = "pick"
         /\ \A g \in list : ctime[f] <= ctime[g]
         /\ UNCHANGED <<pid, copied, limit, raced, events>>
         /\ \/ /\ work[SourceOf[f]].copied = Failed
               /\ UNCHANGED <<child, work, cp, pair, saved, saving>>
               /\ list' = list \ {f}
            \/ /\ work[SourceOf[f]].copied # Failed
               /\ child'.pc = "note" /\ child'.retry = child.retry
               /\ UNCHANGED <<work, list>>
               /\ cp' = [NoCopy EXCEPT !.st = "forked", !.file = {f}]
            \/ /\ work[SourceOf[f]].copied # Failed
               /\ child'.pc = "pick" /\ child'.retry = TRUE
               /\ UNCHANGED cp /\ list' = list \ {f}
               /\ work' = [work EXCEPT ![SourceOf[f]].copied = Failed]
<1>1. /\ SourceOf[f] \in Sources /\ f \in list /\ child.pc = "pick"
      /\ \A g \in list : ctime[f] <= ctime[g]
      /\ UNCHANGED <<pid, copied, limit, raced, events>>
  BY TransferAssumption DEF Pick, parentVars
<1>2. CASE work[SourceOf[f]].copied = Failed
  BY <1>1, <1>2 DEF Pick, fileVars
<1>3. CASE work[SourceOf[f]].copied # Failed /\ r
  <2>1. /\ child' = [child EXCEPT !.pc = "note"] /\ UNCHANGED <<work, list>>
        /\ cp' = [NoCopy EXCEPT !.st = "forked", !.file = {f}]
    BY <1>3 DEF Pick
  <2>2. child'.pc = "note" /\ child'.retry = child.retry
    BY <2>1 DEF ChildTypes
  <2> QED BY <1>1, <1>3, <2>1, <2>2
<1>4. CASE work[SourceOf[f]].copied # Failed /\ ~r
  <2>1. /\ child' = [child EXCEPT !.pc = "pick", !.retry = TRUE]
        /\ UNCHANGED cp /\ list' = list \ {f}
        /\ work' = [work EXCEPT ![SourceOf[f]].copied = Failed]
    BY <1>4 DEF Pick, GivesUp
  <2>2. child'.pc = "pick" /\ child'.retry = TRUE
    BY <2>1 DEF ChildTypes
  <2> QED BY <1>1, <1>4, <2>1, <2>2
<1> QED BY <1>2, <1>3, <1>4

LEMMA CopyFailsDoes ==
  ASSUME ChildTypes, NEW f \in Files, CopyFails(f)
  PROVE  /\ SourceOf[f] \in Sources /\ child.pc = "check" /\ cp.file = {f}
         /\ child'.pc = "pick" /\ child'.retry = TRUE
         /\ cp' = NoCopy /\ list' = list \ {f}
         /\ work' = [work EXCEPT ![SourceOf[f]].copied = Failed]
         /\ UNCHANGED <<pid, copied, limit, raced, events>>
<1>1. /\ SourceOf[f] \in Sources /\ child.pc = "check" /\ cp.file = {f}
      /\ cp' = NoCopy /\ list' = list \ {f}
      /\ work' = [work EXCEPT ![SourceOf[f]].copied = Failed]
      /\ UNCHANGED <<pid, copied, limit, raced, events>>
  BY TransferAssumption DEF CopyFails, GivesUp, shareVars, historyVars, parentVars
<1>2. child' = [child EXCEPT !.pc = "pick", !.retry = TRUE]
  BY DEF CopyFails, GivesUp
<1>3. child'.pc = "pick" /\ child'.retry = TRUE
  BY <1>2 DEF ChildTypes
<1> QED BY <1>1, <1>3

LEMMA MovesDoes ==
  ASSUME ChildTypes, NEW f \in Files, Moves(f)
  PROVE  /\ child.pc = "check" /\ child'.pc = "moved" /\ child'.retry = child.retry
         /\ cp.file = {f} /\ copied' = copied \cup {f}
         /\ UNCHANGED <<work, list, cp, pid, limit, raced, events>>
<1>1. /\ child.pc = "check" /\ cp.file = {f} /\ copied' = copied \cup {f}
      /\ UNCHANGED <<work, list, cp, pid, limit, raced, events>>
      /\ child' = [child EXCEPT !.pc = "moved"]
  BY DEF Moves, shareVars, parentVars
<1> QED BY <1>1 DEF ChildTypes

LEMMA CopiedDoes ==
  ASSUME ChildTypes, NEW f \in Files, Copied(f)
  PROVE  /\ SourceOf[f] \in Sources /\ child.pc = "moved" /\ cp.file = {f}
         /\ child'.pc = "pick" /\ child'.retry = child.retry
         /\ cp' = NoCopy /\ list' = list \ {f}
         /\ work' = [work EXCEPT ![SourceOf[f]].copied = ctime[f],
                                 ![SourceOf[f]].n = work[SourceOf[f]].n - 1]
         /\ UNCHANGED <<pid, copied, limit, raced, events>>
<1>1. /\ SourceOf[f] \in Sources /\ child.pc = "moved" /\ cp.file = {f}
      /\ cp' = NoCopy /\ list' = list \ {f}
      /\ work' = [work EXCEPT ![SourceOf[f]].copied = ctime[f],
                              ![SourceOf[f]].n = work[SourceOf[f]].n - 1]
      /\ UNCHANGED <<pid, copied, limit, raced, events>>
      /\ child' = [child EXCEPT !.pc = "pick"]
  BY TransferAssumption DEF Copied, parentVars
<1> QED BY <1>1 DEF ChildTypes

LEMMA CopyPlacesStep ==
  ASSUME ChildTypes, ScanTypes, CopierTypes, ScanPlaces, CopyPlaces,
         [TransferNext]_vars
  PROVE  CopyPlaces'
<1> USE DEF CopyPlaces, Active, Copying
<1>1. CASE \/ Clients \/ UNCHANGED vars \/ Discs \/ Restart
           \/ ServeStart \/ ServeEnd \/ FinishSave
  BY <1>1, OthersLeavePlaces
<1>2. CASE ComesAlive \/ Updates \/ Exited
  BY <1>2, CpfsDoes
<1>3. CASE Crash
  BY <1>3 DEF Crash, IdleChild, NoCopy
<1>4. CASE Kicked \/ Retries
  <2>1. /\ child.pc \in {"wait", "timedout"} /\ child'.pc = "pri"
        /\ UNCHANGED <<work, list, cp, pid, copied>>
    BY <1>4, WakeDoes
  <2> QED BY <2>1
<1>5. CASE TimesOut
  <2>1. /\ child.pc = "wait" /\ UNCHANGED <<work, list, cp, pid, copied>>
        /\ child' = [child EXCEPT !.pc = "timedout"]
    BY <1>5 DEF TimesOut, shareVars, historyVars
  <2> QED BY <2>1 DEF ChildTypes
<1>6. CASE NextPriority
  BY <1>6, NextPriorityDoes
<1>7. CASE AllScanned
  <2>1. /\ child.pc = "scan" /\ UNCHANGED <<work, list, cp, pid, copied>>
        /\ child' = [child EXCEPT !.pc = "pick"]
    BY <1>7 DEF AllScanned, shareVars, historyVars
  <2> QED BY <2>1 DEF ChildTypes
<1>8. CASE Begun \/ Read \/ ReadFailed
  <2>1. UNCHANGED <<child, work, list, cp, pid, copied>>
    BY Zenon, <1>8 DEF Begun, Read, ReadFailed, ScanBegins, ScanReads, ScanFails,
                shareVars, historyVars
  <2> QED BY Zenon, <2>1
<1>9. CASE Scanned
  <2>1. child.pc = "scan"
    BY <1>9, ScanDone DEF ScanPlaces
  <2> QED BY <1>9, <2>1, ScanDone
<1>10. CASE StopsCopying
  <2>1. /\ child.pc = "pick" /\ UNCHANGED <<work, cp, pid, copied>> /\ list' = {}
        /\ \/ child' = [child EXCEPT !.pc = "pri"]
           \/ child' = [child EXCEPT !.pc = "wait"]
    BY <1>10 DEF StopsCopying, shareVars, historyVars
  <2> QED BY <2>1 DEF ChildTypes
<1>11. CASE NotePid
  <2>1. /\ child.pc = "note" /\ UNCHANGED <<work, list, cp, copied>> /\ pid' = TRUE
        /\ child' = [child EXCEPT !.pc = "read", !.heard = FALSE, !.limit = limit]
    BY <1>11 DEF NotePid
  <2>2. child'.pc = "read"
    BY <2>1 DEF ChildTypes
  <2> QED BY <2>1, <2>2
<1>12. CASE FirstOutput
  <2>1. /\ child.pc = "read" /\ UNCHANGED <<work, list, pid, copied>>
        /\ child' = [child EXCEPT !.heard = TRUE]
        /\ cp' = cp \/ cp' = Signalled("fast")
    BY <1>12 DEF FirstOutput, shareVars, historyVars
  <2>2. child'.pc = "read"
    BY <2>1 DEF ChildTypes
  <2>3. cp'.st = cp.st /\ cp'.file = cp.file
    BY <2>1, SignalledDoes
  <2> QED BY <2>1, <2>2, <2>3
<1>13. CASE OutputEnds
  <2>1. /\ child.pc = "read" /\ UNCHANGED <<work, list, cp, copied>> /\ pid' = FALSE
        /\ child' = [child EXCEPT !.pc = "check"] /\ cp.st = "done"
    BY <1>13 DEF OutputEnds, historyVars
  <2>2. child'.pc = "check"
    BY <2>1 DEF ChildTypes
  <2> QED BY <2>1, <2>2
<1>14. CASE Picked
  <2>1. PICK f \in Files, r \in BOOLEAN : Pick(f, r)
    BY <1>14 DEF Picked
  <2>2. /\ NoCopy.st = "none" /\ [NoCopy EXCEPT !.st = "forked", !.file = {f}].file = {f}
        /\ [NoCopy EXCEPT !.st = "forked", !.file = {f}].st = "forked"
    BY DEF NoCopy
  <2>3. CASE child'.pc = "note"
    <3>1. /\ f \in list /\ list' = list /\ work' = work /\ pid' = pid
          /\ child.pc = "pick" /\ work[SourceOf[f]].copied # Failed
          /\ cp' = [NoCopy EXCEPT !.st = "forked", !.file = {f}]
      BY <2>1, <2>3, PickDoes
    <3>2. cp'.file = {f} /\ cp'.st = "forked" /\ ~pid
      BY <2>2, <3>1
    <3> QED BY <2>3, <3>1, <3>2
  <2>4. CASE child'.pc # "note"
    <3>1. child.pc = "pick" /\ child'.pc = "pick" /\ UNCHANGED <<cp, pid>>
      BY <2>1, <2>4, PickDoes
    <3> QED BY <3>1
  <2> QED BY <2>3, <2>4
<1>15. CASE Moved
  <2>1. PICK f \in Files : Moves(f)
    BY <1>15 DEF Moved
  <2> QED BY <2>1, MovesDoes
<1>16. CASE GaveUp
  <2>1. PICK f \in Files : CopyFails(f)
    BY <1>16 DEF GaveUp
  <2>2. /\ child.pc \in {"check", "moved"} /\ child'.pc = "pick"
        /\ cp' = NoCopy /\ UNCHANGED pid
    BY <2>1, CopyFailsDoes
  <2> QED BY <2>2 DEF NoCopy
<1>17. CASE Finished
  <2>1. PICK f \in Files : Copied(f)
    BY <1>17 DEF Finished
  <2>2. /\ child.pc \in {"check", "moved"} /\ child'.pc = "pick"
        /\ cp' = NoCopy /\ UNCHANGED pid
    BY <2>1, CopiedDoes
  <2> QED BY <2>2 DEF NoCopy
<1> QED BY <1>1, <1>2, <1>3, <1>4, <1>5, <1>6, <1>7, <1>8, <1>9, <1>10, <1>11,
           <1>12, <1>13, <1>14, <1>15, <1>16, <1>17, StepIs

-----------------------------------------------------------------------------
(* What is left to copy is counted *)

LEMMA OfOthers ==
  ASSUME NEW f, NEW F, NEW s, s # SourceOf[f]
  PROVE  Of(s, F \ {f}) = Of(s, F)
BY DEF Of

LEMMA CountedStep ==
  ASSUME TransferTypeOK, Places, Counted, [TransferNext]_vars
  PROVE  Counted'
<1>a. /\ ChildTypes /\ ScanTypes /\ CopierTypes /\ DiscTypes
      /\ ScanPlaces /\ CopyPlaces
  BY Types DEF Places
<1>b. NoWork.copied = None /\ NoWork.n = 0 /\ None # Failed
  BY DEF NoWork, None, Failed
<1>1. CASE UNCHANGED childVars
  BY <1>1 DEF childVars, Counted, Active
<1>2. CASE Crash
  <2>1. child' = IdleChild /\ scan' = NoScan
    BY <1>2 DEF Crash
  <2> QED BY <2>1 DEF Counted, Active, IdleChild, NoScan
<1>3. CASE Kicked \/ Retries
  <2>1. child'.pc = "pri" /\ child'.scans = {} /\ UNCHANGED scan
    BY <1>3, WakeDoes
  <2> QED BY <2>1 DEF Counted, Active
<1>4. CASE NextPriority
  <2>1. child.pc = "pri" /\ work' = [s \in Sources |-> NoWork]
        /\ UNCHANGED <<scan, list>>
    BY <1>4, <1>a, NextPriorityDoes
  <2>2. list = {}
    BY <2>1, <1>a DEF CopyPlaces, Active
  <2>3. \A s \in Sources : Of(s, list') = {} /\ work'[s] = NoWork
    BY <2>1, <2>2 DEF Of
  <2>4. child'.scans \subseteq Sources
    <3>1. \A s \in Paired : s \in Sources
      BY DEF Paired
    <3> QED BY <1>4, <1>a, <3>1, NextPriorityDoes DEF ChildTypes
  <2>5. \A s \in Sources : work'[s].n = Cardinality(Of(s, list'))
    BY <2>3, <1>b, FS_EmptySet
  <2> QED BY <2>1, <2>3, <2>4, <2>5, <1>b DEF Counted
<1>5. CASE AllScanned
  <2>1. /\ child.pc = "scan" /\ UNCHANGED <<scan, work, list>>
        /\ child' = [child EXCEPT !.pc = "pick"]
    BY <1>5 DEF AllScanned
  <2> QED BY <2>1, <1>a DEF ChildTypes, Counted, Active
<1>6. CASE TimesOut \/ NotePid \/ FirstOutput \/ OutputEnds \/ Moved
  <2>1. UNCHANGED <<work, list, scan>> /\ child.scans = child'.scans
        /\ child'.pc # "scan"
    BY <1>6, <1>a, ChildMoves DEF TimesOut, NotePid, FirstOutput, OutputEnds,
                                  Moved, Moves
  <2>2. Active' => Active
    <3>1. CASE TimesOut
      <4>1. child' = [child EXCEPT !.pc = "timedout"]
        BY <3>1 DEF TimesOut
      <4> QED BY <4>1, <1>a DEF ChildTypes, Active
    <3>2. CASE NotePid \/ FirstOutput \/ OutputEnds \/ Moved
      BY <3>2 DEF NotePid, FirstOutput, OutputEnds, Moved, Moves, Active
    <3> QED BY <1>6, <3>1, <3>2
  <2> QED BY <2>1, <2>2 DEF Counted
<1>7. CASE Begun
  <2>1. PICK s \in Sources : ScanBegins(s)
    BY <1>7 DEF Begun
  <2>2. /\ UNCHANGED <<child, work, list>> /\ (scan.src = {} \/ scan.src = {s})
        /\ scan' = [scan EXCEPT !.src = {s}, !.time = now]
    BY <2>1 DEF ScanBegins
  <2>3. scan'.src = {s} /\ scan'.found = scan.found
    BY <2>2, <1>a DEF ScanTypes
  <2>4. scan.src = {} => scan.found = {}
    BY <1>a DEF ScanPlaces, NoScan
  <2> QED BY <2>2, <2>3, <2>4 DEF Counted, Active
<1>8. CASE Read
  <2>1. PICK d \in SUBSET Files : ScanReads(d)
    BY <1>8 DEF Read
  <2>2. /\ UNCHANGED <<child, work, list>> /\ scan'.src = scan.src
        /\ scan'.found \subseteq scan.found \cup InDir
    BY <2>1, <1>a, ScanReadsDoes DEF ScanReads
  <2>3. InDir \subseteq {f \in Files : SourceOf[f] \in scan.src}
    BY <1>a DEF InDir, DiscTypes
  <2> QED BY <2>2, <2>3 DEF Counted, Active
<1>9. CASE ReadFailed
  <2>1. /\ UNCHANGED <<child, work, list>>
        /\ scan' = [scan EXCEPT !.time = None, !.dir = "done", !.ok = FALSE]
    BY <1>9 DEF ReadFailed, ScanFails
  <2>2. scan'.src = scan.src /\ scan'.found = scan.found
    BY <2>1, <1>a DEF ScanTypes
  <2> QED BY <2>1, <2>2 DEF Counted, Active
<1>10. CASE Scanned
  <2>1. PICK s \in Sources :
          /\ scan.src = {s} /\ scan' = NoScan /\ child'.pc = child.pc
          /\ child'.scans = child.scans \ {s}
          /\ work' = [work EXCEPT ![s] = NewWork] /\ list' = list \cup scan.found
    BY <1>10, <1>a, ScanDone
  <2>2. s \in child.scans /\ child.pc = "scan"
    BY <2>1, <1>a DEF ScanPlaces
  <2>3. /\ Of(s, list') = scan.found
        /\ \A q \in Sources \ {s} : Of(q, list') = Of(q, list)
    BY <2>1, <2>2 DEF Counted, Of
  <2>4. work'[s].n = Cardinality(scan.found) /\ work'[s].copied = None
    BY <2>1, <1>a DEF NewWork, NoWork, ChildTypes
  <2>5. \A q \in Sources \ {s} : work'[q] = work[q]
    BY <2>1, <1>a DEF ChildTypes
  <2>6. scan'.found = {} /\ child.scans \subseteq Sources
    BY <2>1, <1>a DEF NoScan, ChildTypes
  <2>7. \A q \in Sources : work'[q].copied = None
    BY <2>2, <2>4, <2>5 DEF Counted
  <2>8. \A q \in child'.scans : work'[q] = NoWork /\ Of(q, list') = {}
    BY <2>1, <2>3, <2>5, <2>6 DEF Counted
  <2>9. \A q \in Sources : work'[q].copied # Failed =>
          work'[q].n = Cardinality(Of(q, list'))
    BY <2>2, <2>3, <2>4, <2>5 DEF Counted, Active
  <2> QED BY <2>6, <2>7, <2>8, <2>9 DEF Counted
<1>11. CASE StopsCopying
  <2>1. \/ child' = [child EXCEPT !.pc = "pri"]
        \/ child' = [child EXCEPT !.pc = "wait"]
    BY <1>11 DEF StopsCopying
  <2>2. child'.pc \in {"pri", "wait"} /\ UNCHANGED scan /\ child'.scans = {}
    BY <2>1, <1>a, <1>11, ChildMoves DEF ChildTypes, ScanPlaces
  <2> QED BY <2>2 DEF Counted, Active
<1>12. CASE Picked \/ GaveUp \/ Finished
  <2>1. UNCHANGED scan /\ child'.pc # "scan" /\ child'.scans = {}
    BY Zenon, <1>12, <1>a, ChildMoves DEF ScanPlaces
  <2>2. Active
    BY Zenon, <1>12 DEF Picked, GaveUp, Finished, Pick, CopyFails, Copied, Active
  <2>3. PICK f \in Files : \/ \E r \in BOOLEAN : Pick(f, r)
                           \/ CopyFails(f) \/ Copied(f)
    BY <1>12 DEF Picked, GaveUp, Finished
  <2> DEFINE s == SourceOf[f]
  <2>4. s \in Sources /\ work \in [Sources -> [copied : Nat \cup {Failed},
                                               n : Nat, latest : Nat]]
    BY <1>a, TransferAssumption DEF ChildTypes
  <2>5. \A q \in Sources \ {s} : work'[q] = work[q] /\ Of(q, list') = Of(q, list)
    <3>1. \/ UNCHANGED work \/ work' = [work EXCEPT ![s].copied = Failed]
          \/ work' = [work EXCEPT ![s].copied = ctime[f], ![s].n = work[s].n - 1]
      <4>1. CASE \E r \in BOOLEAN : Pick(f, r)
        BY Zenon, <4>1, <1>a, PickDoes
      <4>2. CASE CopyFails(f)
        BY Zenon, <4>2, <1>a, CopyFailsDoes
      <4>3. CASE Copied(f)
        BY Zenon, <4>3, <1>a, CopiedDoes
      <4> QED BY <2>3, <4>1, <4>2, <4>3
    <3>2. list' = list \/ list' = list \ {f}
      BY <2>3, <1>a, PickDoes, CopyFailsDoes, CopiedDoes
    <3> QED BY <3>1, <3>2, <2>4, OfOthers
  <2>6. work'[s].copied # Failed => work'[s].n = Cardinality(Of(s, list'))
    <3>1. CASE \E r \in BOOLEAN : Pick(f, r)
      <4>1. \/ work[s].copied = Failed /\ UNCHANGED work
            \/ UNCHANGED <<work, list>>
            \/ work' = [work EXCEPT ![s].copied = Failed]
        BY <3>1, <1>a, PickDoes
      <4> QED BY <4>1, <2>2, <2>4 DEF Counted
    <3>2. CASE CopyFails(f)
      <4>1. work' = [work EXCEPT ![s].copied = Failed]
        BY <3>2, <1>a, CopyFailsDoes
      <4> QED BY <4>1, <2>4
    <3>3. CASE Copied(f)
      <4>1. /\ work' = [work EXCEPT ![s].copied = ctime[f], ![s].n = work[s].n - 1]
            /\ list' = list \ {f} /\ child.pc = "moved" /\ cp.file = {f}
        BY <3>3, <1>a, CopiedDoes
      <4>2. Cardinality(Of(s, list \ {f})) = work[s].n - 1
        BY <4>1, <1>a, CopiedCounts DEF Copying
      <4>3. work'[s].n = work[s].n - 1
        BY <4>1, <2>4
      <4> QED BY <4>1, <4>2, <4>3
    <3> QED BY <2>3, <3>1, <3>2, <3>3
  <2>7. \A q \in Sources : work'[q].copied # Failed =>
          work'[q].n = Cardinality(Of(q, list'))
    BY <2>2, <2>5, <2>6 DEF Counted
  <2> QED BY <2>1, <2>7 DEF Counted
<1> QED BY <1>1, <1>2, <1>3, <1>4, <1>5, <1>6, <1>7, <1>8, <1>9, <1>10, <1>11,
           <1>12, StepIs, OthersLeaveChild

-----------------------------------------------------------------------------
(* What the steps do to the pairs, their files and what is known of them *)

marks == <<now, ctime, disk, dest, copied, torn, scan, work, list, pair,
           saved, saving, known, up>>

\* The steps that have nothing to do with any of this.
LEMMA OthersLeaveMarks ==
  ASSUME \/ Clients \/ UNCHANGED vars \/ ServeStart \/ TimesOut \/ AllScanned
         \/ NotePid \/ FirstOutput \/ OutputEnds
         \/ ComesAlive \/ Updates \/ Exited
  PROVE  UNCHANGED marks
<1>1. CASE Clients \/ UNCHANGED vars
  BY <1>1, ClientsLeave DEF serverSide, parentVars, shareVars, fileVars, childVars,
                            diskVars, marks
<1>2. CASE ServeStart \/ TimesOut \/ AllScanned
  BY <1>2 DEF ServeStart, TimesOut, AllScanned, parentVars, shareVars, fileVars,
              childVars, diskVars, historyVars, marks
<1>3. CASE NotePid \/ FirstOutput \/ OutputEnds
  BY <1>3 DEF NotePid, FirstOutput, OutputEnds, parentVars, shareVars, fileVars,
              diskVars, historyVars, marks
<1>4. CASE ComesAlive \/ Updates \/ Exited
  BY <1>4 DEF ComesAlive, Updates, Exited, Exits, cpfsUnchanged, parentVars,
              shareVars, fileVars, childVars, diskVars, historyVars, marks
<1> QED BY <1>1, <1>2, <1>3, <1>4

LEMMA RestartDoes ==
  ASSUME TransferTypeOK, Places, Restart
  PROVE  /\ UNCHANGED <<now, ctime, disk, dest, copied, torn, saved, saving, known>>
         /\ UNCHANGED childVars
         /\ ~up /\ up' /\ ~saving /\ child = IdleChild /\ scan = NoScan /\ list = {}
         /\ \A s \in Sources : /\ pair'[s].cleared = saved[s]
                               /\ pair'[s].stale = (IF saved[s] = NotSaved
                                                    THEN UpToDate ELSE Stale)
         /\ staleFrom' = None => \A s \in Sources : saved[s] = NotSaved
         /\ staleFrom' # None => kicks' > 0
<1>a. ParentTypes /\ UpPlaces /\ ScanPlaces
  BY Types DEF Places
<1>1. /\ UNCHANGED <<now, ctime, disk, dest, copied, torn, saved, saving, known>>
      /\ UNCHANGED childVars /\ ~up /\ up'
  BY DEF Restart, fileVars, diskVars, historyVars
<1>2. /\ ~saving /\ child = IdleChild /\ list = {} /\ staleFrom = None /\ kicks = 0
      /\ pair = [s \in Sources |-> NoPair]
  BY <1>1, <1>a DEF UpPlaces
<1>3. scan = NoScan
  BY <1>2, <1>a DEF ScanPlaces, IdleChild
<1> DEFINE S == {s \in Sources : saved[s] # NotSaved}
<1>4. saved \in [Sources -> Nat \cup {Failed}] /\ AddPairs(S, saved) /\ S \in SUBSET Sources
  BY <1>a DEF Restart, ParentTypes, NotSaved
<1>5. /\ \A s \in Sources : pair'[s] = IF s \in S
                                       THEN [stale |-> Stale, cleared |-> saved[s]]
                                       ELSE pair[s]
      /\ S = {} => UNCHANGED <<staleFrom, kicks>>
      /\ S # {} => /\ staleFrom' \in Nat \ {0}
                   /\ kicks' = IF staleFrom = None THEN kicks + 1 ELSE kicks
  BY <1>4, <1>a, AddPairsDoes
<1>6. \A s \in Sources : /\ pair'[s].cleared = saved[s]
                         /\ pair'[s].stale = (IF saved[s] = NotSaved
                                              THEN UpToDate ELSE Stale)
  <2>1. ASSUME NEW s \in Sources, saved[s] = NotSaved
        PROVE  pair'[s].cleared = saved[s] /\ pair'[s].stale = UpToDate
    <3>1. pair'[s] = NoPair
      BY <1>2, <1>5, <2>1
    <3> QED BY <2>1, <3>1 DEF NoPair, NotSaved
  <2>2. ASSUME NEW s \in Sources, saved[s] # NotSaved
        PROVE  pair'[s].cleared = saved[s] /\ pair'[s].stale = Stale
    <3>1. pair'[s] = [stale |-> Stale, cleared |-> saved[s]]
      BY <1>5, <2>2
    <3> QED BY <3>1
  <2> QED BY <2>1, <2>2
<1>7. staleFrom' = None => \A s \in Sources : saved[s] = NotSaved
  BY <1>5 DEF None
<1>8. staleFrom' # None => kicks' > 0
  BY <1>2, <1>5
<1> QED BY <1>1, <1>2, <1>3, <1>6, <1>7, <1>8

LEMMA ServeEndPairs ==
  ASSUME TransferTypeOK, ServeEnd
  PROVE  /\ UNCHANGED <<now, ctime, disk, dest, copied, torn, known, up>>
         /\ UNCHANGED childVars
         /\ ~saving /\ child.pc \notin {"pri", "pick"}
         /\ \/ UNCHANGED <<pair, saved, saving, staleFrom, kicks>>
            \/ /\ \A s \in Sources :
                    /\ pair'[s].stale = Stale
                    /\ pair'[s].cleared = (IF pair[s].cleared = Failed THEN None
                                           ELSE pair[s].cleared)
               /\ saving' /\ saved' = [s \in Sources |-> NotSaved]
               /\ staleFrom' # None /\ (staleFrom = None => kicks' > 0)
               /\ staleFrom # None => UNCHANGED kicks
<1>a. ParentTypes
  BY Types
<1>1. /\ UNCHANGED <<now, ctime, disk, dest, copied, torn, known, up>>
      /\ UNCHANGED childVars /\ ~saving /\ child.pc \notin {"pri", "pick"}
  BY DEF ServeEnd, diskVars, Unlocked
<1> DEFINE cl == [s \in Sources |-> Later({pair[s].cleared})]
<1>2. PICK S \in {{}, Sources} : /\ AddPairs(S, cl)
                                 /\ IF S = {} THEN UNCHANGED fileVars ELSE Save
  BY <1>a, ServeEndDoes
<1>3. cl \in [Sources -> Nat \cup {Failed}]
  BY <1>a, LaterTypes
<1>4. \A s \in Sources : cl[s] = IF pair[s].cleared = Failed THEN None
                                 ELSE pair[s].cleared
  <2>1. ASSUME NEW s \in Sources
        PROVE  cl[s] = IF pair[s].cleared = Failed THEN None ELSE pair[s].cleared
    <3>1. pair[s].cleared \in Nat \cup {-1}
      BY <1>a DEF ParentTypes, Failed
    <3>2. Later({pair[s].cleared}) = IF pair[s].cleared >= 0 THEN pair[s].cleared ELSE 0
      BY <3>1, LaterOne
    <3> QED BY <3>1, <3>2 DEF Failed, None
  <2> QED BY <2>1
<1> HIDE DEF cl
<1>5. /\ \A s \in Sources : pair'[s] = IF s \in S
                                       THEN [stale |-> Stale, cleared |-> cl[s]]
                                       ELSE pair[s]
      /\ S = {} => UNCHANGED <<staleFrom, kicks>> /\ UNCHANGED pair
      /\ S # {} => /\ staleFrom' \in Nat \ {0}
                   /\ kicks' = IF staleFrom = None THEN kicks + 1 ELSE kicks
  <2>1. S = {} => UNCHANGED pair
    <3>1. S = {} => pair' = [s \in Sources |-> pair[s]]
      BY <1>2 DEF AddPairs
    <3> QED BY <3>1, <1>a DEF ParentTypes
  <2> QED BY <1>2, <1>3, <1>a, <2>1, AddPairsDoes
<1>6. CASE S = {}
  BY <1>1, <1>2, <1>5, <1>6 DEF fileVars
<1>7. CASE S # {}
  <2>1. S = Sources /\ saving' /\ saved' = [s \in Sources |-> NotSaved]
    BY <1>2, <1>7 DEF Save
  <2>2. \A s \in Sources : /\ pair'[s].stale = Stale
                           /\ pair'[s].cleared = (IF pair[s].cleared = Failed
                                                  THEN None ELSE pair[s].cleared)
    <3>1. \A s \in Sources : pair'[s] = [stale |-> Stale, cleared |-> cl[s]]
      BY <1>5, <2>1
    <3>2. ASSUME NEW s \in Sources
          PROVE  pair'[s].stale = Stale /\ pair'[s].cleared = cl[s]
      <4>1. pair'[s] = [stale |-> Stale, cleared |-> cl[s]]
        BY <3>1
      <4> QED BY <4>1
    <3> QED BY <1>4, <3>2
  <2>3. staleFrom' # None
    BY <1>5, <1>7 DEF None
  <2>4. kicks \in Nat
    BY <1>a DEF ParentTypes
  <2>5. /\ staleFrom = None => kicks' > 0
        /\ staleFrom # None => UNCHANGED kicks
    BY <1>5, <1>7, <2>4
  <2> QED BY <1>1, <2>1, <2>2, <2>3, <2>5
<1> QED BY <1>6, <1>7

LEMMA WakePairs ==
  ASSUME ParentTypes, Kicked \/ Retries
  PROVE  /\ UNCHANGED <<now, ctime, disk, dest, copied, torn, scan, work, list,
                        saved, saving, known, up>>
         /\ staleFrom' = None /\ kicks >= kicks'
         /\ \A s \in Sources :
              /\ pair'[s].cleared = pair[s].cleared
              /\ pair'[s].stale = (IF pair[s].stale = UpToDate THEN UpToDate
                                   ELSE Processing)
<1>1. UNCHANGED <<now, ctime, disk, dest, copied, torn, scan, work, list,
                  saved, saving, known, up>> /\ staleFrom' = None
  BY DEF Kicked, Retries, Wake, parentVars, fileVars, diskVars, historyVars
<1>2. pair' = [s \in Sources |->
                 IF pair[s].stale = UpToDate THEN pair[s]
                 ELSE [pair[s] EXCEPT !.stale = Processing]]
  BY DEF Kicked, Retries, Wake
<1>3. ASSUME NEW s \in Sources
      PROVE  /\ pair'[s].cleared = pair[s].cleared
             /\ pair'[s].stale = (IF pair[s].stale = UpToDate THEN UpToDate
                                  ELSE Processing)
  BY <1>2 DEF ParentTypes
<1>4. kicks >= kicks'
  BY DEF Kicked, Retries, ParentTypes
<1> QED BY <1>1, <1>3, <1>4

LEMMA ScannedPairs ==
  ASSUME TransferTypeOK, NEW s \in Sources, PairScanned(s)
  PROVE  /\ UNCHANGED <<now, ctime, disk, dest, copied, torn, up, staleFrom, kicks>>
         /\ known' = Known /\ ~saving /\ scan.src = {s} /\ scan.dir = "done"
         /\ scan' = NoScan
         /\ \/ /\ scan.ok /\ scan.found = {} /\ UNCHANGED list
               /\ \A q \in Sources \ {s} : pair'[q] = pair[q]
               /\ pair'[s].cleared = scan.last
               /\ pair'[s].stale = Settled(pair[s].stale)
               /\ \/ saving' /\ saved' = [q \in Sources |-> NotSaved]
                  \/ UNCHANGED <<saved, saving>> /\ scan.last = pair[s].cleared
            \/ /\ ~scan.ok \/ scan.found # {}
               /\ UNCHANGED <<pair, saved, saving>>
               /\ list' = list \cup scan.found
         /\ work'[s].latest = scan.latest /\ work'[s].copied = None
         /\ work'[s].n = Cardinality(scan.found)
         /\ \A q \in Sources \ {s} : work'[q] = work[q]
<1>a. ParentTypes /\ ChildTypes /\ ScanTypes
  BY Types
<1>1. /\ UNCHANGED <<now, ctime, disk, dest, copied, torn, up, staleFrom, kicks>>
      /\ known' = Known /\ ~saving /\ scan.src = {s} /\ scan.dir = "done"
      /\ scan' = NoScan
  BY DEF PairScanned, Unlocked, diskVars, parentVars
<1>2. work' = [work EXCEPT ![s] = NewWork] /\ list' = list \cup scan.found
  BY DEF PairScanned
<1>3. /\ work'[s].latest = scan.latest /\ work'[s].copied = None
      /\ work'[s].n = Cardinality(scan.found)
      /\ \A q \in Sources \ {s} : work'[q] = work[q]
  BY <1>2, <1>a DEF ChildTypes, NewWork, NoWork
<1>4. CASE scan.ok /\ scan.found = {}
  <2>1. /\ pair' = [pair EXCEPT ![s].cleared = scan.last,
                                ![s].stale = Settled(@)]
        /\ IF scan.last # pair[s].cleared THEN Save ELSE UNCHANGED fileVars
    BY <1>4 DEF PairScanned
  <2>2. /\ \A q \in Sources \ {s} : pair'[q] = pair[q]
        /\ pair'[s].cleared = scan.last
        /\ pair'[s].stale = Settled(pair[s].stale)
    BY <2>1, <1>a DEF ParentTypes
  <2>3. \/ saving' /\ saved' = [q \in Sources |-> NotSaved]
        \/ UNCHANGED <<saved, saving>> /\ scan.last = pair[s].cleared
    BY <2>1 DEF Save, fileVars
  <2>4. list' = list
    BY <1>2, <1>4
  <2> QED BY <1>1, <1>3, <1>4, <2>2, <2>3, <2>4
<1>5. CASE ~scan.ok \/ scan.found # {}
  <2>1. UNCHANGED <<pair, saved, saving>>
    BY <1>5 DEF PairScanned, fileVars
  <2> QED BY <1>1, <1>2, <1>3, <1>5, <2>1
<1> QED BY <1>4, <1>5

\* Before a file is copied ...
LEMMA PickPairs ==
  ASSUME TransferTypeOK, NEW f \in Files, NEW r \in BOOLEAN, Pick(f, r)
  PROVE  /\ UNCHANGED <<now, ctime, disk, dest, copied, torn, up, staleFrom,
                        kicks, scan>>
         /\ known' = Known /\ ~saving
         /\ \A q \in Sources \ {SourceOf[f]} : pair'[q] = pair[q]
         /\ pair'[SourceOf[f]].stale = pair[SourceOf[f]].stale
         /\ \/ /\ work[SourceOf[f]].copied \notin {Failed, None}
               /\ ctime[f] > work[SourceOf[f]].copied
               /\ pair'[SourceOf[f]].cleared = work[SourceOf[f]].copied
               /\ saving' /\ saved' = [q \in Sources |-> NotSaved]
            \/ UNCHANGED <<pair, saved, saving>>
<1> DEFINE s == SourceOf[f]
           last == work[s].copied
<1>a. s \in Sources /\ ParentTypes
  BY TransferAssumption, Types
<1>1. /\ UNCHANGED <<now, ctime, disk, dest, copied, torn, up, staleFrom, kicks, scan>>
      /\ known' = Known /\ ~saving
  BY DEF Pick, diskVars, parentVars
<1>2. CASE last # Failed /\ last # None /\ ctime[f] > last
  <2>1. pair' = [pair EXCEPT ![s].cleared = last] /\ Save
    BY <1>2 DEF Pick
  <2>2. /\ \A q \in Sources \ {s} : pair'[q] = pair[q]
        /\ pair'[s].cleared = last /\ pair'[s].stale = pair[s].stale
    BY <2>1, <1>a DEF ParentTypes
  <2> QED BY <1>1, <1>2, <2>1, <2>2 DEF Save
<1>3. CASE ~(last # Failed /\ last # None /\ ctime[f] > last)
  <2>1. UNCHANGED <<pair, saved, saving>>
    BY <1>3 DEF Pick, fileVars
  <2> QED BY <1>1, <2>1
<1> QED BY <1>2, <1>3

\* ... and when it has been copied.
LEMMA CopiedPairs ==
  ASSUME TransferTypeOK, Places, Counted, NEW f \in Files, Copied(f)
  PROVE  /\ UNCHANGED <<now, ctime, disk, dest, copied, torn, up, staleFrom,
                        kicks, scan>>
         /\ known' = Known /\ ~saving /\ f \in list
         /\ work[SourceOf[f]].copied # Failed
         /\ work[SourceOf[f]].n > 0
         /\ \A q \in Sources \ {SourceOf[f]} : pair'[q] = pair[q]
         /\ \/ /\ UNCHANGED <<pair, saved, saving>>
               /\ work[SourceOf[f]].n - 1 > 0
            \/ /\ Of(SourceOf[f], list \ {f}) = {}
               /\ work[SourceOf[f]].n - 1 = 0
               /\ pair'[SourceOf[f]].stale = Settled(pair[SourceOf[f]].stale)
               /\ pair'[SourceOf[f]].cleared = work[SourceOf[f]].latest
               /\ saving' /\ saved' = [q \in Sources |-> NotSaved]
<1> DEFINE s == SourceOf[f]
<1>a. s \in Sources /\ ParentTypes /\ ChildTypes
  BY TransferAssumption, Types
<1>1. /\ UNCHANGED <<now, ctime, disk, dest, copied, torn, up, staleFrom, kicks, scan>>
      /\ known' = Known /\ ~saving
  BY DEF Copied, diskVars, parentVars, Unlocked
<1>2. /\ f \in list /\ work[s].copied # Failed /\ work[s].n \in Nat \ {0}
      /\ Cardinality(Of(s, list \ {f})) = work[s].n - 1
  <2>1. Copying /\ cp.file = {f}
    BY DEF Copied, Copying
  <2> QED BY <2>1, <1>a, CopiedCounts
<1>3. CASE work[s].n - 1 > 0
  <2>1. UNCHANGED <<pair, saved, saving>>
    BY <1>3 DEF Copied, fileVars
  <2> QED BY <1>1, <1>2, <1>3, <2>1
<1>4. CASE ~(work[s].n - 1 > 0)
  <2>1. pair' = [pair EXCEPT ![s].cleared = work[s].latest, ![s].stale = Settled(@)]
        /\ Save
    BY <1>4 DEF Copied
  <2>2. /\ \A q \in Sources \ {s} : pair'[q] = pair[q]
        /\ pair'[s].cleared = work[s].latest
        /\ pair'[s].stale = Settled(pair[s].stale)
    BY <2>1, <1>a DEF ParentTypes
  <2>3. work[s].n - 1 = 0
    BY <1>2, <1>4
  <2>4. Of(s, list \ {f}) = {}
    <3>1. IsFiniteSet(Of(s, list \ {f}))
      <4>1. Of(s, list \ {f}) \subseteq Files
        BY <1>a DEF Of, ChildTypes
      <4> QED BY <4>1, FS_Subset, TransferAssumption
    <3> QED BY <3>1, <1>2, <2>3, FS_EmptySet
  <2>5. work[s].n > 0
    BY <1>2
  <2> QED BY <1>1, <1>2, <2>1, <2>2, <2>3, <2>4, <2>5 DEF Save
<1> QED BY <1>3, <1>4

-----------------------------------------------------------------------------
(* What is cleared lies in the past *)

LEMMA Numbers ==
  ASSUME TransferTypeOK
  PROVE  /\ now \in Nat /\ ctime \in [Files -> Nat]
         /\ disk \subseteq Files /\ list \subseteq Files /\ scan.found \subseteq Files
         /\ \A f \in Files : SourceOf[f] \in Sources /\ ctime[f] \in Nat
         /\ scan.time \in Nat /\ scan.prev \in Nat /\ scan.last \in Nat
         /\ scan.latest \in Nat
         /\ \A s \in Sources :
              /\ pair[s].cleared \in Int /\ saved[s] \in Int /\ known[s] \in Nat
              /\ work[s].latest \in Nat /\ work[s].copied \in Int
              /\ pair[s].cleared >= -1 /\ saved[s] >= -1
<1>1. /\ now \in Nat /\ ctime \in [Files -> Nat]
      /\ disk \subseteq Files /\ list \subseteq Files
      /\ known \in [Sources -> Nat] /\ saved \in [Sources -> Nat \cup {-1}]
  BY DEF TransferTypeOK, NotSaved, Failed
<1>2. \A f \in Files : SourceOf[f] \in Sources /\ ctime[f] \in Nat
  BY <1>1, TransferAssumption
<1>3. /\ scan.found \subseteq Files /\ scan.time \in Nat /\ scan.prev \in Nat
      /\ scan.last \in Nat /\ scan.latest \in Nat
  BY DEF TransferTypeOK
<1>4. ASSUME NEW s \in Sources
      PROVE  /\ pair[s].cleared \in Nat \cup {-1}
             /\ work[s].latest \in Nat /\ work[s].copied \in Nat \cup {-1}
  BY Types DEF ParentTypes, ChildTypes, Failed
<1> QED BY <1>1, <1>2, <1>3, <1>4

LEMMA DiscsTimelyStep ==
  ASSUME TransferTypeOK, DiscsTimely, [TransferNext]_vars PROVE DiscsTimely'
<1>a. /\ now \in Nat /\ ctime \in [Files -> Nat]
      /\ disk \subseteq Files /\ list \subseteq Files /\ scan.found \subseteq Files
      /\ \A f \in Files : ctime[f] \in Nat
  BY Numbers
<1>b. ChildTypes /\ ScanTypes /\ DiscTypes
  BY Types
<1>1. CASE /\ UNCHANGED <<now, ctime, dest, copied>>
           /\ disk' \cup list' \cup scan'.found \subseteq disk \cup list \cup scan.found
  BY <1>1 DEF DiscsTimely
<1>2. CASE UNCHANGED marks
  BY <1>1, <1>2 DEF marks
<1>3. CASE Discs
  <2>1. CASE Tick
    <3>1. now' = now + 1 /\ UNCHANGED <<ctime, disk, dest, copied, list, scan>>
      BY <2>1 DEF Tick, childVars, diskVars, historyVars
    <3>2. \A f \in Files : ctime[f] <= now + 1
      BY <1>a DEF DiscsTimely
    <3> QED BY <1>a, <3>1, <3>2 DEF DiscsTimely
  <2>2. ASSUME NEW f \in Files, Arrive(f) PROVE DiscsTimely'
    <3>1. /\ UNCHANGED <<now, dest, copied, list, scan>>
          /\ ctime' = [ctime EXCEPT ![f] = now] /\ disk' = disk \cup {f}
      BY <2>2 DEF Arrive, childVars
    <3>2. ctime'[f] = now /\ \A g \in Files \ {f} : ctime'[g] = ctime[g]
      BY <1>a, <3>1
    <3>3. \A g \in Files : ctime'[g] <= now
      BY <1>a, <3>2 DEF DiscsTimely
    <3>4. \A g \in disk' \cup list' \cup scan'.found : ctime'[g] # None
      BY <1>a, <3>1, <3>2 DEF DiscsTimely, None
    <3> QED BY <3>1, <3>3, <3>4 DEF DiscsTimely
  <2>3. ASSUME NEW f \in Files, Collect(f) PROVE DiscsTimely'
    BY <2>3 DEF Collect, childVars, historyVars, DiscsTimely
  <2> QED BY <1>3, <2>1, <2>2, <2>3 DEF Discs
<1>4. CASE Crash
  BY <1>1, <1>4 DEF Crash, NoScan, diskVars
<1>5. CASE Restart \/ ServeEnd \/ FinishSave \/ NextPriority \/ Kicked \/ Retries
  BY <1>1, <1>5 DEF Restart, ServeEnd, FinishSave, NextPriority, Kicked, Retries,
                    Wake, childVars, diskVars, historyVars
<1>6. CASE Begun
  <2>1. UNCHANGED <<now, ctime, dest, copied, disk, list>>
        /\ \E s \in Sources : scan' = [scan EXCEPT !.src = {s}, !.time = now]
    BY <1>6 DEF Begun, ScanBegins, diskVars, historyVars
  <2>2. scan'.found = scan.found
    BY <2>1, <1>b DEF ScanTypes
  <2> QED BY <1>1, <2>1, <2>2
<1>7. CASE Read
  <2>1. PICK d \in SUBSET Files : ScanReads(d)
    BY <1>7 DEF Read
  <2>2. UNCHANGED <<now, ctime, dest, copied, list>> /\ disk' = disk \ d
    BY <2>1 DEF ScanReads, historyVars
  <2>3. scan'.found \subseteq scan.found \cup InDir
    BY <1>b, <2>1, ScanReadsDoes
  <2> QED BY <1>1, <2>2, <2>3 DEF InDir
<1>8. CASE ReadFailed
  <2>1. PICK d \in SUBSET Files : ScanFails(d)
    BY <1>8 DEF ReadFailed
  <2>2. /\ UNCHANGED <<now, ctime, dest, copied, list>> /\ disk' = disk \ d
        /\ scan' = [scan EXCEPT !.time = None, !.dir = "done", !.ok = FALSE]
    BY <2>1 DEF ScanFails, historyVars
  <2>3. scan'.found = scan.found
    BY <2>2, <1>b DEF ScanTypes
  <2> QED BY <1>1, <2>2, <2>3
<1>9. CASE Scanned
  <2>1. PICK s \in Sources : PairScanned(s)
    BY <1>9 DEF Scanned
  <2>2. /\ UNCHANGED <<now, ctime, dest, copied, disk>> /\ scan' = NoScan
        /\ list' = list \cup scan.found
    BY <2>1 DEF PairScanned, diskVars
  <2> QED BY <1>1, <2>2 DEF NoScan
<1>10. CASE StopsCopying
  BY <1>1, <1>10 DEF StopsCopying, diskVars, historyVars
<1>11. CASE Picked \/ GaveUp \/ Finished
  <2>1. CASE Picked
    BY <1>1, <2>1 DEF Picked, Pick, GivesUp, diskVars
  <2>2. CASE GaveUp
    BY <1>1, <2>2 DEF GaveUp, CopyFails, GivesUp, diskVars, historyVars
  <2>3. CASE Finished
    BY <1>1, <2>3 DEF Finished, Copied, diskVars
  <2> QED BY <1>11, <2>1, <2>2, <2>3
<1>12. CASE Moved
  <2>1. PICK f \in Files : Moves(f)
    BY <1>12 DEF Moved
  <2>2. /\ UNCHANGED <<now, ctime, disk, list, scan>>
        /\ dest' = dest \cup {f} /\ copied' = copied \cup {f}
    BY <2>1 DEF Moves
  <2> QED BY <2>2 DEF DiscsTimely
<1> QED BY <1>2, <1>3, <1>4, <1>5, <1>6, <1>7, <1>8, <1>9, <1>10, <1>11, <1>12,
           StepIs, OthersLeaveMarks

\* A step that leaves the times behind it for the scan.
LEMMA ScanTimelyStep ==
  ASSUME TransferTypeOK, Places, Timely, [TransferNext]_vars PROVE ScanTimely'
<1>a. /\ now \in Nat /\ scan.found \subseteq Files
      /\ \A f \in Files : SourceOf[f] \in Sources /\ ctime[f] \in Nat
      /\ scan.time \in Nat /\ scan.prev \in Nat /\ scan.last \in Nat
      /\ scan.latest \in Nat /\ ctime \in [Files -> Nat]
      /\ \A s \in Sources : pair[s].cleared \in Int
  BY Numbers
<1>b. /\ ChildTypes /\ ScanTypes /\ DiscTypes /\ ParentTypes
      /\ DiscsTimely /\ ScanTimely /\ ScanPlaces
  BY Types DEF Timely, Places
<1>c. ASSUME scan' = NoScan, now' = now PROVE ScanTimely'
  <2>1. /\ scan'.time = 0 /\ scan'.last = 0 /\ scan'.latest = 0
        /\ scan'.found = {}
    BY <1>c DEF NoScan, None
  <2>2. 0 < now
    BY <1>a, <1>b DEF DiscsTimely
  <2> QED BY <1>a, <1>c, <2>1, <2>2 DEF ScanTimely, None
<1>1. CASE UNCHANGED <<now, scan, pair, ctime>>
  BY <1>1, <1>b DEF ScanTimely
<1>2. CASE UNCHANGED marks
  BY <1>1, <1>2 DEF marks
<1>3. CASE FinishSave \/ NextPriority \/ GaveUp \/ Moved \/ StopsCopying
  BY <1>1, <1>3 DEF FinishSave, NextPriority, GaveUp, CopyFails, Moved, Moves,
                    StopsCopying, childVars, shareVars, diskVars
<1>4. CASE Discs
  <2>1. CASE Tick
    <3>1. now' = now + 1 /\ UNCHANGED <<scan, pair, ctime>>
      BY <2>1 DEF Tick, childVars, shareVars, diskVars
    <3> QED BY <1>a, <1>b, <3>1 DEF ScanTimely
  <2>2. ASSUME NEW f \in Files, Arrive(f) PROVE ScanTimely'
    <3>1. /\ UNCHANGED <<now, scan, pair>> /\ ctime[f] = None
          /\ ctime' = [ctime EXCEPT ![f] = now]
      BY <2>2 DEF Arrive, childVars, shareVars
    <3>2. \A g \in scan.found : ctime'[g] = ctime[g]
      BY <1>a, <1>b, <3>1 DEF DiscsTimely
    <3> QED BY <1>b, <3>1, <3>2 DEF ScanTimely
  <2>3. ASSUME NEW f \in Files, Collect(f) PROVE ScanTimely'
    BY <1>1, <2>3 DEF Collect, childVars, shareVars
  <2> QED BY <1>4, <2>1, <2>2, <2>3 DEF Discs
<1>5. CASE Crash
  BY <1>c, <1>5 DEF Crash
<1>6. CASE Restart
  BY <1>c, <1>6, RestartDoes DEF childVars
<1>7. CASE ServeEnd
  <2>1. UNCHANGED <<now, scan, ctime>>
    BY <1>7 DEF ServeEnd, childVars, diskVars
  <2>2. ASSUME NEW f \in scan.found PROVE pair'[SourceOf[f]].cleared < ctime[f]
    <3>1. /\ SourceOf[f] \in Sources /\ ctime[f] \in Nat /\ ctime[f] # None
          /\ pair[SourceOf[f]].cleared < ctime[f] /\ pair[SourceOf[f]].cleared \in Int
      BY <1>a, <1>b DEF ScanTimely, DiscsTimely
    <3>2. \/ pair'[SourceOf[f]].cleared = pair[SourceOf[f]].cleared
          \/ pair'[SourceOf[f]].cleared = None
      BY <1>7, <3>1, ServeEndPairs
    <3> QED BY <3>1, <3>2 DEF None
  <2> QED BY <1>b, <2>1, <2>2 DEF ScanTimely
<1>8. CASE Kicked \/ Retries
  <2>1. UNCHANGED <<now, scan, ctime>>
        /\ \A s \in Sources : pair'[s].cleared = pair[s].cleared
    BY <1>8, <1>b, WakePairs
  <2> QED BY <1>a, <1>b, <2>1 DEF ScanTimely
<1>9. CASE Begun
  <2>1. PICK s \in Sources : ScanBegins(s)
    BY <1>9 DEF Begun
  <2>2. /\ UNCHANGED <<now, ctime, pair>> /\ (scan.src = {} \/ now > scan.prev)
        /\ scan' = [scan EXCEPT !.src = {s}, !.time = now]
    BY <2>1 DEF ScanBegins, diskVars, shareVars
  <2>3. /\ scan'.time = now /\ scan'.found = scan.found /\ scan'.prev = scan.prev
        /\ scan'.last = scan.last /\ scan'.latest = scan.latest
    BY <2>2, <1>b DEF ScanTypes
  <2>4. scan.prev < now
    BY <2>2, <1>a, <1>b DEF ScanPlaces, NoScan, None, DiscsTimely
  <2> QED BY <1>a, <1>b, <2>2, <2>3, <2>4 DEF ScanTimely
<1>10. CASE Read
  <2>1. PICK d \in SUBSET Files : ScanReads(d)
    BY <1>10 DEF Read
  <2>2. UNCHANGED <<now, ctime, pair>> /\ scan.time # None
    BY <2>1 DEF ScanReads, shareVars
  <2>3. /\ ScanLast \in Nat /\ \A f \in InDir : ctime[f] <= ScanLast
        /\ scan'.time = None
        /\ \/ /\ scan'.last = scan.last /\ scan'.latest = scan.latest
              /\ scan'.found = scan.found
           \/ /\ ~Again(ScanLast) /\ scan'.last = ScanLast
              /\ scan'.latest = (IF scan.latest >= ScanLast
                                 THEN scan.latest ELSE ScanLast)
              /\ scan'.found = scan.found \cup {f \in InDir : ~HasCopy(f)}
    BY <1>b, <2>1, ScanReadsDoes
  <2>4. CASE scan'.last = scan.last /\ scan'.latest = scan.latest
             /\ scan'.found = scan.found
    BY <1>a, <1>b, <2>2, <2>3, <2>4 DEF ScanTimely, None
  <2>5. CASE /\ ~Again(ScanLast) /\ scan'.last = ScanLast
             /\ scan'.latest = (IF scan.latest >= ScanLast
                                THEN scan.latest ELSE ScanLast)
             /\ scan'.found = scan.found \cup {f \in InDir : ~HasCopy(f)}
    <3>1. ScanLast < now
      <4>1. ScanLast < scan.time \/ ScanLast = scan.prev
        BY <2>5, <2>3, <1>a DEF Again
      <4> QED BY <4>1, <1>a, <1>b, <2>2, <2>3 DEF ScanTimely
    <3>2. scan'.last <= scan'.latest /\ scan'.latest < now
      BY <1>a, <1>b, <2>3, <2>5, <3>1 DEF ScanTimely
    <3>3. ASSUME NEW f \in scan'.found
          PROVE  pair[SourceOf[f]].cleared < ctime[f] /\ ctime[f] <= scan'.latest
      <4>1. CASE f \in scan.found
        BY <4>1, <1>a, <1>b, <2>3, <2>5 DEF ScanTimely
      <4>2. CASE f \in InDir /\ ~HasCopy(f)
        <5>1. f \in Files
          BY <4>2, <1>b DEF InDir, DiscTypes
        <5>2. ctime[f] <= ScanLast /\ ~(ctime[f] <= pair[SourceOf[f]].cleared)
          BY <4>2, <2>3 DEF HasCopy
        <5> QED BY <5>1, <5>2, <1>a, <2>3, <2>5
      <4> QED BY <4>1, <4>2, <2>5
    <3>4. scan'.time <= now /\ scan'.time = None
      BY <2>3, <1>a DEF None
    <3> QED BY <2>2, <3>2, <3>3, <3>4 DEF ScanTimely
  <2> QED BY <2>3, <2>4, <2>5
<1>11. CASE ReadFailed
  <2>1. /\ UNCHANGED <<now, ctime, pair>>
        /\ scan' = [scan EXCEPT !.time = None, !.dir = "done", !.ok = FALSE]
    BY <1>11 DEF ReadFailed, ScanFails, shareVars
  <2>2. /\ scan'.time = None /\ scan'.found = scan.found
        /\ scan'.last = scan.last /\ scan'.latest = scan.latest
    BY <2>1, <1>b DEF ScanTypes
  <2> QED BY <1>a, <1>b, <2>1, <2>2 DEF ScanTimely, None
<1>12. CASE Scanned
  BY <1>c, <1>12 DEF Scanned, PairScanned
<1>13. CASE Picked \/ Finished
  <2>1. child.pc # "scan" /\ UNCHANGED scan
    BY <1>b, <1>13, ChildMoves
  <2>2. scan = NoScan
    BY Zenon, <2>1, <1>b DEF ScanPlaces
  <2>3. now' = now
    BY Zenon, <1>13 DEF Picked, Finished, Pick, Copied
  <2> QED BY <1>c, <2>1, <2>2, <2>3
<1> QED BY <1>2, <1>3, <1>4, <1>5, <1>6, <1>7, <1>8, <1>9, <1>10, <1>11, <1>12,
           <1>13, StepIs, OthersLeaveMarks

LEMMA KnownBound ==
  ASSUME TransferTypeOK, ParentTypes', NEW t \in Int,
         \A s \in Sources : known[s] < t /\ pair'[s].cleared < t
  PROVE  \A s \in Sources : Known[s] < t
<1>1. ASSUME NEW s \in Sources PROVE Known[s] < t
  <2>1. Known[s] = known[s] \/ Known[s] = pair'[s].cleared
    BY Types, KnownIs
  <2> QED BY <2>1
<1> QED BY <1>1

LEMMA PairsTimelyStep ==
  ASSUME TransferTypeOK, Places, Counted, Timely, ParentTypes', [TransferNext]_vars
  PROVE  PairsTimely'
<1>a. /\ now \in Nat
      /\ \A f \in Files : SourceOf[f] \in Sources /\ ctime[f] \in Nat
      /\ list \subseteq Files
      /\ scan.last \in Nat /\ scan.latest \in Nat
      /\ \A s \in Sources :
           /\ pair[s].cleared \in Int /\ saved[s] \in Int /\ known[s] \in Nat
           /\ work[s].latest \in Nat /\ work[s].copied \in Int
  BY Numbers
<1>b. /\ ChildTypes /\ ScanTypes /\ DiscTypes /\ ParentTypes
      /\ DiscsTimely /\ ScanTimely /\ PairsTimely /\ ListTimely
  BY Types DEF Timely
<1>c. /\ -1 < now /\ 0 < now /\ NotSaved = -1 /\ Failed = -1 /\ None = 0
  BY <1>a, <1>b DEF DiscsTimely, NotSaved, Failed, None
<1>1. CASE UNCHANGED <<now, pair, saved, known, work>>
  BY <1>1, <1>b DEF PairsTimely
<1>2. CASE UNCHANGED marks
  BY Zenon, <1>1, <1>2 DEF marks
<1>3. CASE Begun \/ Read \/ ReadFailed \/ StopsCopying \/ Moved
  BY Zenon, <1>1, <1>3 DEF Begun, Read, ReadFailed, ScanBegins, ScanReads, ScanFails,
                    StopsCopying, Moved, Moves, childVars, shareVars, fileVars,
                    historyVars
<1>4. CASE Discs
  <2>1. CASE Tick
    <3>1. now' = now + 1 /\ UNCHANGED <<pair, saved, known, work>>
      BY <2>1 DEF Tick, childVars, shareVars, fileVars, historyVars
    <3> QED BY <1>a, <1>b, <3>1 DEF PairsTimely
  <2>2. ASSUME NEW f \in Files, Arrive(f) \/ Collect(f) PROVE PairsTimely'
    BY <1>1, <2>2 DEF Arrive, Collect, childVars, shareVars, fileVars, historyVars
  <2> QED BY <1>4, <2>1, <2>2 DEF Discs
<1>5. CASE Crash
  <2>1. /\ UNCHANGED <<now, saved>>
        /\ pair' = [s \in Sources |-> NoPair] /\ work' = [s \in Sources |-> NoWork]
        /\ known' = known \/ known' = [s \in Sources |-> None]
    BY <1>5 DEF Crash
  <2>2. \A s \in Sources : /\ pair'[s].cleared = -1
                           /\ work'[s].latest = 0 /\ work'[s].copied = 0
    BY <2>1, <1>c DEF NoPair, NoWork
  <2>3. \A s \in Sources : known'[s] < now
    BY <2>1, <1>b, <1>c DEF PairsTimely
  <2> QED BY <2>1, <2>2, <2>3, <1>b, <1>c DEF PairsTimely
<1>6. CASE Restart
  <2>1. UNCHANGED <<now, saved, known, work>>
        /\ \A s \in Sources : pair'[s].cleared = saved[s]
    BY <1>6, RestartDoes DEF childVars
  <2> QED BY <2>1, <1>b DEF PairsTimely
<1>7. CASE ServeEnd
  <2>1. UNCHANGED <<now, known, work>>
    BY <1>7, ServeEndPairs DEF childVars
  <2>2. ASSUME NEW s \in Sources PROVE pair'[s].cleared < now /\ saved'[s] < now
    <3>1. /\ pair'[s].cleared = pair[s].cleared \/ pair'[s].cleared = None
          /\ saved'[s] = saved[s] \/ saved'[s] = NotSaved
      BY <1>7, ServeEndPairs
    <3> QED BY <3>1, <1>b, <1>c DEF PairsTimely
  <2> QED BY <2>1, <2>2, <1>b DEF PairsTimely
<1>8. CASE FinishSave
  <2>1. /\ UNCHANGED <<now, pair, known, work>>
        /\ saved' = [s \in Sources |-> pair[s].cleared]
    BY <1>8 DEF FinishSave, shareVars, childVars, historyVars
  <2> QED BY <2>1, <1>b DEF PairsTimely
<1>9. CASE Kicked \/ Retries
  <2>1. UNCHANGED <<now, saved, known, work>>
        /\ \A s \in Sources : pair'[s].cleared = pair[s].cleared
    BY <1>9, <1>b, WakePairs
  <2> QED BY <2>1, <1>b DEF PairsTimely
<1>10. CASE NextPriority
  <2>1. UNCHANGED <<now, saved, known, pair>> /\ work' = [s \in Sources |-> NoWork]
    BY <1>10 DEF NextPriority, shareVars, fileVars, historyVars
  <2>2. \A s \in Sources : work'[s].latest = 0 /\ work'[s].copied = 0
    BY <2>1, <1>c DEF NoWork
  <2> QED BY <2>1, <2>2, <1>b, <1>c DEF PairsTimely
<1>11. CASE Scanned
  <2>1. PICK s \in Sources : PairScanned(s)
    BY <1>11 DEF Scanned
  <2>2. now' = now /\ known' = Known
    BY <2>1, ScannedPairs
  <2>3. ASSUME NEW q \in Sources PROVE pair'[q].cleared < now /\ saved'[q] < now
    <3>1. \/ pair'[q].cleared = pair[q].cleared
          \/ pair'[q].cleared = scan.last
      BY <2>1, ScannedPairs
    <3>2. saved'[q] = saved[q] \/ saved'[q] = NotSaved
      BY <2>1, ScannedPairs
    <3> QED BY <1>a, <3>1, <3>2, <1>b, <1>c DEF PairsTimely, ScanTimely
  <2>4. ASSUME NEW q \in Sources
        PROVE  work'[q].latest < now /\ work'[q].copied <= work'[q].latest
    <3>1. CASE q = s
      <4>1. work'[q].latest = scan.latest /\ work'[q].copied = 0
        BY <2>1, <3>1, <1>c, ScannedPairs
      <4> QED BY <4>1, <1>a, <1>b DEF ScanTimely
    <3>2. CASE q # s
      <4>1. work'[q] = work[q]
        BY <2>1, <3>2, ScannedPairs
      <4> QED BY <4>1, <1>b DEF PairsTimely
    <3> QED BY <3>1, <3>2
  <2>5. \A q \in Sources : Known[q] < now
    BY <2>3, <1>a, <1>b, KnownBound DEF PairsTimely
  <2> QED BY <2>2, <2>3, <2>4, <2>5 DEF PairsTimely
<1>12. CASE Picked
  <2>1. PICK f \in Files, r \in BOOLEAN : Pick(f, r)
    BY <1>12 DEF Picked
  <2> DEFINE s == SourceOf[f]
  <2>2. now' = now /\ known' = Known
    BY <2>1, PickPairs
  <2>3. ASSUME NEW q \in Sources PROVE pair'[q].cleared < now /\ saved'[q] < now
    <3>1. \/ pair'[q].cleared = pair[q].cleared
          \/ q = s /\ pair'[q].cleared = work[q].copied
      BY <2>1, PickPairs
    <3>2. saved'[q] = saved[q] \/ saved'[q] = NotSaved
      BY <2>1, PickPairs
    <3> QED BY <1>a, <3>1, <3>2, <1>b, <1>c DEF PairsTimely
  <2>4. ASSUME NEW q \in Sources
        PROVE  work'[q].latest < now /\ work'[q].copied <= work'[q].latest
    <3>1. \/ work' = work
          \/ work' = [work EXCEPT ![s].copied = Failed]
      BY <2>1, <1>b, PickDoes
    <3>2. /\ work'[q].latest = work[q].latest
          /\ work'[q].copied = work[q].copied \/ work'[q].copied = -1
      BY <3>1, <1>b, <1>c DEF ChildTypes
    <3> QED BY <3>2, <1>a, <1>b DEF PairsTimely
  <2>5. \A q \in Sources : Known[q] < now
    BY <2>3, <1>a, <1>b, KnownBound DEF PairsTimely
  <2> QED BY <2>2, <2>3, <2>4, <2>5 DEF PairsTimely
<1>13. CASE GaveUp
  <2>1. PICK f \in Files : CopyFails(f)
    BY <1>13 DEF GaveUp
  <2>2. UNCHANGED <<now, pair, saved, known>>
    BY <2>1 DEF CopyFails, shareVars, fileVars, historyVars
  <2>3. ASSUME NEW q \in Sources
        PROVE  work'[q].latest < now /\ work'[q].copied <= work'[q].latest
    <3>1. work' = [work EXCEPT ![SourceOf[f]].copied = Failed]
      BY <2>1, <1>b, CopyFailsDoes
    <3>2. /\ work'[q].latest = work[q].latest
          /\ work'[q].copied = work[q].copied \/ work'[q].copied = -1
      BY <3>1, <1>b, <1>c DEF ChildTypes
    <3> QED BY <3>2, <1>a, <1>b DEF PairsTimely
  <2> QED BY <2>2, <2>3, <1>b DEF PairsTimely
<1>14. CASE Finished
  <2>1. PICK f \in Files : Copied(f)
    BY <1>14 DEF Finished
  <2> DEFINE s == SourceOf[f]
  <2>2. now' = now /\ known' = Known /\ f \in list
    BY <2>1, CopiedPairs
  <2>3. ASSUME NEW q \in Sources PROVE pair'[q].cleared < now /\ saved'[q] < now
    <3>1. \/ pair'[q].cleared = pair[q].cleared
          \/ q = s /\ pair'[q].cleared = work[q].latest
      BY <2>1, CopiedPairs
    <3>2. saved'[q] = saved[q] \/ saved'[q] = NotSaved
      BY <2>1, CopiedPairs
    <3> QED BY <1>a, <3>1, <3>2, <1>b, <1>c DEF PairsTimely
  <2>4. ASSUME NEW q \in Sources
        PROVE  work'[q].latest < now /\ work'[q].copied <= work'[q].latest
    <3>1. work' = [work EXCEPT ![s].copied = ctime[f], ![s].n = work[s].n - 1]
      BY <2>1, <1>b, CopiedDoes
    <3>2. /\ work'[q].latest = work[q].latest
          /\ \/ work'[q].copied = work[q].copied
             \/ q = s /\ work'[q].copied = ctime[f]
      BY <3>1, <1>b DEF ChildTypes
    <3>3. ctime[f] <= work[s].latest
      BY <2>2, <1>b DEF ListTimely
    <3> QED BY <3>2, <3>3, <1>a, <1>b DEF PairsTimely
  <2>5. \A q \in Sources : Known[q] < now
    BY <2>3, <1>a, <1>b, KnownBound DEF PairsTimely
  <2> QED BY <2>2, <2>3, <2>4, <2>5 DEF PairsTimely
<1> QED BY <1>2, <1>3, <1>4, <1>5, <1>6, <1>7, <1>8, <1>9, <1>10, <1>11, <1>12,
           <1>13, <1>14, StepIs, OthersLeaveMarks

LEMMA ListTimelyStep ==
  ASSUME TransferTypeOK, Places, Counted, Timely, [TransferNext]_vars
  PROVE  ListTimely'
<1>a. /\ \A f \in Files : SourceOf[f] \in Sources /\ ctime[f] \in Nat
      /\ list \subseteq Files /\ scan.found \subseteq Files
      /\ ctime \in [Files -> Nat] /\ scan.latest \in Nat
      /\ \A s \in Sources :
           /\ pair[s].cleared \in Int
           /\ work[s].latest \in Nat /\ work[s].copied \in Int
  BY Numbers
<1>b. /\ ChildTypes /\ ScanTypes /\ ParentTypes /\ ScanPlaces /\ CopyPlaces
      /\ DiscsTimely /\ ScanTimely /\ PairsTimely /\ ListTimely
  BY Types DEF Timely, Places
<1>1. CASE list' = {}
  BY <1>1 DEF ListTimely
<1>2. CASE UNCHANGED <<ctime, list, pair, work>>
  BY <1>2, <1>b DEF ListTimely
<1>3. CASE UNCHANGED marks
  BY Zenon, <1>2, <1>3 DEF marks
<1>4. CASE FinishSave \/ Begun \/ Read \/ ReadFailed \/ Moved
  BY Zenon, <1>2, <1>4 DEF FinishSave, Begun, Read, ReadFailed, ScanBegins, ScanReads,
                    ScanFails, Moved, Moves, childVars, shareVars, diskVars
<1>5. CASE Discs
  <2>1. CASE Tick
    BY <1>2, <2>1 DEF Tick, childVars, shareVars, diskVars
  <2>2. ASSUME NEW f \in Files, Arrive(f) PROVE ListTimely'
    <3>1. /\ UNCHANGED <<list, pair, work>> /\ ctime[f] = None
          /\ ctime' = [ctime EXCEPT ![f] = now]
      BY <2>2 DEF Arrive, childVars, shareVars
    <3>2. \A g \in list : ctime'[g] = ctime[g]
      BY <1>a, <1>b, <3>1 DEF DiscsTimely
    <3> QED BY <1>b, <3>1, <3>2 DEF ListTimely
  <2>3. ASSUME NEW f \in Files, Collect(f) PROVE ListTimely'
    BY <1>2, <2>3 DEF Collect, childVars, shareVars
  <2> QED BY <1>5, <2>1, <2>2, <2>3 DEF Discs
<1>6. CASE Crash \/ StopsCopying
  BY <1>1, <1>6 DEF Crash, StopsCopying
<1>7. CASE Restart
  BY <1>1, <1>7, RestartDoes DEF childVars
<1>8. CASE NextPriority
  <2>1. list' = list /\ child.pc = "pri"
    BY <1>8, <1>b, NextPriorityDoes
  <2> QED BY <1>1, <2>1, <1>b DEF CopyPlaces, Active
<1>9. CASE ServeEnd
  <2>1. UNCHANGED <<list, work, ctime>>
    BY <1>9 DEF ServeEnd, childVars, diskVars
  <2>2. ASSUME NEW f \in list PROVE pair'[SourceOf[f]].cleared < ctime[f]
    <3>1. /\ SourceOf[f] \in Sources /\ ctime[f] \in Nat /\ ctime[f] # None
          /\ pair[SourceOf[f]].cleared < ctime[f] /\ pair[SourceOf[f]].cleared \in Int
      BY <1>a, <1>b DEF ListTimely, DiscsTimely
    <3>2. \/ pair'[SourceOf[f]].cleared = pair[SourceOf[f]].cleared
          \/ pair'[SourceOf[f]].cleared = None
      BY <1>9, <3>1, ServeEndPairs
    <3> QED BY <3>1, <3>2 DEF None
  <2> QED BY <1>b, <2>1, <2>2 DEF ListTimely
<1>10. CASE Kicked \/ Retries
  <2>1. UNCHANGED <<list, work, ctime>>
        /\ \A s \in Sources : pair'[s].cleared = pair[s].cleared
    BY <1>10, <1>b, WakePairs
  <2> QED BY <1>a, <1>b, <2>1 DEF ListTimely
<1>11. CASE Scanned
  <2>1. PICK s \in Sources : PairScanned(s)
    BY <1>11 DEF Scanned
  <2>2. scan.src = {s} /\ UNCHANGED ctime
    BY <2>1, ScannedPairs
  <2>3. Of(s, list) = {}
    BY <2>2, <1>b DEF ScanPlaces, Counted
  <2>4. ASSUME NEW f \in list PROVE SourceOf[f] \in Sources \ {s}
    BY <2>3, <1>a DEF Of
  <2>5. ASSUME NEW f \in list
        PROVE  /\ pair'[SourceOf[f]].cleared < ctime[f]
               /\ ctime[f] <= work'[SourceOf[f]].latest
    <3>1. SourceOf[f] \in Sources \ {s}
      BY <2>4
    <3>2. pair'[SourceOf[f]] = pair[SourceOf[f]] /\ work'[SourceOf[f]] = work[SourceOf[f]]
      BY <2>1, <3>1, ScannedPairs
    <3> QED BY <3>2, <1>b DEF ListTimely
  <2>6. ASSUME NEW f \in scan.found, pair' = pair
        PROVE  /\ pair'[SourceOf[f]].cleared < ctime[f]
               /\ ctime[f] <= work'[SourceOf[f]].latest
    <3>1. SourceOf[f] = s
      BY <2>2, <1>a DEF Counted
    <3>2. work'[s].latest = scan.latest
      BY <2>1, ScannedPairs
    <3> QED BY <3>1, <3>2, <2>6, <1>b DEF ScanTimely
  <2>7. \/ list' = list
        \/ list' = list \cup scan.found /\ pair' = pair
    BY <2>1, ScannedPairs
  <2> QED BY <2>2, <2>5, <2>6, <2>7 DEF ListTimely
<1>12. CASE Picked
  <2>1. PICK f \in Files, r \in BOOLEAN : Pick(f, r)
    BY <1>12 DEF Picked
  <2> DEFINE s == SourceOf[f]
  <2>2. /\ s \in Sources /\ \A g \in list : ctime[f] <= ctime[g]
        /\ list' \subseteq list /\ UNCHANGED ctime
    BY <2>1, <1>b, PickDoes, PickPairs
  <2>3. work' = work \/ work' = [work EXCEPT ![s].copied = Failed]
    BY <2>1, <1>b, PickDoes
  <2>4. \A q \in Sources : work'[q].latest = work[q].latest
    BY <2>3, <1>b DEF ChildTypes
  <2>5. ASSUME NEW g \in list PROVE pair'[SourceOf[g]].cleared < ctime[g]
    <3>1. /\ SourceOf[g] \in Sources /\ pair[SourceOf[g]].cleared < ctime[g]
          /\ g \in Files /\ f \in Files /\ ctime[f] <= ctime[g]
      BY <1>a, <1>b, <2>2 DEF ListTimely
    <3>2. \/ pair'[SourceOf[g]].cleared = pair[SourceOf[g]].cleared
          \/ /\ pair'[SourceOf[g]].cleared = work[s].copied
             /\ ctime[f] > work[s].copied
      BY <2>1, <3>1, PickPairs
    <3> QED BY <1>a, <2>2, <3>1, <3>2
  <2> QED BY <2>2, <2>4, <2>5, <1>a, <1>b DEF ListTimely
<1>13. CASE GaveUp
  <2>1. PICK f \in Files : CopyFails(f)
    BY <1>13 DEF GaveUp
  <2>2. UNCHANGED <<ctime, pair>> /\ list' \subseteq list
        /\ work' = [work EXCEPT ![SourceOf[f]].copied = Failed]
    BY <2>1 DEF CopyFails, GivesUp, shareVars, diskVars
  <2>3. \A q \in Sources : work'[q].latest = work[q].latest
    BY <2>2, <1>b DEF ChildTypes
  <2> QED BY <2>2, <2>3, <1>a, <1>b DEF ListTimely
<1>14. CASE Finished
  <2>1. PICK f \in Files : Copied(f)
    BY <1>14 DEF Finished
  <2> DEFINE s == SourceOf[f]
  <2>2. /\ UNCHANGED ctime /\ list' = list \ {f}
        /\ work' = [work EXCEPT ![s].copied = ctime[f], ![s].n = work[s].n - 1]
    BY <2>1, <1>b, CopiedDoes, CopiedPairs
  <2>3. \A q \in Sources : work'[q].latest = work[q].latest
    BY <2>2, <1>b DEF ChildTypes
  <2>4. ASSUME NEW g \in list \ {f} PROVE pair'[SourceOf[g]].cleared < ctime[g]
    <3>1. (pair' = pair \/ SourceOf[g] # s) => pair'[SourceOf[g]] = pair[SourceOf[g]]
      BY <2>1, <1>a, CopiedPairs
    <3>2. pair' # pair => SourceOf[g] # s
      <4>1. pair' # pair => Of(s, list \ {f}) = {}
        BY <2>1, CopiedPairs
      <4> QED BY <4>1 DEF Of
    <3>3. pair'[SourceOf[g]] = pair[SourceOf[g]]
      BY <3>1, <3>2
    <3> QED BY <3>3, <1>b DEF ListTimely
  <2> QED BY <2>2, <2>3, <2>4, <1>a, <1>b DEF ListTimely
<1> QED BY <1>3, <1>4, <1>5, <1>6, <1>7, <1>8, <1>9, <1>10, <1>11, <1>12, <1>13,
           <1>14, StepIs, OthersLeaveMarks

-----------------------------------------------------------------------------
(* Clearing does not get ahead of copying *)

LEMMA ReachedKept ==
  ASSUME NEW s, NEW t \in Int, NEW u \in Int, u <= t, NEW F, NEW G, NEW d, NEW e,
         NEW x \in [Files -> Nat], NEW y \in [Files -> Nat],
         ReachedBy(s, t, F, x, d), d \subseteq e,
         \A f \in F \cap Files : SourceOf[f] = s /\ x[f] <= u => f \in e \cup G,
         \A f \in Files : y[f] = x[f] \/ y[f] > u
  PROVE  ReachedBy(s, u, G, y, e)
<1> SUFFICES ASSUME NEW f \in Files, SourceOf[f] = s, y[f] # None, y[f] <= u
             PROVE  f \in e \cup G
  BY DEF ReachedBy
<1>1. y[f] \in Nat /\ x[f] \in Nat
  OBVIOUS
<1>2. x[f] = y[f]
  BY <1>1
<1>3. x[f] <= t
  BY <1>1, <1>2
<1>4. f \in d \cup F
  BY <1>2, <1>3 DEF ReachedBy
<1> QED BY <1>2, <1>4

\* Nothing has a ctime that stands for none.
LEMMA ReachedNone ==
  ASSUME NEW s, NEW t \in Int, t <= 0, NEW F, NEW x \in [Files -> Nat], NEW d
  PROVE  ReachedBy(s, t, F, x, d)
<1>1. ASSUME NEW f \in Files, x[f] # None, x[f] <= t PROVE FALSE
  <2>1. x[f] \in Nat
    OBVIOUS
  <2> QED BY <1>1, <2>1 DEF None
<1> QED BY <1>1 DEF ReachedBy

\* What is done remains done, and new files have new ctimes.
LEMMA DoneGrows ==
  ASSUME TransferTypeOK, [TransferNext]_vars
  PROVE  /\ Done \subseteq Done'
         /\ \A f \in Files : ctime'[f] = ctime[f] \/ ctime'[f] = now
<1>a. ctime \in [Files -> Nat]
  BY Numbers
<1>1. CASE UNCHANGED <<ctime, copied, torn>>
  BY <1>1 DEF Done
<1>2. CASE UNCHANGED marks
  BY <1>1, <1>2 DEF marks
<1>3. CASE Discs
  <2>1. ASSUME NEW f \in Files, Arrive(f)
        PROVE  /\ Done \subseteq Done'
               /\ \A g \in Files : ctime'[g] = ctime[g] \/ ctime'[g] = now
    <3>1. ctime' = [ctime EXCEPT ![f] = now] /\ UNCHANGED copied /\ torn \subseteq torn'
      BY <2>1 DEF Arrive
    <3> QED BY <3>1, <1>a DEF Done
  <2>2. ASSUME NEW f \in Files, Tick \/ Collect(f)
        PROVE  UNCHANGED <<ctime, copied, torn>>
    BY <2>2 DEF Tick, Collect, diskVars, historyVars
  <2>3. Tick => UNCHANGED <<ctime, copied, torn>>
    BY DEF Tick, diskVars, historyVars
  <2> QED BY <1>1, <1>3, <2>1, <2>2, <2>3 DEF Discs
<1>4. CASE Crash \/ Restart \/ ServeEnd \/ FinishSave \/ NextPriority
           \/ Kicked \/ Retries \/ Begun \/ StopsCopying \/ GaveUp
  <2>1. CASE Crash \/ Restart \/ ServeEnd \/ FinishSave \/ NextPriority
    BY Zenon, <1>1, <2>1 DEF Crash, Restart, ServeEnd, FinishSave, NextPriority,
                             diskVars, historyVars
  <2>2. CASE Kicked \/ Retries \/ Begun
    BY Zenon, <1>1, <2>2 DEF Kicked, Retries, Wake, Begun, ScanBegins,
                             diskVars, historyVars
  <2>3. CASE StopsCopying \/ GaveUp
    BY Zenon, <1>1, <2>3 DEF StopsCopying, GaveUp, CopyFails, diskVars, historyVars
  <2> QED BY <1>4, <2>1, <2>2, <2>3
<1>5. CASE Scanned \/ Picked \/ Finished
  <2>1. CASE Scanned
    BY Zenon, <1>1, <2>1 DEF Scanned, PairScanned, diskVars
  <2>2. CASE Picked
    BY Zenon, <1>1, <2>2 DEF Picked, Pick, diskVars
  <2>3. CASE Finished
    BY Zenon, <1>1, <2>3 DEF Finished, Copied, diskVars
  <2> QED BY <1>5, <2>1, <2>2, <2>3
<1>6. CASE Read \/ ReadFailed
  <2>1. UNCHANGED <<ctime, copied>> /\ torn \subseteq torn'
    BY <1>6 DEF Read, ReadFailed, ScanReads, ScanFails, historyVars
  <2> QED BY <2>1 DEF Done
<1>7. CASE Moved
  <2>1. UNCHANGED <<ctime, torn>> /\ copied \subseteq copied'
    BY <1>7 DEF Moved, Moves
  <2> QED BY <2>1 DEF Done
<1> QED BY <1>2, <1>3, <1>4, <1>5, <1>6, <1>7, StepIs, OthersLeaveMarks

\* A file that need not be copied is done.
LEMMA HasCopyDone ==
  ASSUME TransferTypeOK, DiscsTimely, PairsCleared,
         NEW f \in Files, ctime[f] # None, HasCopy(f)
  PROVE  f \in Done
<1>1. CASE f \in dest
  BY <1>1 DEF DiscsTimely, Done
<1>2. CASE ctime[f] <= pair[SourceOf[f]].cleared
  <2>1. SourceOf[f] \in Sources
    BY Numbers
  <2> QED BY <1>2, <2>1 DEF PairsCleared, Reached, ReachedBy
<1> QED BY <1>1, <1>2 DEF HasCopy

LEMMA DiscsClearedStep ==
  ASSUME TransferTypeOK, Timely, Cleared, [TransferNext]_vars
  PROVE  DiscsCleared'
<1>a. ctime \in [Files -> Nat] /\ DiscsCleared /\ PairsCleared /\ DiscsTimely
  BY Numbers DEF Cleared, Timely
<1>b. Done \subseteq Done'
  BY DoneGrows
<1>1. CASE UNCHANGED <<ctime, disk>>
  BY <1>1, <1>a, <1>b DEF DiscsCleared
<1>2. CASE UNCHANGED marks
  BY <1>1, <1>2 DEF marks
<1>3. CASE Discs
  <2>1. ASSUME NEW f \in Files, Arrive(f) PROVE DiscsCleared'
    <3>1. ctime' = [ctime EXCEPT ![f] = now] /\ disk' = disk \cup {f}
      BY <2>1 DEF Arrive
    <3> QED BY <3>1, <1>a, <1>b DEF DiscsCleared
  <2>2. ASSUME NEW f \in Files, Collect(f) PROVE UNCHANGED <<ctime, disk>>
    BY <2>2 DEF Collect
  <2>3. Tick => UNCHANGED <<ctime, disk>>
    BY DEF Tick, diskVars
  <2> QED BY <1>1, <1>3, <2>1, <2>2, <2>3 DEF Discs
<1>4. CASE Crash \/ Restart \/ ServeEnd \/ FinishSave \/ NextPriority
           \/ Kicked \/ Retries \/ Begun \/ StopsCopying
  <2>1. CASE Crash \/ Restart \/ ServeEnd \/ FinishSave \/ NextPriority
    BY Zenon, <1>1, <2>1 DEF Crash, Restart, ServeEnd, FinishSave, NextPriority,
                             diskVars
  <2>2. CASE Kicked \/ Retries \/ Begun \/ StopsCopying
    BY Zenon, <1>1, <2>2 DEF Kicked, Retries, Wake, Begun, ScanBegins, StopsCopying,
                             diskVars
  <2> QED BY <1>4, <2>1, <2>2
<1>5. CASE Scanned \/ Picked \/ Finished \/ GaveUp \/ Moved
  BY Zenon, <1>1, <1>5 DEF Scanned, PairScanned, Picked, Pick, Finished, Copied, GaveUp,
                    CopyFails, Moved, Moves, diskVars
<1>6. CASE Read \/ ReadFailed
  <2>1. PICK d \in SUBSET Files : ScanReads(d) \/ ScanFails(d)
    BY <1>6 DEF Read, ReadFailed
  <2>2. /\ UNCHANGED ctime /\ disk' = disk \ d
        /\ \A f \in d : HasCopy(f)
    BY <2>1 DEF ScanReads, ScanFails
  <2>3. \A f \in d : ctime[f] # None => f \in Done
    BY <2>2, <1>a, HasCopyDone
  <2> QED BY <2>2, <2>3, <1>a, <1>b DEF DiscsCleared
<1> QED BY <1>2, <1>3, <1>4, <1>5, <1>6, StepIs, OthersLeaveMarks

LEMMA ReachedStays ==
  ASSUME TransferTypeOK, DiscTypes', [TransferNext]_vars,
         NEW s, NEW t \in Int, t < now, NEW u \in Int, u <= t, NEW F, NEW G,
         ReachedBy(s, t, F, ctime, Done),
         \A f \in F \cap Files : SourceOf[f] = s /\ ctime[f] <= u => f \in Done' \cup G
  PROVE  ReachedBy(s, u, G, ctime', Done')
<1>1. ctime \in [Files -> Nat] /\ now \in Nat
  BY Numbers
<1>2. ctime' \in [Files -> Nat]
  BY DEF DiscTypes
<1>3. Done \subseteq Done'
  BY DoneGrows
<1>4. \A f \in Files : ctime'[f] = ctime[f] \/ ctime'[f] > u
  <2>1. \A f \in Files : ctime'[f] = ctime[f] \/ ctime'[f] = now
    BY DoneGrows
  <2>2. u < now
    BY <1>1
  <2> QED BY <2>1, <2>2
<1> QED BY <1>1, <1>2, <1>3, <1>4, ReachedKept

\* A source of which a file is listed has work.
LEMMA ListedWork ==
  ASSUME TransferTypeOK, Counted, NEW f \in list, child.pc = "pick",
         work[SourceOf[f]].copied # Failed
  PROVE  HasWork(SourceOf[f])
<1> DEFINE s == SourceOf[f]
<1>1. f \in Files /\ s \in Sources /\ list \subseteq Files
  BY Numbers
<1>2. work[s].n = Cardinality(Of(s, list)) /\ Active
  BY <1>1 DEF Counted, Active
<1>3. IsFiniteSet(Of(s, list)) /\ f \in Of(s, list)
  <2>1. Of(s, list) \subseteq Files
    BY <1>1 DEF Of
  <2> QED BY <2>1, FS_Subset, TransferAssumption DEF Of
<1>4. Cardinality(Of(s, list)) \in Nat \ {0}
  BY <1>3, FS_CardinalityType, FS_EmptySet
<1> QED BY <1>2, <1>4 DEF HasWork

LEMMA PairsClearedStep ==
  ASSUME TransferTypeOK, DiscTypes', Places, Counted, Timely, Cleared,
         [TransferNext]_vars
  PROVE  PairsCleared'
<1>a. /\ now \in Nat /\ scan.last \in Nat /\ scan.latest \in Nat
      /\ \A f \in Files : SourceOf[f] \in Sources /\ ctime[f] \in Nat
      /\ list \subseteq Files
      /\ \A s \in Sources :
           /\ pair[s].cleared \in Int /\ saved[s] \in Int
           /\ work[s].latest \in Nat /\ work[s].copied \in Int
  BY Numbers
<1>b. /\ ChildTypes /\ ScanTypes /\ ParentTypes /\ ScanPlaces /\ CopyPlaces
      /\ ScanTimely /\ PairsTimely /\ ListTimely
      /\ PairsCleared /\ ScanCleared /\ WorkCleared
  BY Types DEF Timely, Places, Cleared
<1>c. ctime' \in [Files -> Nat] /\ ctime \in [Files -> Nat]
  BY Numbers DEF DiscTypes
<1>d. ASSUME NEW s \in Sources
      PROVE  /\ ReachedBy(s, pair[s].cleared, {}, ctime', Done')
             /\ ReachedBy(s, saved[s], {}, ctime', Done')
             /\ \A t \in Int : t <= 0 => ReachedBy(s, t, {}, ctime', Done')
  <2>1. ReachedBy(s, pair[s].cleared, {}, ctime, Done) /\ pair[s].cleared < now
    BY <1>b DEF PairsCleared, PairsTimely, Reached
  <2>2. ReachedBy(s, saved[s], {}, ctime, Done) /\ saved[s] < now
    BY <1>b DEF PairsCleared, PairsTimely, Reached
  <2>3. ReachedBy(s, pair[s].cleared, {}, ctime', Done')
    BY <1>a, <2>1, ReachedStays
  <2>4. ReachedBy(s, saved[s], {}, ctime', Done')
    BY <1>a, <2>2, ReachedStays
  <2> QED BY <2>3, <2>4, <1>c, ReachedNone
<1>e. NotSaved = -1 /\ Failed = -1 /\ None = 0
  BY DEF NotSaved, Failed, None
<1> SUFFICES ASSUME NEW s \in Sources
             PROVE  /\ ReachedBy(s, pair'[s].cleared, {}, ctime', Done')
                    /\ ReachedBy(s, saved'[s], {}, ctime', Done')
  BY DEF PairsCleared, Reached
<1>1. CASE UNCHANGED <<pair, saved>>
  BY <1>1, <1>d
<1>2. CASE UNCHANGED marks
  BY Zenon, <1>1, <1>2 DEF marks
<1>3. CASE Discs \/ NextPriority \/ Begun \/ Read \/ ReadFailed \/ StopsCopying
           \/ Moved \/ GaveUp
  BY Zenon, <1>1, <1>3 DEF Discs, Tick, Arrive, Collect, NextPriority, Begun, Read,
                    ReadFailed, ScanBegins, ScanReads, ScanFails, StopsCopying,
                    Moved, Moves, GaveUp, CopyFails, shareVars, fileVars
<1>4. CASE Crash
  <2>1. pair'[s].cleared = -1 /\ saved' = saved
    BY <1>4, <1>e DEF Crash, NoPair
  <2> QED BY <2>1, <1>d
<1>5. CASE Restart
  <2>1. pair'[s].cleared = saved[s] /\ saved' = saved
    BY <1>5, RestartDoes
  <2> QED BY <2>1, <1>d
<1>6. CASE ServeEnd
  <2>1. /\ pair'[s].cleared = pair[s].cleared \/ pair'[s].cleared = 0
        /\ saved'[s] = saved[s] \/ saved'[s] = -1
    BY <1>6, <1>e, ServeEndPairs
  <2> QED BY <2>1, <1>d
<1>7. CASE FinishSave
  <2>1. pair' = pair /\ saved'[s] = pair[s].cleared
    BY <1>7 DEF FinishSave, shareVars
  <2> QED BY <2>1, <1>d
<1>8. CASE Kicked \/ Retries
  <2>1. pair'[s].cleared = pair[s].cleared /\ saved' = saved
    BY <1>8, <1>b, WakePairs
  <2> QED BY <2>1, <1>d
<1>9. CASE Scanned
  <2>1. PICK q \in Sources : PairScanned(q)
    BY <1>9 DEF Scanned
  <2>2. saved'[s] = saved[s] \/ saved'[s] = -1
    BY <2>1, <1>e, ScannedPairs
  <2>3. ReachedBy(s, pair'[s].cleared, {}, ctime', Done')
    <3>1. CASE pair'[s] = pair[s]
      BY <3>1, <1>d
    <3>2. CASE pair'[s] # pair[s]
      <4>1. /\ s = q /\ scan.ok /\ scan.found = {} /\ scan.src = {s}
            /\ scan.dir = "done" /\ pair'[s].cleared = scan.last
        BY <2>1, <3>2, ScannedPairs
      <4>2. ReachedBy(s, scan.latest, {}, ctime, Done)
        BY <4>1, <1>b DEF ScanCleared, Complete, Reached
      <4>3. scan.last <= scan.latest /\ scan.latest < now
        BY <1>b DEF ScanTimely
      <4> QED BY <1>a, <4>1, <4>2, <4>3, ReachedStays
    <3> QED BY <3>1, <3>2
  <2> QED BY <2>2, <2>3, <1>d
<1>10. CASE Picked
  <2>1. PICK f \in Files, r \in BOOLEAN : Pick(f, r)
    BY <1>10 DEF Picked
  <2>2. saved'[s] = saved[s] \/ saved'[s] = -1
    BY <2>1, <1>e, PickPairs
  <2>3. ReachedBy(s, pair'[s].cleared, {}, ctime', Done')
    <3>1. CASE pair'[s] = pair[s]
      BY <3>1, <1>d
    <3>2. CASE pair'[s] # pair[s]
      <4>1. /\ s = SourceOf[f] /\ work[s].copied # Failed
            /\ ctime[f] > work[s].copied /\ pair'[s].cleared = work[s].copied
        BY <2>1, <3>2, PickPairs
      <4>2. /\ f \in list /\ child.pc = "pick"
            /\ \A g \in list : ctime[f] <= ctime[g]
        BY <2>1, <1>b, PickDoes
      <4>3. HasWork(s)
        BY <4>1, <4>2, ListedWork
      <4>4. ReachedBy(s, work[s].latest, list, ctime, Done)
        BY <4>3, <1>b DEF WorkCleared, Reached
      <4>5. work[s].copied <= work[s].latest /\ work[s].latest < now
        BY <1>b DEF PairsTimely
      <4>6. \A g \in list \cap Files : ~(ctime[g] <= work[s].copied)
        BY <4>1, <4>2, <1>a
      <4> QED BY <1>a, <4>1, <4>4, <4>5, <4>6, ReachedStays
    <3> QED BY <3>1, <3>2
  <2> QED BY <2>2, <2>3, <1>d
<1>11. CASE Finished
  <2>1. PICK f \in Files : Copied(f)
    BY <1>11 DEF Finished
  <2>2. saved'[s] = saved[s] \/ saved'[s] = -1
    BY <2>1, <1>e, CopiedPairs
  <2>3. ReachedBy(s, pair'[s].cleared, {}, ctime', Done')
    <3>1. CASE pair'[s] = pair[s]
      BY <3>1, <1>d
    <3>2. CASE pair'[s] # pair[s]
      <4>1. /\ s = SourceOf[f] /\ work[s].copied # Failed /\ work[s].n > 0
            /\ Of(s, list \ {f}) = {} /\ pair'[s].cleared = work[s].latest
            /\ UNCHANGED <<copied, torn>>
        BY <2>1, <3>2, CopiedPairs
      <4>2. child.pc = "moved" /\ f \in copied
        BY <2>1, <1>b, CopiedDoes DEF CopyPlaces
      <4>3. ReachedBy(s, work[s].latest, list, ctime, Done)
        <5>1. HasWork(s)
          BY <4>1, <4>2 DEF HasWork, Active
        <5> QED BY <5>1, <1>b DEF WorkCleared, Reached
      <4>4. work[s].latest < now
        BY <1>b DEF PairsTimely
      <4>5. \A g \in list \cap Files : SourceOf[g] = s => g \in Done'
        BY <4>1, <4>2 DEF Of, Done
      <4> QED BY <1>a, <4>1, <4>3, <4>4, <4>5, ReachedStays
    <3> QED BY <3>1, <3>2
  <2> QED BY <2>2, <2>3, <1>d
<1> QED BY <1>2, <1>3, <1>4, <1>5, <1>6, <1>7, <1>8, <1>9, <1>10, <1>11, StepIs,
           OthersLeaveMarks

\* All files of a directory of which a scan is completed are done or found.
LEMMA DirectoryRead ==
  ASSUME TransferTypeOK, Timely, Cleared, NEW f \in Files,
         ctime[f] # None, scan.src = {SourceOf[f]}, DirOf[f] = scan.dir
  PROVE  f \in Done \/ (f \in InDir /\ ~HasCopy(f))
<1>1. f \notin disk => f \in Done
  BY DEF Cleared, DiscsCleared
<1>2. f \in disk => f \in InDir
  BY DEF InDir
<1>3. HasCopy(f) => f \in Done
  BY HasCopyDone DEF Cleared, Timely
<1> QED BY <1>1, <1>2, <1>3

LEMMA ScanClearedStep ==
  ASSUME TransferTypeOK, DiscTypes', Places, Timely, Cleared, [TransferNext]_vars
  PROVE  ScanCleared'
<1>a. /\ now \in Nat /\ scan.latest \in Nat /\ ctime \in [Files -> Nat]
      /\ \A f \in Files : ctime[f] \in Nat
  BY Numbers
<1>b. /\ ChildTypes /\ ScanTypes /\ DiscTypes /\ ScanPlaces /\ ScanTimely /\ ScanCleared
  BY Types DEF Timely, Places, Cleared
<1>c. Done \subseteq Done' /\ \A f \in Files : ctime'[f] = ctime[f] \/ ctime'[f] = now
  BY DoneGrows
<1>d. ASSUME scan' = NoScan PROVE ScanCleared'
  BY <1>d DEF ScanCleared, NoScan
<1>e. ASSUME NEW s \in Sources, scan.src = {s}, Complete
      PROVE  ReachedBy(s, scan.latest, scan.found, ctime', Done')
  <2>1. ReachedBy(s, scan.latest, scan.found, ctime, Done)
    BY <1>b, <1>e DEF ScanCleared, Reached
  <2>2. scan.latest < now
    BY <1>b DEF ScanTimely
  <2> QED BY <1>a, <2>1, <2>2, ReachedStays
<1>1. ASSUME UNCHANGED ctime,
             scan'.src = scan.src, scan'.found = scan.found, scan'.latest = scan.latest,
             scan'.dir = scan.dir, scan'.ok = scan.ok
      PROVE  ScanCleared'
  <2>1. ASSUME NEW s \in Sources, scan'.src = {s}, scan'.dir = "xml"
        PROVE  MainRead(s)'
    BY <1>1, <1>b, <1>c, <2>1 DEF ScanCleared, MainRead
  <2>2. ASSUME NEW s \in Sources, scan'.src = {s}, Complete'
        PROVE  ReachedBy(s, scan'.latest, scan'.found, ctime', Done')
    BY <1>1, <1>e, <2>2 DEF Complete
  <2> QED BY <2>1, <2>2 DEF ScanCleared, Reached
<1>2. CASE UNCHANGED <<scan, ctime>>
  BY <1>1, <1>2
<1>3. CASE UNCHANGED marks
  BY <1>2, <1>3 DEF marks
<1>4. CASE Discs
  <2>1. ASSUME NEW f \in Files, Arrive(f) PROVE ScanCleared'
    <3>1. /\ UNCHANGED scan /\ ctime' = [ctime EXCEPT ![f] = now]
          /\ (DirOf[f] = "main" /\ scan.src = {SourceOf[f]} /\ scan.dir = "xml")
               => f \in torn'
      BY <2>1 DEF Arrive, childVars
    <3>2. ASSUME NEW s \in Sources, scan'.src = {s}, scan'.dir = "xml"
          PROVE  MainRead(s)'
      <4>1. MainRead(s)
        BY <3>1, <3>2, <1>b DEF ScanCleared
      <4>2. ASSUME NEW g \in Files, SourceOf[g] = s, DirOf[g] = "main", ctime'[g] # None
            PROVE  g \in Done' \cup scan'.found
        <5>1. CASE g = f
          BY <3>1, <3>2, <4>2, <5>1 DEF Done
        <5>2. CASE g # f
          BY <3>1, <4>1, <4>2, <5>2, <1>a, <1>c DEF MainRead
        <5> QED BY <5>1, <5>2
      <4> QED BY <4>2 DEF MainRead
    <3>3. ASSUME NEW s \in Sources, scan'.src = {s}, Complete'
          PROVE  ReachedBy(s, scan'.latest, scan'.found, ctime', Done')
      BY <3>1, <3>3, <1>e DEF Complete
    <3> QED BY <3>2, <3>3 DEF ScanCleared, Reached
  <2>2. ASSUME NEW f \in Files, Collect(f) PROVE ScanCleared'
    BY <1>2, <2>2 DEF Collect, childVars
  <2>3. CASE Tick
    BY <1>2, <2>3 DEF Tick, childVars, diskVars
  <2> QED BY <1>4, <2>1, <2>2, <2>3 DEF Discs
<1>5. CASE Crash \/ Scanned
  BY <1>d, <1>5 DEF Crash, Scanned, PairScanned
<1>6. CASE Restart
  BY Zenon, <1>d, <1>6, RestartDoes DEF childVars
<1>7. CASE ServeEnd \/ FinishSave \/ NextPriority \/ Kicked \/ Retries
           \/ StopsCopying \/ Moved \/ GaveUp \/ Picked \/ Finished
  BY Zenon, <1>2, <1>7 DEF ServeEnd, FinishSave, NextPriority, Kicked, Retries, Wake,
                    StopsCopying, Moved, Moves, GaveUp, CopyFails, Picked, Pick,
                    Finished, Copied, childVars, diskVars
<1>8. CASE Begun
  <2>1. PICK s \in Sources : ScanBegins(s)
    BY <1>8 DEF Begun
  <2>2. /\ UNCHANGED ctime /\ scan.dir # "done"
        /\ scan.src = {} \/ scan.src = {s}
        /\ scan' = [scan EXCEPT !.src = {s}, !.time = now]
    BY <2>1 DEF ScanBegins, diskVars
  <2>3. /\ scan'.src = {s} /\ scan'.found = scan.found /\ scan'.ok = scan.ok
        /\ scan'.dir = scan.dir /\ scan'.latest = scan.latest
    BY <2>2, <1>b DEF ScanTypes
  <2>4. CASE scan.src = {s}
    BY <1>1, <2>2, <2>3, <2>4
  <2>5. CASE scan.src = {}
    <3>1. scan'.dir = "main"
      BY <2>3, <2>5, <1>b DEF ScanPlaces, NoScan
    <3> QED BY <3>1 DEF ScanCleared, Complete
  <2> QED BY <2>2, <2>4, <2>5
<1>9. CASE Read
  <2>1. PICK d \in SUBSET Files : ScanReads(d)
    BY <1>9 DEF Read
  <2>2. UNCHANGED ctime /\ scan.time # None
    BY <2>1 DEF ScanReads
  <2>3. /\ scan'.src = scan.src /\ scan'.ok = scan.ok
        /\ \/ /\ scan'.dir = scan.dir
              /\ scan'.latest = scan.latest /\ scan'.found = scan.found
           \/ /\ scan'.dir = NextDir
              /\ scan'.found = scan.found \cup {f \in InDir : ~HasCopy(f)}
    BY <1>b, <2>1, ScanReadsDoes
  <2>4. CASE /\ scan'.dir = scan.dir
             /\ scan'.latest = scan.latest /\ scan'.found = scan.found
    BY <1>1, <2>2, <2>3, <2>4
  <2>5. CASE /\ scan'.dir = NextDir
             /\ scan'.found = scan.found \cup {f \in InDir : ~HasCopy(f)}
    <3>1. scan.dir # "done"
      BY <2>2, <1>b DEF ScanPlaces
    <3>2. ASSUME NEW f \in Files, scan.src = {SourceOf[f]}, ctime[f] # None,
                 DirOf[f] = scan.dir \/ (DirOf[f] = "main" /\ scan.dir = "xml")
          PROVE  f \in Done' \cup scan'.found
      <4>1. CASE DirOf[f] = scan.dir
        BY <3>2, <4>1, <1>c, <2>5, DirectoryRead
      <4>2. CASE DirOf[f] = "main" /\ scan.dir = "xml"
        <5>1. SourceOf[f] \in Sources
          BY TransferAssumption
        <5>2. MainRead(SourceOf[f])
          BY <3>2, <4>2, <5>1, <1>b DEF ScanCleared
        <5> QED BY <3>2, <4>2, <5>2, <1>c, <2>5 DEF MainRead
      <4> QED BY <3>2, <4>1, <4>2
    <3>3. ASSUME NEW s \in Sources, scan'.src = {s}, scan'.dir = "xml"
          PROVE  MainRead(s)'
      <4>1. scan.dir = "main"
        BY <2>5, <3>3, <3>1 DEF NextDir
      <4> QED BY <2>2, <2>3, <3>2, <3>3, <4>1 DEF MainRead
    <3>4. ASSUME NEW s \in Sources, scan'.src = {s}, Complete'
          PROVE  ReachedBy(s, scan'.latest, scan'.found, ctime', Done')
      <4>1. scan.dir = "xml" \/ ~HasXml(s)
        <5>1. NextDir = "done" /\ s \in scan.src
          BY <2>3, <2>5, <3>4 DEF Complete
        <5>2. scan.dir \in {"main", "xml"}
          BY <3>1, <1>b DEF ScanTypes
        <5> QED BY <5>1, <5>2 DEF NextDir
      <4>2. ASSUME NEW f \in Files, SourceOf[f] = s
            PROVE  DirOf[f] = scan.dir \/ (DirOf[f] = "main" /\ scan.dir = "xml")
        <5>1. DirOf[f] \in {"main", "xml"} /\ scan.dir \in {"main", "xml"}
          BY TransferAssumption, <3>1, <1>b DEF ScanTypes
        <5>2. ~HasXml(s) => DirOf[f] = "main"
          BY <4>2, <5>1 DEF HasXml
        <5> QED BY <4>1, <5>1, <5>2
      <4> QED BY <2>2, <2>3, <3>2, <3>4, <4>2 DEF ReachedBy
    <3> QED BY <3>3, <3>4 DEF ScanCleared, Reached
  <2> QED BY <2>3, <2>4, <2>5
<1>10. CASE ReadFailed
  <2>1. PICK d \in SUBSET Files : ScanFails(d)
    BY <1>10 DEF ReadFailed
  <2>2. /\ UNCHANGED ctime /\ scan.time # None
        /\ scan' = [scan EXCEPT !.time = None, !.dir = "done", !.ok = FALSE]
        /\ scan.found # {} => torn' = torn \cup {f \in InDir : ~HasCopy(f)}
    BY <2>1 DEF ScanFails
  <2>3. /\ scan'.src = scan.src /\ scan'.found = scan.found /\ scan'.dir = "done"
        /\ scan'.ok = FALSE
    BY <2>2, <1>b DEF ScanTypes
  <2>4. ASSUME NEW s \in Sources, scan'.src = {s}, Complete'
        PROVE  ReachedBy(s, scan'.latest, scan'.found, ctime', Done')
    <3>1. scan.found # {} /\ scan.dir = "xml"
      BY <2>2, <2>3, <2>4, <1>b DEF Complete, ScanPlaces, ScanTypes
    <3>2. ASSUME NEW f \in Files, SourceOf[f] = s, ctime[f] # None
          PROVE  f \in Done' \cup scan'.found
      <4>1. DirOf[f] \in {"main", "xml"}
        BY TransferAssumption
      <4>2. CASE DirOf[f] = "main"
        <5>1. MainRead(s)
          BY <2>3, <2>4, <3>1, <1>b DEF ScanCleared
        <5> QED BY <3>2, <4>2, <5>1, <1>c, <2>3 DEF MainRead
      <4>3. CASE DirOf[f] = "xml"
        <5>1. f \in Done \/ f \in torn'
          BY <2>2, <2>3, <2>4, <3>1, <3>2, <4>3, DirectoryRead
        <5> QED BY <5>1, <1>c DEF Done
      <4> QED BY <4>1, <4>2, <4>3
    <3> QED BY <2>2, <3>2 DEF ReachedBy
  <2> QED BY <2>3, <2>4 DEF ScanCleared, Reached
<1> QED BY <1>3, <1>4, <1>5, <1>6, <1>7, <1>8, <1>9, <1>10, StepIs,
           OthersLeaveMarks

LEMMA ActiveStays ==
  ASSUME ChildTypes,
         \/ Clients \/ UNCHANGED vars \/ ServeStart \/ TimesOut \/ AllScanned
         \/ NotePid \/ FirstOutput \/ OutputEnds
         \/ ComesAlive \/ Updates \/ Exited
  PROVE  Active' => Active
<1>1. CASE UNCHANGED childVars
  BY <1>1 DEF childVars, Active
<1>2. CASE TimesOut
  <2>1. child' = [child EXCEPT !.pc = "timedout"]
    BY <1>2 DEF TimesOut
  <2> QED BY <2>1 DEF ChildTypes, Active
<1>3. CASE AllScanned \/ NotePid \/ FirstOutput \/ OutputEnds
  BY <1>3 DEF AllScanned, NotePid, FirstOutput, OutputEnds, Active
<1> QED BY <1>1, <1>2, <1>3, OthersLeaveChild

\* Steps that add no work of a pair.
LEMMA NoNewWork ==
  ASSUME TransferTypeOK, Places, [TransferNext]_vars, ~Scanned, NEW s \in Sources,
         HasWork(s)'
  PROVE  /\ HasWork(s) /\ work'[s].latest = work[s].latest
         /\ work'[s].copied = work[s].copied
            \/ \E f \in Files : Copied(f) /\ s = SourceOf[f] /\ work'[s].copied = ctime[f]
         /\ \A f \in list : SourceOf[f] = s => f \in list' \cup Done'
<1>a. /\ ChildTypes /\ ScanTypes /\ CopyPlaces
  BY Types DEF Places
<1>b. NoWork.n = 0
  BY DEF NoWork
<1>1. CASE UNCHANGED <<work, list>> /\ (Active' => Active)
  BY <1>1 DEF HasWork
<1>2. CASE \/ Clients \/ UNCHANGED vars \/ ServeStart \/ TimesOut \/ AllScanned
           \/ NotePid \/ FirstOutput \/ OutputEnds
           \/ ComesAlive \/ Updates \/ Exited
  <2>1. UNCHANGED <<work, list>>
    BY <1>2, OthersLeaveMarks DEF marks
  <2> QED BY <1>1, <1>2, <1>a, <2>1, ActiveStays
<1>3. CASE Discs \/ Restart \/ ServeEnd \/ FinishSave
  BY <1>1, <1>3, OthersLeaveChild DEF childVars, Active
<1>4. CASE Crash
  BY <1>4 DEF Crash, IdleChild, HasWork, Active
<1>5. CASE Kicked \/ Retries
  BY Zenon, <1>5, WakeDoes DEF HasWork, Active
<1>6. CASE NextPriority
  <2>1. work' = [t \in Sources |-> NoWork]
    BY <1>6, <1>a, NextPriorityDoes
  <2> QED BY <2>1, <1>b DEF HasWork
<1>7. CASE Begun \/ Read \/ ReadFailed
  BY <1>1, <1>7 DEF Begun, Read, ReadFailed, ScanBegins, ScanReads, ScanFails, Active
<1>8. CASE StopsCopying
  <2>1. \/ child' = [child EXCEPT !.pc = "pri"]
        \/ child' = [child EXCEPT !.pc = "wait"]
    BY <1>8 DEF StopsCopying
  <2>2. ~Active'
    BY <2>1, <1>a DEF ChildTypes, Active
  <2> QED BY <2>2 DEF HasWork
<1>9. CASE Picked
  <2>1. PICK f \in Files, r \in BOOLEAN : Pick(f, r)
    BY <1>9 DEF Picked
  <2>2. /\ child.pc = "pick" /\ SourceOf[f] \in Sources
        /\ \/ work[SourceOf[f]].copied = Failed /\ UNCHANGED work /\ list' = list \ {f}
           \/ UNCHANGED <<work, list>>
           \/ /\ work' = [work EXCEPT ![SourceOf[f]].copied = Failed]
              /\ list' = list \ {f}
    BY <2>1, <1>a, PickDoes
  <2>3. CASE UNCHANGED <<work, list>>
    BY <1>1, <2>2, <2>3 DEF Active
  <2>4. CASE s = SourceOf[f] /\ ~(UNCHANGED <<work, list>>)
    <3>1. work'[s].copied = Failed
      BY <2>2, <2>4, <1>a DEF ChildTypes
    <3> QED BY <3>1 DEF HasWork
  <2>5. CASE s # SourceOf[f]
    <3>1. work'[s] = work[s]
      BY <2>2, <2>5, <1>a DEF ChildTypes
    <3> QED BY <2>2, <2>5, <3>1 DEF HasWork, Active
  <2> QED BY <2>3, <2>4, <2>5
<1>10. CASE GaveUp
  <2>1. PICK f \in Files : CopyFails(f)
    BY <1>10 DEF GaveUp
  <2>2. /\ child.pc = "check" /\ SourceOf[f] \in Sources
        /\ work' = [work EXCEPT ![SourceOf[f]].copied = Failed]
        /\ list' = list \ {f}
    BY <2>1, <1>a, CopyFailsDoes
  <2>3. s # SourceOf[f]
    <3>1. work'[SourceOf[f]].copied = Failed
      BY <2>2, <1>a DEF ChildTypes
    <3> QED BY <3>1 DEF HasWork
  <2>4. work'[s] = work[s]
    BY <2>2, <2>3, <1>a DEF ChildTypes
  <2> QED BY <2>2, <2>3, <2>4 DEF HasWork, Active
<1>11. CASE Moved
  <2>1. PICK f \in Files : Moves(f)
    BY <1>11 DEF Moved
  <2>2. child.pc = "check" /\ UNCHANGED <<work, list>>
    BY <2>1, <1>a, MovesDoes
  <2> QED BY <1>1, <2>2 DEF Active
<1>12. CASE Finished
  <2>1. PICK f \in Files : Copied(f)
    BY <1>12 DEF Finished
  <2>2. /\ child.pc = "moved" /\ SourceOf[f] \in Sources
        /\ work' = [work EXCEPT ![SourceOf[f]].copied = ctime[f],
                                ![SourceOf[f]].n = work[SourceOf[f]].n - 1]
        /\ list' = list \ {f} /\ f \in copied /\ copied' = copied
    BY <2>1, <1>a, CopiedDoes DEF CopyPlaces
  <2>3. CASE s # SourceOf[f]
    <3>1. work'[s] = work[s]
      BY <2>2, <2>3, <1>a DEF ChildTypes
    <3> QED BY <2>2, <2>3, <3>1 DEF HasWork, Active
  <2>4. CASE s = SourceOf[f]
    <3>1. /\ work'[s].copied = ctime[f] /\ work'[s].n = work[s].n - 1
          /\ work'[s].latest = work[s].latest
      BY <2>2, <2>4, <1>a DEF ChildTypes
    <3>2. work[s].copied # Failed
      BY <2>1, <2>2, <2>4, <1>a DEF CopyPlaces, Copying, Copied
    <3>3. work[s].n > 0
      BY <3>1, <1>a DEF HasWork, ChildTypes
    <3>4. HasWork(s)
      BY <2>2, <3>2, <3>3 DEF HasWork, Active
    <3> QED BY <2>1, <2>2, <2>4, <3>1, <3>4 DEF Done
  <2> QED BY <2>3, <2>4
<1> QED BY <1>2, <1>3, <1>4, <1>5, <1>6, <1>7, <1>8, <1>9, <1>10, <1>11, <1>12,
           StepIs

\* The work that a completed scan adds.
LEMMA ScannedWork ==
  ASSUME TransferTypeOK, Places, NEW q \in Sources, PairScanned(q),
         NEW s \in Sources, HasWork(s)'
  PROVE  \/ /\ s = q /\ scan.src = {s} /\ Complete /\ scan.found # {}
            /\ list' = list \cup scan.found /\ UNCHANGED pair
            /\ work'[s].latest = scan.latest /\ work'[s].copied = None
         \/ s # q /\ HasWork(s) /\ work'[s] = work[s] /\ pair'[s] = pair[s]
            /\ list \subseteq list'
<1>a. ScanPlaces
  BY DEF Places
<1>1. scan.src = {q} /\ scan.dir = "done"
  BY ScannedPairs
<1>2. Active
  BY <1>1, <1>a DEF ScanPlaces, Active
<1>3. CASE s # q
  <2>1. work'[s] = work[s] /\ pair'[s] = pair[s] /\ list \subseteq list'
    BY <1>3, ScannedPairs
  <2> QED BY <1>2, <1>3, <2>1 DEF HasWork
<1>4. CASE s = q
  <2>1. scan.found # {}
    <3>1. scan.found = {} => work'[s].n = 0
      BY <1>4, ScannedPairs, FS_EmptySet
    <3> QED BY <3>1 DEF HasWork
  <2> QED BY <1>1, <1>4, <2>1, ScannedPairs DEF Complete
<1> QED BY <1>3, <1>4

LEMMA WorkClearedStep ==
  ASSUME TransferTypeOK, DiscTypes', Places, Timely, Cleared, [TransferNext]_vars
  PROVE  WorkCleared'
<1>a. /\ now \in Nat /\ scan.latest \in Nat /\ scan.latest < now
      /\ \A s \in Sources : work[s].latest \in Nat /\ work[s].latest < now
  BY Numbers DEF Timely, ScanTimely, PairsTimely
<1> SUFFICES ASSUME NEW s \in Sources, HasWork(s)'
             PROVE  ReachedBy(s, work'[s].latest, list', ctime', Done')
  BY DEF WorkCleared, Reached
<1>b. HasWork(s) => ReachedBy(s, work[s].latest, list, ctime, Done)
  BY DEF Cleared, WorkCleared, Reached
<1>1. CASE ~Scanned
  <2>1. /\ HasWork(s) /\ work'[s].latest = work[s].latest
        /\ \A f \in list : SourceOf[f] = s => f \in list' \cup Done'
    BY <1>1, NoNewWork
  <2> QED BY <1>a, <1>b, <2>1, ReachedStays
<1>2. CASE Scanned
  <2>1. PICK q \in Sources : PairScanned(q)
    BY <1>2 DEF Scanned
  <2>2. CASE s = q
    <3>1. /\ scan.src = {s} /\ Complete /\ work'[s].latest = scan.latest
          /\ list' = list \cup scan.found
      BY <2>1, <2>2, ScannedWork
    <3>2. ReachedBy(s, scan.latest, scan.found, ctime, Done)
      BY <3>1 DEF Cleared, ScanCleared, Reached
    <3> QED BY <1>a, <3>1, <3>2, ReachedStays
  <2>3. CASE s # q
    <3>1. HasWork(s) /\ work'[s] = work[s] /\ list \subseteq list'
      BY <2>1, <2>3, ScannedWork
    <3> QED BY <1>a, <1>b, <3>1, ReachedStays
  <2> QED BY <2>2, <2>3
<1> QED BY <1>1, <1>2

-----------------------------------------------------------------------------
(* What was cleared is remembered *)

\* What a step makes of the history of what was cleared.
LEMMA KnownDoes ==
  ASSUME TransferTypeOK, Places, Counted, KnownSound, ParentTypes',
         [TransferNext]_vars, NEW s \in Sources
  PROVE  /\ known'[s] = known[s] \/ known'[s] = pair'[s].cleared
            \/ (Crash /\ saving /\ known'[s] = None)
         /\ ~Crash => known[s] <= known'[s]
         /\ pair'[s].cleared = pair[s].cleared /\ ~Crash => known'[s] = known[s]
         /\ ~(Crash \/ Scanned \/ Picked \/ Finished) => known'[s] = known[s]
         /\ Crash /\ ~saving => known'[s] = known[s]
<1>a. known \in [Sources -> Nat] /\ DiscTypes
  BY Types DEF DiscTypes
<1>b. known[s] \in Nat /\ pair[s].cleared \in Int /\ pair[s].cleared <= known[s]
  BY Numbers DEF KnownSound
<1>c. pair'[s].cleared \in Int
  BY DEF ParentTypes, Failed
<1>1. CASE known' = known
  BY <1>1, <1>b
<1>2. CASE UNCHANGED marks
  BY <1>1, <1>2 DEF marks
<1>3. CASE Crash
  <2>1. known' = IF saving THEN [q \in Sources |-> None] ELSE known
    BY <1>3 DEF Crash
  <2> QED BY <1>3, <2>1
<1>4. CASE Discs
  BY Zenon, <1>1, <1>4 DEF Discs, Tick, Arrive, Collect, historyVars
<1>5. CASE Restart \/ ServeEnd \/ FinishSave \/ NextPriority \/ Kicked \/ Retries
           \/ Begun \/ StopsCopying \/ GaveUp \/ Moved \/ Read \/ ReadFailed
  BY Zenon, <1>1, <1>5 DEF Restart, ServeEnd, FinishSave, NextPriority, Kicked,
                    Retries, Wake, Begun, ScanBegins, StopsCopying, GaveUp,
                    CopyFails, Moved, Moves, Read, ScanReads, ReadFailed,
                    ScanFails, historyVars
<1>6. CASE known' = Known /\ ~Crash /\ (Scanned \/ Picked \/ Finished)
  <2>1. known'[s] = IF known[s] >= pair'[s].cleared THEN known[s]
                    ELSE pair'[s].cleared
    BY <1>6, <1>a, KnownIs
  <2> QED BY <1>6, <2>1, <1>b, <1>c
<1>7. CASE Scanned \/ Picked \/ Finished
  <2>1. known' = Known
    BY Zenon, <1>7 DEF Scanned, PairScanned, Picked, Pick, Finished, Copied
  <2>2. ~Crash
    <3>1. up'
      BY <1>7, OnlyUp DEF Places
    <3> QED BY <3>1 DEF Crash
  <2> QED BY Zenon, <1>6, <1>7, <2>1, <2>2
<1> QED BY <1>2, <1>3, <1>4, <1>5, <1>7, StepIs, OthersLeaveMarks

\* The discs change by deletions and by new files.
LEMMA DiscsChange ==
  ASSUME TransferTypeOK, [TransferNext]_vars, NEW f \in disk'
  PROVE  f \in Files /\ ((f \in disk /\ ctime'[f] = ctime[f]) \/ ctime'[f] = now)
<1>a. ctime \in [Files -> Nat] /\ disk \subseteq Files
  BY Numbers
<1>1. CASE UNCHANGED ctime /\ disk' \subseteq disk
  BY <1>1, <1>a
<1>2. CASE UNCHANGED marks
  BY <1>1, <1>2 DEF marks
<1>3. CASE Discs
  <2>1. ASSUME NEW g \in Files, Arrive(g)
        PROVE  f \in Files /\ ((f \in disk /\ ctime'[f] = ctime[f]) \/ ctime'[f] = now)
    <3>1. ctime' = [ctime EXCEPT ![g] = now] /\ disk' = disk \cup {g}
      BY <2>1 DEF Arrive
    <3> QED BY <3>1, <1>a
  <2>2. ASSUME NEW g \in Files, Collect(g) PROVE UNCHANGED ctime /\ disk' \subseteq disk
    BY <2>2 DEF Collect
  <2>3. Tick => UNCHANGED ctime /\ disk' \subseteq disk
    BY DEF Tick, diskVars
  <2> QED BY <1>1, <1>3, <2>1, <2>2, <2>3 DEF Discs
<1>4. CASE Crash \/ Restart \/ ServeEnd \/ FinishSave \/ NextPriority
           \/ Kicked \/ Retries \/ Begun \/ StopsCopying
  <2>1. CASE Crash \/ Restart \/ ServeEnd \/ FinishSave \/ NextPriority
    BY Zenon, <1>1, <2>1 DEF Crash, Restart, ServeEnd, FinishSave, NextPriority,
                             diskVars
  <2>2. CASE Kicked \/ Retries \/ Begun \/ StopsCopying
    BY Zenon, <1>1, <2>2 DEF Kicked, Retries, Wake, Begun, ScanBegins, StopsCopying,
                             diskVars
  <2> QED BY <1>4, <2>1, <2>2
<1>5. CASE Scanned \/ Picked \/ Finished \/ GaveUp \/ Moved \/ Read \/ ReadFailed
  BY Zenon, <1>1, <1>5 DEF Scanned, PairScanned, Picked, Pick, Finished, Copied, GaveUp,
                    CopyFails, Moved, Moves, Read, ScanReads, ReadFailed,
                    ScanFails, diskVars
<1> QED BY <1>2, <1>3, <1>4, <1>5, StepIs, OthersLeaveMarks

LEMMA KeepsStays ==
  ASSUME TransferTypeOK, [TransferNext]_vars, NEW s \in Sources,
         NEW t \in Int, NEW u \in Int, t <= u, Keeps(s, t),
         NEW k \in Int, k < now, k <= known[s] \/ k <= u
  PROVE  KeepsBy(s, u, disk', ctime', k)
<1> SUFFICES ASSUME NEW f \in disk', SourceOf[f] = s, ctime'[f] <= k
             PROVE  ctime'[f] <= u
  BY DEF KeepsBy
<1>1. now \in Nat /\ ctime \in [Files -> Nat] /\ known[s] \in Nat
  BY Numbers
<1>2. f \in disk /\ f \in Files /\ ctime'[f] = ctime[f]
  BY <1>1, DiscsChange
<1>3. ctime[f] \in Nat
  BY <1>1, <1>2
<1>4. ctime[f] <= known[s] => ctime[f] <= t
  BY <1>2 DEF Keeps, KeepsBy
<1> QED BY <1>1, <1>2, <1>3, <1>4

LEMMA KnownSoundStep ==
  ASSUME TransferTypeOK, Places, Counted, KnownSound, ParentTypes', DiscTypes',
         [TransferNext]_vars
  PROVE  KnownSound'
<1>a. \A s \in Sources : /\ pair[s].cleared \in Int /\ saved[s] \in Int
                         /\ known[s] \in Nat
                         /\ pair[s].cleared <= known[s] /\ saved[s] <= known[s]
  BY Numbers DEF KnownSound
<1>b. \A s \in Sources : /\ pair'[s].cleared \in Int /\ saved'[s] \in Int
                         /\ known'[s] \in Nat
  BY DEF ParentTypes, DiscTypes, Failed, NotSaved
<1>c. NotSaved = -1 /\ Failed = -1 /\ None = 0 /\ ParentTypes
  BY Types DEF NotSaved, Failed, None
\* What the step saves.
<1>1. \/ UNCHANGED <<saved, saving>>
      \/ saving' /\ saved' = [s \in Sources |-> NotSaved]
      \/ ~saving' /\ saved' = [s \in Sources |-> pair[s].cleared] /\ FinishSave
      \/ ~saving' /\ saved' = saved
  <2>1. CASE UNCHANGED marks
    BY <2>1 DEF marks
  <2>2. CASE Crash \/ FinishSave
    BY <2>2 DEF Crash, FinishSave
  <2>3. CASE ServeEnd
    BY <2>3, ServeEndPairs
  <2>4. CASE Scanned
    BY <2>4, ScannedPairs DEF Scanned
  <2>5. CASE Picked
    BY <2>5, PickPairs DEF Picked
  <2>6. CASE Finished
    BY Zenon, <2>6, CopiedPairs DEF Finished
  <2>7. CASE Restart \/ NextPriority \/ Kicked \/ Retries \/ Begun \/ StopsCopying
             \/ GaveUp \/ Moved \/ Read \/ ReadFailed \/ Discs
    BY Zenon, <2>7 DEF Restart, NextPriority, Kicked, Retries, Wake, Begun, ScanBegins,
                StopsCopying, GaveUp, CopyFails, Moved, Moves, Read, ScanReads,
                ReadFailed, ScanFails, Discs, Tick, Arrive, Collect, fileVars
  <2> QED BY <2>1, <2>2, <2>3, <2>4, <2>5, <2>6, <2>7, StepIs, OthersLeaveMarks
<1>2. saving' => saved' = [s \in Sources |-> NotSaved]
  BY <1>1 DEF KnownSound
<1>3. ASSUME NEW s \in Sources PROVE saved'[s] <= known'[s]
  <2>1. CASE Crash
    <3>1. saved' = saved /\ (saving => saved[s] = -1)
      BY <2>1, <1>c DEF Crash, KnownSound
    <3>2. ~saving => known'[s] = known[s]
      BY <2>1, KnownDoes
    <3> QED BY <3>1, <3>2, <1>a, <1>b
  <2>2. CASE ~Crash
    <3>1. known[s] <= known'[s]
      BY <2>2, KnownDoes
    <3>2. saved'[s] = saved[s] \/ saved'[s] = -1 \/ saved'[s] = pair[s].cleared
      BY <1>1, <1>c
    <3> QED BY <3>1, <3>2, <1>a, <1>b
  <2> QED BY <2>1, <2>2
<1>4. ASSUME NEW s \in Sources PROVE pair'[s].cleared <= known'[s]
  <2>1. CASE Crash
    <3>1. pair'[s].cleared = -1
      BY <2>1, <1>c DEF Crash, NoPair
    <3> QED BY <3>1, <1>b
  <2>2. CASE Restart
    <3>1. pair'[s].cleared = saved[s] /\ known' = known
      BY <2>2, RestartDoes
    <3> QED BY <3>1, <1>a
  <2>3. CASE ServeEnd
    <3>1. /\ pair'[s].cleared = pair[s].cleared \/ pair'[s].cleared = 0
          /\ known' = known
      BY <2>3, <1>c, ServeEndPairs
    <3> QED BY <3>1, <1>a
  <2>4. CASE Kicked \/ Retries
    <3>1. pair'[s].cleared = pair[s].cleared /\ known' = known
      BY <2>4, <1>c, WakePairs
    <3> QED BY <3>1, <1>a
  <2>5. CASE Scanned \/ Picked \/ Finished
    <3>1. known' = Known
      BY Zenon, <2>5 DEF Scanned, PairScanned, Picked, Pick, Finished, Copied
    <3>2. known'[s] = IF known[s] >= pair'[s].cleared THEN known[s]
                      ELSE pair'[s].cleared
      BY <3>1, Types, KnownIs
    <3>3. known[s] \in Nat /\ pair'[s].cleared \in Int
      BY <1>a, <1>b
    <3> QED BY <3>2, <3>3
  <2>6. CASE UNCHANGED <<pair, known>>
    BY <2>6, <1>a
  <2>7. CASE UNCHANGED marks
    BY Zenon, <2>6, <2>7 DEF marks
  <2>8. CASE FinishSave \/ NextPriority \/ Begun \/ StopsCopying
             \/ GaveUp \/ Moved \/ Read \/ ReadFailed \/ Discs
    BY Zenon, <2>6, <2>8 DEF FinishSave, NextPriority, Begun, ScanBegins, StopsCopying,
                      GaveUp, CopyFails, Moved, Moves, Read, ScanReads, ReadFailed,
                      ScanFails, Discs, Tick, Arrive, Collect, shareVars, historyVars
  <2> QED BY <2>1, <2>2, <2>3, <2>4, <2>5, <2>7, <2>8, StepIs, OthersLeaveMarks
<1> QED BY <1>2, <1>3, <1>4 DEF KnownSound

\* What is known after a step lies in the past as well.
LEMMA KnownPast ==
  ASSUME TransferTypeOK, Places, Counted, Timely, KnownSound, ParentTypes',
         PairsTimely', [TransferNext]_vars, NEW s \in Sources
  PROVE  /\ known'[s] \in Int /\ known'[s] < now
         /\ known'[s] <= known[s] \/ known'[s] <= pair'[s].cleared
<1>a. /\ now \in Nat /\ known[s] \in Nat /\ known[s] < now /\ pair[s].cleared \in Int
      /\ pair[s].cleared < now
  BY Numbers DEF Timely, PairsTimely
<1>b. pair'[s].cleared \in Int
  BY DEF ParentTypes, Failed
<1>1. \/ known'[s] = known[s] \/ known'[s] = pair'[s].cleared \/ known'[s] = 0
  BY KnownDoes DEF None
<1>2. known'[s] = known[s] \/ now' = now
  <2>1. Discs => known' = known
    BY DEF Discs, Tick, Arrive, Collect, historyVars
  <2>2. Crash => now' = now
    BY Zenon DEF Crash
  <2>3. Scanned \/ Picked \/ Finished => now' = now
    BY Zenon DEF Scanned, PairScanned, Picked, Pick, Finished, Copied
  <2> QED BY <2>1, <2>2, <2>3, KnownDoes
<1>3. pair'[s].cleared < now'
  BY DEF PairsTimely
<1> QED BY <1>a, <1>b, <1>1, <1>2, <1>3

LEMMA PairsKeptStep ==
  ASSUME TransferTypeOK, Places, Counted, Timely, Kept, ParentTypes',
         DiscsTimely', DiscTypes', PairsTimely', [TransferNext]_vars
  PROVE  PairsKept'
<1> SUFFICES ASSUME NEW s \in Sources, ~HasXml(s)
             PROVE  /\ up' => KeepsBy(s, pair'[s].cleared, disk', ctime', known'[s])
                    /\ ~saving' => KeepsBy(s, saved'[s], disk', ctime', known'[s])
  BY DEF PairsKept, Keeps, HasXml
<1>a. /\ pair[s].cleared \in Int /\ saved[s] \in Int /\ known[s] \in Nat
      /\ scan.last \in Nat /\ scan.latest \in Nat
      /\ work[s].latest \in Nat /\ work[s].copied \in Int
      /\ \A f \in Files : SourceOf[f] \in Sources
  BY Numbers
<1>b. /\ ParentTypes /\ ChildTypes /\ KnownSound /\ PairsKept /\ ScanKept /\ WorkKept
      /\ UpPlaces
  BY Types DEF Kept, Places
<1>c. /\ known'[s] \in Int /\ known'[s] < now
      /\ known'[s] <= known[s] \/ known'[s] <= pair'[s].cleared
  BY <1>b, KnownPast
<1>d. /\ up => Keeps(s, pair[s].cleared)
      /\ ~saving => Keeps(s, saved[s])
  BY <1>b DEF PairsKept
<1>e. Failed = -1 /\ None = 0 /\ NotSaved = -1
  BY DEF Failed, None, NotSaved
<1>f. pair'[s].cleared \in Int
  BY <1>e DEF ParentTypes
\* If nothing changes what is cleared or saved:
<1>g. ASSUME up' => up, known'[s] = known[s],
             pair'[s].cleared = pair[s].cleared,
             ~saving' => ~saving /\ saved'[s] = saved[s]
      PROVE  /\ up' => KeepsBy(s, pair'[s].cleared, disk', ctime', known'[s])
             /\ ~saving' => KeepsBy(s, saved'[s], disk', ctime', known'[s])
  <2>1. up' => KeepsBy(s, pair[s].cleared, disk', ctime', known'[s])
    BY <1>a, <1>c, <1>d, <1>g, KeepsStays
  <2>2. ~saving' => KeepsBy(s, saved[s], disk', ctime', known'[s])
    BY <1>a, <1>c, <1>d, <1>g, KeepsStays
  <2> QED BY <1>g, <2>1, <2>2
<1>1. CASE UNCHANGED <<up, known, pair, saving, saved>>
  BY <1>1, <1>g
<1>2. CASE UNCHANGED marks
  BY Zenon, <1>1, <1>2 DEF marks
<1>3. CASE Discs \/ NextPriority \/ Begun \/ Read \/ ReadFailed \/ StopsCopying
           \/ Moved \/ GaveUp
  BY Zenon, <1>1, <1>3 DEF Discs, Tick, Arrive, Collect, NextPriority, Begun, Read,
                    ReadFailed, ScanBegins, ScanReads, ScanFails, StopsCopying,
                    Moved, Moves, GaveUp, CopyFails, shareVars, fileVars,
                    parentVars, historyVars
<1>4. CASE Crash
  <2>1. ~up' /\ saved' = saved
    BY <1>4 DEF Crash
  <2>2. CASE saving
    <3>1. known'[s] = 0
      BY <1>4, <1>e, <2>2 DEF Crash
    <3>2. ASSUME NEW f \in disk' PROVE ~(ctime'[f] <= 0)
      <4>1. f \in Files /\ ctime'[f] \in Nat
        BY DEF DiscTypes
      <4>2. ctime'[f] # 0
        BY <1>e DEF DiscsTimely
      <4> QED BY <4>1, <4>2
    <3> QED BY <2>1, <3>1, <3>2 DEF KeepsBy
  <2>3. CASE ~saving
    <3>1. known'[s] = known[s]
      BY <1>4, <1>b, <2>3, KnownDoes
    <3>2. KeepsBy(s, saved[s], disk', ctime', known'[s])
      BY <1>a, <1>c, <1>d, <2>3, <3>1, KeepsStays
    <3> QED BY <2>1, <3>2
  <2> QED BY <2>2, <2>3
<1>5. CASE Restart
  <2>1. /\ pair'[s].cleared = saved[s] /\ UNCHANGED <<known, saved, saving>> /\ ~saving
    BY <1>5, RestartDoes
  <2>2. KeepsBy(s, saved[s], disk', ctime', known'[s])
    BY <1>a, <1>c, <1>d, <2>1, KeepsStays
  <2> QED BY <2>1, <2>2
<1>6. CASE ServeEnd
  <2>1. /\ UNCHANGED <<up, known>> /\ ~saving
        /\ \/ UNCHANGED <<pair, saved, saving>>
           \/ /\ pair'[s].cleared = pair[s].cleared \/ pair'[s].cleared = 0
              /\ pair'[s].cleared >= pair[s].cleared /\ saving'
    <3>1. pair[s].cleared >= -1
      BY Numbers
    <3> QED BY <1>6, <1>a, <1>e, <3>1, ServeEndPairs
  <2>2. CASE UNCHANGED <<pair, saved, saving>>
    BY <1>1, <2>1, <2>2
  <2>3. CASE pair'[s].cleared >= pair[s].cleared /\ saving'
    <3>1. up' => KeepsBy(s, pair'[s].cleared, disk', ctime', known'[s])
      BY <1>a, <1>c, <1>d, <1>f, <2>1, <2>3, KeepsStays
    <3> QED BY <2>3, <3>1
  <2> QED BY <2>1, <2>2, <2>3
<1>7. CASE FinishSave
  <2>1. /\ saving /\ UNCHANGED <<up, pair, known>> /\ saved'[s] = pair[s].cleared
    BY <1>7 DEF FinishSave, parentVars, shareVars, historyVars
  <2>2. KeepsBy(s, pair[s].cleared, disk', ctime', known'[s])
    BY <1>a, <1>b, <1>c, <1>d, <2>1, KeepsStays DEF UpPlaces
  <2> QED BY <2>1, <2>2
<1>8. CASE Kicked \/ Retries
  <2>1. /\ UNCHANGED <<up, known, saved, saving>>
        /\ pair'[s].cleared = pair[s].cleared
    BY <1>8, <1>b, WakePairs
  <2> QED BY <1>g, <2>1
\* Otherwise what is cleared is kept, and what is saved is being saved.
<1>9. ASSUME up, up', ~saving, ~Crash,
             pair'[s].cleared # pair[s].cleared => Keeps(s, pair'[s].cleared),
             saving' \/ /\ UNCHANGED <<saved, saving>>
                        /\ pair'[s].cleared = pair[s].cleared
      PROVE  /\ up' => KeepsBy(s, pair'[s].cleared, disk', ctime', known'[s])
             /\ ~saving' => KeepsBy(s, saved'[s], disk', ctime', known'[s])
  <2>1. CASE pair'[s].cleared = pair[s].cleared
    <3>1. known'[s] = known[s]
      BY <1>9, <1>b, <2>1, KnownDoes
    <3> QED BY <1>9, <1>g, <2>1, <3>1
  <2>2. CASE pair'[s].cleared # pair[s].cleared
    <3>1. KeepsBy(s, pair'[s].cleared, disk', ctime', known'[s])
      BY <1>9, <1>c, <1>f, <2>2, KeepsStays
    <3> QED BY <1>9, <2>2, <3>1
  <2> QED BY <2>1, <2>2
<1>10. CASE Scanned \/ Picked \/ Finished
  <2>0. up /\ up' /\ ~Crash
    <3>1. up /\ up'
      BY <1>10, <1>b, OnlyUp
    <3> QED BY <3>1 DEF Crash
  <2>1. CASE Scanned
    <3>1. PICK q \in Sources : PairScanned(q)
      BY <2>1 DEF Scanned
    <3>2. /\ ~saving
          /\ saving' \/ (UNCHANGED <<saved, saving>> /\ pair'[s].cleared = pair[s].cleared)
      BY <3>1, ScannedPairs
    <3>3. pair'[s].cleared # pair[s].cleared => Keeps(s, pair'[s].cleared)
      <4>1. pair'[s].cleared # pair[s].cleared =>
              scan.src = {s} /\ Complete /\ pair'[s].cleared = scan.last
        BY <3>1, ScannedPairs DEF Complete
      <4> QED BY <4>1, <1>b DEF ScanKept
    <3> QED BY <1>9, <2>0, <3>2, <3>3
  <2>2. CASE Picked
    <3>1. PICK f \in Files, r \in BOOLEAN : Pick(f, r)
      BY <2>2 DEF Picked
    <3>2. /\ ~saving
          /\ saving' \/ (UNCHANGED <<saved, saving>> /\ pair'[s].cleared = pair[s].cleared)
      BY <3>1, PickPairs
    <3>3. pair'[s].cleared # pair[s].cleared => Keeps(s, pair'[s].cleared)
      <4> SUFFICES ASSUME pair'[s].cleared # pair[s].cleared
                   PROVE  Keeps(s, pair'[s].cleared)
        OBVIOUS
      <4>1. /\ s = SourceOf[f] /\ work[s].copied \notin {Failed, None}
            /\ pair'[s].cleared = work[s].copied
        BY <3>1, PickPairs
      <4>2. f \in list /\ child.pc = "pick"
        BY <3>1, <1>b, PickDoes
      <4>3. HasWork(s)
        BY <4>1, <4>2, ListedWork
      <4>4. pair[s].cleared <= work[s].copied
        BY <4>1, <4>3, <1>b DEF WorkKept
      <4> DEFINE c == pair[s].cleared
                 w == work[s].copied
                 k == known[s]
      <4>5. KeepsBy(s, c, disk, ctime, k) /\ c \in Int /\ w \in Int /\ c <= w
            /\ ctime \in [Files -> Nat] /\ disk \subseteq Files
        BY <1>a, <1>d, <2>0, <4>4, Numbers DEF Keeps
      <4>6. KeepsBy(s, w, disk, ctime, k)
        <5> HIDE DEF c, w, k
        <5> SUFFICES ASSUME NEW g \in disk, SourceOf[g] = s, ctime[g] <= k
                     PROVE  ctime[g] <= w
          BY DEF KeepsBy
        <5>1. ctime[g] \in Nat /\ ctime[g] <= c
          BY <4>5 DEF KeepsBy
        <5> QED BY <4>5, <5>1
      <4> QED BY <4>1, <4>6 DEF Keeps
    <3> QED BY <1>9, <2>0, <3>2, <3>3
  <2>3. CASE Finished
    <3>1. PICK f \in Files : Copied(f)
      BY <2>3 DEF Finished
    <3>2. /\ ~saving
          /\ saving' \/ (UNCHANGED <<saved, saving>> /\ pair'[s].cleared = pair[s].cleared)
      BY <3>1, CopiedPairs
    <3>3. pair'[s].cleared # pair[s].cleared => Keeps(s, pair'[s].cleared)
      <4> SUFFICES ASSUME pair'[s].cleared # pair[s].cleared
                   PROVE  Keeps(s, pair'[s].cleared)
        OBVIOUS
      <4>1. /\ s = SourceOf[f] /\ work[s].copied # Failed /\ work[s].n > 0
            /\ pair'[s].cleared = work[s].latest
        BY <3>1, CopiedPairs
      <4>2. HasWork(s)
        BY <3>1, <4>1 DEF HasWork, Active, Copied
      <4> QED BY <4>1, <4>2, <1>b DEF WorkKept
    <3> QED BY <1>9, <2>0, <3>2, <3>3
  <2> QED BY <1>10, <2>1, <2>2, <2>3
<1> QED BY <1>2, <1>3, <1>4, <1>5, <1>6, <1>7, <1>8, <1>10, StepIs, OthersLeaveMarks

LEMMA ScanKeptStep ==
  ASSUME TransferTypeOK, Places, Counted, Timely, Kept, ParentTypes',
         [TransferNext]_vars
  PROVE  ScanKept'
<1>a. /\ ChildTypes /\ ScanTypes /\ DiscTypes /\ ScanPlaces /\ ScanKept /\ KnownSound
      /\ UpPlaces
  BY Types DEF Places, Kept
<1>b. /\ scan.last \in Nat /\ scan.latest \in Nat
      /\ \A s \in Sources : known[s] \in Nat /\ known[s] < now
  BY Numbers DEF Timely, PairsTimely
<1>c. ASSUME scan' = NoScan PROVE ScanKept'
  BY <1>c DEF ScanKept, NoScan
<1> SUFFICES ASSUME scan' # NoScan, NEW s \in Sources, ~HasXml(s), scan'.src = {s}
             PROVE  /\ scan'.dir # "xml"
                    /\ Complete' => /\ scan'.last = scan'.latest
                                    /\ KeepsBy(s, scan'.last, disk', ctime', known'[s])
  BY <1>c DEF ScanKept, Keeps, HasXml
<1>1. ASSUME UNCHANGED scan, ~(Crash \/ Scanned \/ Picked \/ Finished)
      PROVE  /\ scan'.dir # "xml"
             /\ Complete' => /\ scan'.last = scan'.latest
                             /\ KeepsBy(s, scan'.last, disk', ctime', known'[s])
  <2>1. known'[s] = known[s]
    BY <1>1, <1>a, KnownDoes
  <2>2. /\ scan.dir # "xml"
        /\ Complete => scan.last = scan.latest /\ Keeps(s, scan.last)
    BY <1>1, <1>a DEF ScanKept
  <2>3. Complete' = Complete
    BY <1>1 DEF Complete
  <2>4. Complete => KeepsBy(s, scan.last, disk', ctime', known'[s])
    BY <1>b, <2>1, <2>2, KeepsStays
  <2> QED BY <1>1, <2>2, <2>3, <2>4
<1>2. ~Crash
  BY DEF Crash
<1>3. ~Scanned
  BY DEF Scanned, PairScanned
<1>4. ~Picked /\ ~Finished
  <2>1. Picked \/ Finished => child.pc # "scan" /\ UNCHANGED scan
    BY <1>a, ChildMoves
  <2> QED BY <2>1, <1>a DEF ScanPlaces
<1>5. CASE Begun
  <2>1. PICK q \in Sources : ScanBegins(q)
    BY <1>5 DEF Begun
  <2>2. /\ scan.dir # "done"
        /\ scan.src = {} \/ scan.src = {q}
        /\ scan' = [scan EXCEPT !.src = {q}, !.time = now]
    BY <2>1 DEF ScanBegins
  <2>3. scan'.src = {q} /\ scan'.dir = scan.dir
    BY <2>2, <1>a DEF ScanTypes
  <2>4. ~Complete'
    BY <2>2, <2>3 DEF Complete
  <2>5. scan.dir # "xml"
    <3>1. CASE scan.src = {}
      BY <3>1, <1>a DEF ScanPlaces, NoScan
    <3>2. CASE scan.src = {q}
      BY <2>3, <3>2, <1>a DEF ScanKept
    <3> QED BY <2>2, <3>1, <3>2
  <2> QED BY <2>3, <2>4, <2>5
<1>6. CASE Read
  <2>1. PICK d \in SUBSET Files : ScanReads(d)
    BY <1>6 DEF Read
  <2>2. /\ UNCHANGED <<ctime, known>> /\ scan.time # None /\ disk' \subseteq disk
    BY <2>1 DEF ScanReads, historyVars
  <2>3. /\ scan'.src = scan.src
        /\ ScanLast \in Nat /\ \A f \in InDir : ctime[f] <= ScanLast
        /\ \/ scan'.dir = scan.dir
           \/ /\ scan'.dir = NextDir /\ scan'.last = ScanLast
              /\ scan'.latest = (IF scan.latest >= ScanLast
                                 THEN scan.latest ELSE ScanLast)
    BY <1>a, <2>1, ScanReadsDoes
  <2>4. scan.src = {s} /\ scan.dir = "main"
    <3>1. scan.dir # "done"
      BY <2>2, <1>a DEF ScanPlaces
    <3>2. scan.dir # "xml"
      BY <2>3, <1>a DEF ScanKept
    <3> QED BY <2>3, <3>1, <3>2, <1>a DEF ScanTypes
  <2>5. scan.latest = 0
    BY <2>4, <1>a DEF ScanPlaces, None
  <2>6. CASE scan'.dir = scan.dir
    BY <2>4, <2>6 DEF Complete
  <2>7. CASE /\ scan'.dir = NextDir /\ scan'.last = ScanLast
             /\ scan'.latest = (IF scan.latest >= ScanLast
                                THEN scan.latest ELSE ScanLast)
    <3>1. NextDir = "done"
      BY <2>4 DEF NextDir
    <3>2. scan'.last = scan'.latest
      BY <2>3, <2>5, <2>7
    <3>3. ASSUME NEW f \in disk', SourceOf[f] = s PROVE ctime'[f] <= ScanLast
      <4>1. f \in disk /\ f \in Files /\ ctime'[f] = ctime[f]
        BY <2>2, <1>a DEF DiscTypes
      <4>2. DirOf[f] = "main"
        BY <3>3, <4>1, TransferAssumption DEF HasXml
      <4>3. f \in InDir
        BY <2>4, <3>3, <4>1, <4>2 DEF InDir
      <4> QED BY <2>3, <4>1, <4>3
    <3> QED BY <2>7, <3>1, <3>2, <3>3 DEF KeepsBy
  <2> QED BY <2>3, <2>6, <2>7
<1>7. CASE ReadFailed
  <2>1. PICK d \in SUBSET Files : ScanFails(d)
    BY <1>7 DEF ReadFailed
  <2>2. /\ scan.time # None
        /\ scan' = [scan EXCEPT !.time = None, !.dir = "done", !.ok = FALSE]
    BY <2>1 DEF ScanFails
  <2>3. /\ scan'.src = scan.src /\ scan'.dir = "done" /\ ~scan'.ok
        /\ scan'.found = scan.found
    BY <2>2, <1>a DEF ScanTypes
  <2>4. scan.dir = "main"
    <3>1. scan.dir # "done"
      BY <2>2, <1>a DEF ScanPlaces
    <3>2. scan.dir # "xml"
      BY <2>3, <1>a DEF ScanKept
    <3> QED BY <3>1, <3>2, <1>a DEF ScanTypes
  <2>5. ~Complete'
    BY <2>3, <2>4, <1>a DEF Complete, ScanPlaces
  <2> QED BY <2>3, <2>5
<1>8. CASE UNCHANGED scan
  BY <1>1, <1>2, <1>3, <1>4, <1>8
<1> QED BY <1>2, <1>3, <1>5, <1>6, <1>7, <1>8, StepIs, OthersLeaveScan

LEMMA WorkKeptStep ==
  ASSUME TransferTypeOK, Places, Counted, Timely, Kept, ParentTypes', ChildTypes',
         PairsTimely', [TransferNext]_vars
  PROVE  WorkKept'
<1>a. /\ UpPlaces /\ ScanKept /\ KnownSound /\ WorkKept /\ ListTimely /\ ParentTypes
  BY Types DEF Places, Kept, Timely
<1>b. /\ scan.last \in Nat /\ scan.latest \in Nat
      /\ \A f \in Files : SourceOf[f] \in Sources /\ ctime[f] \in Nat
      /\ \A q \in Sources :
           /\ known[q] \in Nat /\ work[q].latest \in Nat /\ work[q].copied \in Int
           /\ pair[q].cleared \in Int
  BY Numbers
<1> SUFFICES ASSUME NEW s \in Sources, ~HasXml(s), HasWork(s)'
             PROVE  /\ KeepsBy(s, work'[s].latest, disk', ctime', known'[s])
                    /\ work'[s].copied # None => pair'[s].cleared <= work'[s].copied
  BY DEF WorkKept, Keeps, HasXml
<1>c. /\ known'[s] \in Int /\ known'[s] < now
      /\ known'[s] <= known[s] \/ known'[s] <= pair'[s].cleared
      /\ pair'[s].cleared \in Int
  BY <1>a, KnownPast DEF ParentTypes, Failed
<1>d. Failed = -1 /\ None = 0 /\ ~Crash
  BY DEF Failed, None, HasWork, Active, Crash, IdleChild
\* What is cleared of a pair with work, but for what this step clears:
<1>1. CASE ~Scanned
  <2>1. /\ HasWork(s) /\ work'[s].latest = work[s].latest
        /\ \/ work'[s].copied = work[s].copied
           \/ \E f \in Files : /\ Copied(f) /\ s = SourceOf[f]
                               /\ work'[s].copied = ctime[f]
    BY <1>1, NoNewWork
  <2>2. /\ Keeps(s, work[s].latest)
        /\ work[s].copied # None => pair[s].cleared <= work[s].copied
        /\ work[s].copied # -1
    BY <2>1, <1>a, <1>d DEF WorkKept, HasWork
  <2>3. KeepsBy(s, work'[s].latest, disk', ctime', known'[s])
    <3>1. known'[s] <= known[s] \/ known'[s] <= work[s].latest
      <4>1. pair'[s].cleared <= work[s].latest \/ known'[s] = known[s]
        <5>1. CASE Picked
          <6>1. PICK f \in Files, r \in BOOLEAN : Pick(f, r)
            BY <5>1 DEF Picked
          <6>2. pair'[s].cleared = pair[s].cleared \/ pair'[s].cleared = work[s].copied
            BY <6>1, PickPairs
          <6>3. work[s].copied <= work[s].latest
            BY DEF Timely, PairsTimely
          <6>4. pair'[s].cleared = pair[s].cleared => known'[s] = known[s]
            BY <1>a, <1>d, KnownDoes
          <6> QED BY <6>2, <6>3, <6>4
        <5>2. CASE Finished
          <6>1. PICK f \in Files : Copied(f)
            BY <5>2 DEF Finished
          <6>2. pair'[s].cleared = pair[s].cleared \/ pair'[s].cleared = work[s].latest
            BY <6>1, CopiedPairs
          <6>4. pair'[s].cleared = pair[s].cleared => known'[s] = known[s]
            BY <1>a, <1>d, KnownDoes
          <6> QED BY <1>b, <6>2, <6>4
        <5> QED BY <1>1, <1>a, <1>d, <5>1, <5>2, KnownDoes
      <4> QED BY <1>b, <1>c, <4>1
    <3> QED BY <1>b, <1>c, <2>1, <2>2, <3>1, KeepsStays
  <2>4. work'[s].copied # None => pair'[s].cleared <= work'[s].copied
    <3>1. CASE Finished
      <4>1. PICK f \in Files : Copied(f)
        BY <3>1 DEF Finished
      <4>2. /\ SourceOf[f] \in Sources
            /\ work' = [work EXCEPT ![SourceOf[f]].copied = ctime[f],
                                    ![SourceOf[f]].n = work[SourceOf[f]].n - 1]
            /\ work \in [Sources -> [copied : Nat \cup {Failed}, n : Nat,
                                     latest : Nat]]
        <5>1. ChildTypes
          BY Types
        <5>2. work \in [Sources -> [copied : Nat \cup {Failed}, n : Nat, latest : Nat]]
          BY <5>1 DEF ChildTypes
        <5> QED BY <4>1, <5>1, <5>2, CopiedDoes
      <4>3. CASE s = SourceOf[f]
        <5>1. /\ work'[s].copied = ctime[f] /\ work'[s].n = work[s].n - 1
              /\ work[s].n \in Nat
          BY <4>2, <4>3
        <5>2. work'[s].n > 0
          BY DEF HasWork
        <5>3. f \in list /\ pair'[s].cleared = pair[s].cleared
          <6>1. ~(work[s].n - 1 = 0)
            BY <5>1, <5>2
          <6>2. f \in list /\ (pair' = pair \/ work[s].n - 1 = 0)
            BY <4>1, <4>3, CopiedPairs
          <6> QED BY <6>1, <6>2
        <5>4. pair[s].cleared < ctime[f]
          BY <4>3, <5>3, <1>a DEF ListTimely
        <5> QED BY <5>1, <5>3, <5>4, <1>b
      <4>4. CASE s # SourceOf[f]
        <5>1. pair'[s] = pair[s]
          BY <4>1, <4>4, CopiedPairs
        <5>2. work'[s] = work[s]
          BY <4>2, <4>4
        <5> QED BY <5>1, <5>2, <2>2
      <4> QED BY <4>3, <4>4
    <3>2. CASE ~Finished
      <4>1. work'[s].copied = work[s].copied
        BY <2>1, <3>2 DEF Finished
      <4>2. \/ pair'[s].cleared = pair[s].cleared
            \/ pair'[s].cleared = 0 /\ work[s].copied >= 0
            \/ pair'[s].cleared = work[s].copied
        <5>0. work[s].copied >= 0
          <6>1. ChildTypes
            BY Types
          <6> QED BY <6>1, <2>2, <1>d DEF ChildTypes
        <5>1. CASE Picked
          BY <5>1, PickPairs DEF Picked
        <5>2. CASE ServeEnd
          BY <1>d, <5>0, <5>2, ServeEndPairs
        <5>3. CASE Kicked \/ Retries
          BY <5>3, <1>a, WakePairs
        <5>4. ~Restart
          <6>1. Restart => UNCHANGED child /\ child = IdleChild
            BY RestartDoes DEF childVars
          <6> QED BY <2>1, <6>1 DEF HasWork, Active, IdleChild
        <5>5. CASE UNCHANGED pair
          BY <5>5
        <5>6. CASE UNCHANGED marks
          BY Zenon, <5>5, <5>6 DEF marks
        <5>7. CASE FinishSave \/ NextPriority \/ Begun \/ StopsCopying
                   \/ GaveUp \/ Moved \/ Read \/ ReadFailed \/ Discs
          BY Zenon, <5>5, <5>7 DEF FinishSave, NextPriority, Begun, ScanBegins, StopsCopying,
                            GaveUp, CopyFails, Moved, Moves, Read, ScanReads,
                            ReadFailed, ScanFails, Discs, Tick, Arrive, Collect,
                            shareVars
        <5> QED BY <1>1, <1>d, <3>2, <5>1, <5>2, <5>3, <5>4, <5>6, <5>7, StepIs,
                   OthersLeaveMarks
      <4> QED BY <1>b, <4>1, <4>2, <2>2
    <3> QED BY <3>1, <3>2
  <2> QED BY <2>3, <2>4
<1>2. CASE Scanned
  <2>1. PICK q \in Sources : PairScanned(q)
    BY <1>2 DEF Scanned
  <2>2. CASE s = q
    <3>1. /\ scan.src = {s} /\ Complete /\ pair' = pair
          /\ work'[s].latest = scan.latest /\ work'[s].copied = None
      BY <2>1, <2>2, ScannedWork
    <3>2. Keeps(s, scan.latest)
      BY <3>1, <1>a DEF ScanKept
    <3>3. known'[s] = known[s]
      BY <3>1, <1>a, <1>d, KnownDoes
    <3>4. KeepsBy(s, scan.latest, disk', ctime', known'[s])
      BY <1>b, <1>c, <3>2, <3>3, KeepsStays
    <3> QED BY <3>1, <3>4
  <2>3. CASE s # q
    <3>1. HasWork(s) /\ work'[s] = work[s] /\ pair'[s] = pair[s]
      BY <2>1, <2>3, ScannedWork
    <3>2. Keeps(s, work[s].latest)
          /\ (work[s].copied # None => pair[s].cleared <= work[s].copied)
      BY <3>1, <1>a DEF WorkKept
    <3>3. known'[s] = known[s]
      BY <3>1, <1>a, <1>d, KnownDoes
    <3>4. KeepsBy(s, work[s].latest, disk', ctime', known'[s])
      BY <1>b, <1>c, <3>2, <3>3, KeepsStays
    <3> QED BY <3>1, <3>2, <3>4
  <2> QED BY <2>2, <2>3
<1> QED BY <1>1, <1>2

-----------------------------------------------------------------------------
(* Work is awaited *)

\* Whoever is active stays so, or the child is about to see to the next
\* priority.
LEMMA AwaitedStays ==
  ASSUME NEW s, Awaited(s), child.pc \notin {"wait", "timedout", "pri"},
         child.retry => child'.retry, child'.todo = child.todo,
         s \in child.scans => s \in child'.scans,
         Active', HasWork(s) => HasWork(s)'
  PROVE  Awaited(s)'
  BY DEF Awaited

LEMMA KicksSoundStep ==
  ASSUME TransferTypeOK, Places, Counted, KicksSound, [TransferNext]_vars
  PROVE  KicksSound'
<1>a. /\ ParentTypes /\ ChildTypes /\ ScanTypes /\ ScanPlaces /\ CopyPlaces
  BY Types DEF Places
<1>b. /\ staleFrom \in Nat /\ kicks \in Nat /\ None = 0 /\ (staleFrom # None => kicks > 0)
      /\ UpToDate = 0 /\ Processing = 1 /\ Stale = 2
      /\ \A s \in Sources :
           /\ pair[s].stale = Stale => staleFrom # None
           /\ pair[s].stale = Processing => Awaited(s)
           /\ pair[s].stale \in {UpToDate, Processing, Stale}
  BY <1>a DEF KicksSound, ParentTypes, UpToDate, Processing, Stale, None
<1>c. \A q \in Sources : Settled(pair[q].stale) # Processing
                         /\ (Settled(pair[q].stale) = Stale => pair[q].stale = Stale)
  BY <1>b DEF Settled
<1>d. ASSUME staleFrom' = staleFrom, kicks' = kicks,
             \A s \in Sources :
               \/ pair'[s].stale = pair[s].stale
               \/ pair'[s].stale = Settled(pair[s].stale)
               \/ pair'[s].stale = Processing,
             \A s \in Sources : pair'[s].stale = Processing => Awaited(s)'
      PROVE  KicksSound'
  BY <1>b, <1>c, <1>d DEF KicksSound
<1>1. ASSUME UNCHANGED <<staleFrom, kicks, pair, work, child>> PROVE KicksSound'
  BY <1>1, <1>b DEF KicksSound, Awaited, HasWork, Active
<1>2. CASE \/ Clients \/ UNCHANGED vars \/ ServeStart \/ FinishSave \/ Discs
           \/ Begun \/ Read \/ ReadFailed \/ ComesAlive \/ Updates \/ Exited
  <2>1. CASE Clients \/ UNCHANGED vars
    BY <1>1, <2>1, ClientsLeave DEF serverSide, shareVars, childVars
  <2>2. CASE ServeStart \/ FinishSave \/ Discs
    BY Zenon, <1>1, <2>2 DEF ServeStart, FinishSave, Discs, Tick, Arrive, Collect,
                      shareVars, childVars
  <2>3. CASE Begun \/ Read \/ ReadFailed
    BY Zenon, <1>1, <2>3 DEF Begun, ScanBegins, Read, ScanReads, ReadFailed, ScanFails,
                      shareVars
  <2>4. CASE ComesAlive \/ Updates \/ Exited
    BY <1>1, <2>4 DEF ComesAlive, Updates, Exited, Exits, cpfsUnchanged,
                      shareVars, childVars
  <2> QED BY <1>2, <2>1, <2>2, <2>3, <2>4
<1>3. CASE Crash
  <2>1. staleFrom' = None /\ pair' = [s \in Sources |-> NoPair]
    BY <1>3 DEF Crash
  <2> QED BY <2>1, <1>b DEF KicksSound, NoPair
<1>4. CASE Restart
  <2>1. /\ \A s \in Sources : pair'[s].stale = (IF saved[s] = NotSaved
                                                THEN UpToDate ELSE Stale)
        /\ staleFrom' = None => \A s \in Sources : saved[s] = NotSaved
        /\ staleFrom' # None => kicks' > 0
    BY <1>4, RestartDoes
  <2> QED BY <2>1, <1>b DEF KicksSound
<1>5. CASE ServeEnd
  <2>1. UNCHANGED childVars
    BY <1>5, ServeEndPairs
  <2>2. CASE UNCHANGED <<pair, staleFrom, kicks>>
    BY <1>1, <2>1, <2>2 DEF childVars
  <2>3. CASE /\ \A s \in Sources : pair'[s].stale = Stale
             /\ staleFrom' # None /\ (staleFrom = None => kicks' > 0)
             /\ (staleFrom # None => UNCHANGED kicks)
    BY <2>3, <1>b DEF KicksSound
  <2> QED BY <1>5, <2>2, <2>3, ServeEndPairs
<1>6. CASE Kicked \/ Retries
  <2>1. /\ staleFrom' = None
        /\ \A s \in Sources : pair'[s].stale = (IF pair[s].stale = UpToDate
                                                THEN UpToDate ELSE Processing)
        /\ child'.pc = "pri" /\ child'.todo = {PriorityOf[s] : s \in Paired}
    BY <1>6, <1>a, WakePairs, WakeDoes
  <2>2. ASSUME NEW s \in Sources, pair'[s].stale = Processing PROVE Awaited(s)'
    <3>1. s \in Paired
      BY <2>1, <2>2, <1>b DEF Paired, NoPair
    <3> QED BY <2>1, <3>1 DEF Awaited
  <2> QED BY <2>1, <2>2, <1>b DEF KicksSound
<1>7. CASE NextPriority
  <2>1. /\ UNCHANGED <<staleFrom, kicks, pair>> /\ child.pc = "pri"
        /\ child'.retry = child.retry
        /\ \/ child.todo = {}
           \/ /\ child'.pc = "scan"
              /\ child'.todo = child.todo \ {Lowest(child.todo)}
              /\ child'.scans = {s \in Paired :
                                   /\ PriorityOf[s] = Lowest(child.todo)
                                   /\ pair[s].stale = Processing}
    BY <1>7, <1>a, NextPriorityDoes DEF NextPriority, shareVars
  <2>2. ASSUME NEW s \in Sources, pair[s].stale = Processing PROVE Awaited(s)'
    <3>1. child.retry \/ PriorityOf[s] \in child.todo
      BY <2>1, <2>2, <1>a, <1>b DEF Awaited, HasWork, Active, ScanPlaces
    <3>2. s \in Paired
      BY <2>2, <1>b DEF Paired, NoPair
    <3> QED BY <2>1, <2>2, <3>1, <3>2 DEF Awaited, Active
  <2> QED BY <1>d, <2>1, <2>2
<1>8. CASE TimesOut
  <2>1. /\ UNCHANGED <<staleFrom, kicks, pair>> /\ child'.pc = "timedout"
    BY <1>8, <1>a DEF TimesOut, ChildTypes, shareVars
  <2> QED BY <1>d, <2>1 DEF Awaited
<1>9. CASE AllScanned \/ NotePid \/ FirstOutput \/ OutputEnds \/ Moved
  <2>1. /\ UNCHANGED <<staleFrom, kicks, pair, work>>
        /\ child'.retry = child.retry /\ child'.todo = child.todo
        /\ child'.scans = child.scans /\ Active /\ Active'
        /\ child.pc \notin {"wait", "timedout", "pri"}
    <3>1. /\ UNCHANGED <<staleFrom, kicks, pair, work>>
      BY <1>9 DEF AllScanned, NotePid, FirstOutput, OutputEnds, Moved, Moves,
                  shareVars, childVars
    <3>2. /\ child'.retry = child.retry /\ child'.todo = child.todo
          /\ child'.scans = child.scans
      BY <1>9, <1>a DEF AllScanned, NotePid, FirstOutput, OutputEnds, Moved, Moves,
                        ChildTypes
    <3>3. child.pc \in {"scan", "note", "read", "check"}
          /\ child'.pc \in {"pick", "read", "check", "moved"}
      BY <1>9, <1>a DEF AllScanned, NotePid, FirstOutput, OutputEnds, Moved, Moves,
                        ChildTypes
    <3> QED BY <3>1, <3>2, <3>3 DEF Active
  <2>2. ASSUME NEW s \in Sources, pair[s].stale = Processing PROVE Awaited(s)'
    BY <2>1, <2>2, <1>b, AwaitedStays DEF HasWork
  <2> QED BY <1>d, <2>1, <2>2
<1>10. CASE Scanned
  <2>1. PICK q \in Sources :
          /\ PairScanned(q) /\ scan.src = {q} /\ child'.pc = child.pc
          /\ child'.scans = child.scans \ {q} /\ child'.todo = child.todo
          /\ child'.retry = (child.retry \/ ~scan.ok)
    BY <1>10, <1>a, ScanDone
  <2>2. child.pc = "scan" /\ Active /\ Active'
    BY <2>1, <1>a DEF ScanPlaces, Active
  <2>3. /\ UNCHANGED <<staleFrom, kicks>>
        /\ \A s \in Sources \ {q} : pair'[s] = pair[s] /\ work'[s] = work[s]
        /\ \/ pair'[q].stale = Settled(pair[q].stale)
           \/ /\ ~scan.ok \/ scan.found # {}
              /\ UNCHANGED pair
        /\ work'[q].copied = None /\ work'[q].n = Cardinality(scan.found)
    BY <2>1, ScannedPairs
  <2>4. ASSUME NEW s \in Sources, pair'[s].stale = Processing PROVE Awaited(s)'
    <3>1. CASE s # q
      <4>1. pair'[s] = pair[s] /\ work'[s] = work[s]
        BY <2>3, <3>1
      <4>2. Awaited(s)
        BY <2>4, <4>1, <1>b
      <4> QED BY <2>1, <2>2, <3>1, <4>1, <4>2, AwaitedStays DEF HasWork
    <3>2. CASE s = q
      <4>1. ~scan.ok \/ scan.found # {}
        BY <2>3, <2>4, <3>2, <1>c
      <4>2. CASE ~scan.ok
        BY <2>1, <4>2 DEF Awaited
      <4>3. CASE scan.found # {}
        <5>1. IsFiniteSet(scan.found)
          BY <1>a, TransferAssumption, FS_Subset DEF ScanTypes
        <5>2. Cardinality(scan.found) \in Nat /\ Cardinality(scan.found) # 0
          BY <4>3, <5>1, FS_CardinalityType, FS_EmptySet
        <5>3. HasWork(s)'
          BY <2>2, <2>3, <3>2, <5>2 DEF HasWork, None, Failed
        <5> QED BY <5>3 DEF Awaited
      <4> QED BY <4>1, <4>2, <4>3
    <3> QED BY <3>1, <3>2
  <2>5. \A s \in Sources : pair'[s].stale = pair[s].stale
                           \/ pair'[s].stale = Settled(pair[s].stale)
    BY <2>3
  <2> QED BY <1>d, <2>3, <2>4, <2>5
<1>11. CASE StopsCopying
  <2>1. /\ UNCHANGED <<staleFrom, kicks, pair>> /\ child.pc = "pick"
        /\ child'.retry = child.retry /\ child'.todo = child.todo
        /\ \/ list = {} /\ child'.pc = "pri"
           \/ staleFrom # None /\ child'.pc = "wait"
    <3>1. /\ UNCHANGED <<staleFrom, kicks, pair>> /\ child.pc = "pick"
          /\ \/ list = {} /\ child' = [child EXCEPT !.pc = "pri"]
             \/ staleFrom # None /\ child' = [child EXCEPT !.pc = "wait"]
      <4>1. staleFrom \in 1 .. child.pri - 1 => staleFrom # None
        BY DEF None
      <4> QED BY <1>11, <4>1 DEF StopsCopying, shareVars
    <3> QED BY <3>1, <1>a DEF ChildTypes
  <2>2. ASSUME NEW s \in Sources, pair[s].stale = Processing PROVE Awaited(s)'
    <3>1. CASE list = {} /\ child'.pc = "pri"
      <4>1. ~HasWork(s)
        <5>1. Of(s, list) = {}
          BY <3>1 DEF Of
        <5>2. HasWork(s) => work[s].n = 0
          BY <2>1, <5>1, FS_EmptySet DEF Counted, HasWork
        <5> QED BY <5>2 DEF HasWork
      <4>2. child.retry \/ PriorityOf[s] \in child.todo
        BY <2>1, <2>2, <4>1, <1>a, <1>b DEF Awaited, ScanPlaces
      <4> QED BY <2>1, <3>1, <4>2 DEF Awaited
    <3>2. CASE staleFrom # None /\ child'.pc = "wait"
      BY <2>1, <3>2, <1>b DEF Awaited
    <3> QED BY <2>1, <3>1, <3>2
  <2> QED BY <1>d, <2>1, <2>2
<1>12. CASE Picked
  <2>1. PICK f \in Files, r \in BOOLEAN : Pick(f, r)
    BY <1>12 DEF Picked
  <2>2. /\ UNCHANGED <<staleFrom, kicks>> /\ child.pc = "pick"
        /\ \A s \in Sources : pair'[s].stale = pair[s].stale
    BY <2>1, PickPairs, PickDoes, <1>a
  <2>3. child'.scans = child.scans /\ child'.todo = child.todo
        /\ (child.retry => child'.retry)
    BY <1>12, <1>a, ChildMoves
  <2>4. \/ child' = child /\ work' = work
        \/ child'.pc = "note" /\ work' = work
        \/ child'.retry
    BY <2>1, <1>a, PickDoes
  <2>5. ASSUME NEW s \in Sources, pair[s].stale = Processing PROVE Awaited(s)'
    <3>1. CASE child'.retry
      BY <3>1 DEF Awaited
    <3>2. CASE work' = work /\ child'.pc \in {"pick", "note"}
      BY <2>2, <2>3, <2>5, <3>2, <1>b, AwaitedStays DEF HasWork, Active
    <3> QED BY <2>2, <2>4, <3>1, <3>2
  <2> QED BY <1>d, <2>2, <2>5
<1>13. CASE Finished
  <2>1. PICK f \in Files : Copied(f)
    BY <1>13 DEF Finished
  <2>2. /\ UNCHANGED <<staleFrom, kicks>>
        /\ \A q \in Sources \ {SourceOf[f]} : pair'[q] = pair[q]
        /\ \/ UNCHANGED pair /\ work[SourceOf[f]].n - 1 > 0
           \/ pair'[SourceOf[f]].stale = Settled(pair[SourceOf[f]].stale)
    BY <2>1, CopiedPairs
  <2>3. child'.scans = child.scans /\ child'.todo = child.todo
        /\ (child.retry => child'.retry)
    BY <1>13, <1>a, ChildMoves
  <2>4. /\ SourceOf[f] \in Sources /\ child.pc = "moved" /\ child'.pc = "pick"
        /\ work' = [work EXCEPT ![SourceOf[f]].copied = ctime[f],
                                ![SourceOf[f]].n = work[SourceOf[f]].n - 1]
    BY <2>1, <1>a, CopiedDoes
  <2>5. /\ \A q \in Sources \ {SourceOf[f]} : work'[q] = work[q]
        /\ work'[SourceOf[f]].copied = ctime[f] /\ ctime[f] \in Nat
        /\ work'[SourceOf[f]].n = work[SourceOf[f]].n - 1
    <3>1. work \in [Sources -> [copied : Nat \cup {Failed}, n : Nat, latest : Nat]]
      BY <1>a DEF ChildTypes
    <3> QED BY <2>4, <3>1, Numbers
  <2>6. ASSUME NEW s \in Sources, pair'[s].stale = Processing PROVE Awaited(s)'
    <3>1. CASE s # SourceOf[f]
      <4>1. pair'[s] = pair[s] /\ work'[s] = work[s]
        BY <2>2, <2>5, <3>1
      <4>2. Awaited(s)
        BY <2>6, <4>1, <1>b
      <4> QED BY <2>3, <2>4, <4>1, <4>2, AwaitedStays DEF HasWork, Active
    <3>2. CASE s = SourceOf[f]
      <4>1. work[s].n - 1 > 0
        BY <2>2, <2>6, <3>2, <1>c
      <4>2. work'[s].copied # Failed
        BY <2>5, <3>2 DEF Failed
      <4>3. HasWork(s)'
        BY <2>4, <2>5, <3>2, <4>1, <4>2 DEF HasWork, Active
      <4> QED BY <4>3 DEF Awaited
    <3> QED BY <3>1, <3>2
  <2>7. \A s \in Sources : pair'[s].stale = pair[s].stale
                           \/ pair'[s].stale = Settled(pair[s].stale)
    BY <2>2
  <2> QED BY <1>d, <2>2, <2>6, <2>7
<1>14. CASE GaveUp
  <2>1. PICK f \in Files : CopyFails(f)
    BY <1>14 DEF GaveUp
  <2>2. UNCHANGED <<staleFrom, kicks, pair>>
    BY <2>1 DEF CopyFails, shareVars
  <2>3. child'.retry
    BY <2>1, <1>a, CopyFailsDoes
  <2> QED BY <1>d, <2>2, <2>3 DEF Awaited
<1> QED BY <1>2, <1>3, <1>4, <1>5, <1>6, <1>7, <1>8, <1>9, <1>10, <1>11, <1>12,
           <1>13, <1>14, StepIs

-----------------------------------------------------------------------------
(* cpfs is told *)

\* What of the child cpfs depends on.
LEMMA CopierStays ==
  ASSUME CopierSound, UNCHANGED <<limit, cp, raced>>, events' = events,
         \/ /\ child'.pc = child.pc /\ child'.heard = child.heard
            /\ child'.limit = child.limit
         \/ /\ child'.pc \notin {"note", "read"} /\ cp.st # "forked"
  PROVE  CopierSound'
  BY DEF CopierSound, CopiesSlowly

\* Switching the limit while cpfs runs, it is told, and has come alive already
\* or there was a race.
LEMMA LimitSound ==
  ASSUME CopierTypes, ChildTypes, CopyPlaces, CopierSound, UNCHANGED child,
         NEW on \in BOOLEAN, SetLimit(on), on <=> events' # {}
  PROVE  CopierSound'
<1>1. limit' = on
  BY SetLimitDoes
<1>2. CASE ~(limit # on /\ pid) /\ UNCHANGED <<cp, raced>>
  <2>1. CASE child.pc = "read"
    <3>1. pid
      BY <2>1 DEF CopyPlaces
    <3>2. limit' = limit
      BY <1>1, <1>2, <3>1
    <3> QED BY <1>1, <1>2, <3>2 DEF CopierSound, CopiesSlowly
  <2>2. CASE child.pc # "read"
    BY <1>1, <1>2, <2>2 DEF CopierSound, CopiesSlowly
  <2> QED BY <2>1, <2>2
<1>3. CASE /\ limit # on /\ pid /\ cp' = Signalled(IF on THEN "slow" ELSE "fast")
           /\ raced' = ~child.heard
  <2>1. child.pc = "read"
    BY <1>3 DEF CopyPlaces
  <2>2. /\ cp'.st = cp.st /\ cp'.slow = cp.slow
        /\ cp'.sig = (IF cp.st = "running" THEN (IF on THEN "slow" ELSE "fast")
                      ELSE cp.sig)
    BY <1>3, SignalledDoes
  <2>3. cp'.st = "running" => (CopiesSlowly' <=> on)
    BY <2>2 DEF CopiesSlowly
  <2>4. cp'.st = "forked" => cp'.slow /\ cp'.sig = "none"
                               /\ ~(child'.pc = "read" /\ child'.heard)
    BY <2>2 DEF CopierSound
  <2>5. ~raced' => child'.heard
    BY <1>3
  <2> QED BY <1>1, <2>1, <2>3, <2>4, <2>5 DEF CopierSound
<1> QED BY <1>2, <1>3, SetLimitDoes

LEMMA CopierSoundStep ==
  ASSUME TransferTypeOK, Places, CopierSound, [TransferNext]_vars
  PROVE  CopierSound'
<1>a. /\ CopierTypes /\ ChildTypes /\ ScanTypes /\ ScanPlaces /\ CopyPlaces /\ UpPlaces
  BY Types DEF Places
\* Steps of the child elsewhere.
<1>b. ASSUME UNCHANGED <<limit, cp, raced>>, events' = events,
             child.pc \notin {"note", "read"}, child'.pc \notin {"note", "read"}
      PROVE  CopierSound'
  <2>1. cp.st # "forked"
    BY <1>a, <1>b DEF CopyPlaces
  <2> QED BY <1>b, <2>1, CopierStays
<1>1. CASE Clients \/ UNCHANGED vars
  BY <1>1, ClientsLeave, CopierStays DEF serverSide, parentVars, shareVars, childVars
<1>2. CASE Discs \/ Restart \/ FinishSave
  <2>1. UNCHANGED <<limit, cp, raced, child, events>>
    BY Zenon, <1>2 DEF Discs, Tick, Arrive, Collect, Restart, FinishSave, parentVars,
                shareVars, childVars, historyVars
  <2> QED BY <2>1, CopierStays
<1>3. CASE Begun \/ Read \/ ReadFailed
  <2>1. UNCHANGED <<limit, cp, raced, child, events>>
    BY Zenon, <1>3 DEF Begun, ScanBegins, Read, ScanReads, ReadFailed, ScanFails,
                parentVars, shareVars, historyVars
  <2> QED BY <2>1, CopierStays
<1>4. CASE Crash
  <2>1. limit' = FALSE /\ events' = {} /\ cp' = NoCopy /\ child' = IdleChild
    BY <1>4 DEF Crash
  <2> QED BY <2>1 DEF CopierSound, NoCopy, IdleChild
<1>5. CASE ServeStart
  <2>1. /\ SetLimit(TRUE) /\ events' # {} /\ UNCHANGED child
    BY <1>5 DEF ServeStart, childVars
  <2> QED BY <1>a, <2>1, LimitSound
<1>6. CASE ServeEnd
  <2>1. /\ SetLimit(limit /\ events' # {}) /\ events' \subseteq events
        /\ UNCHANGED child
    BY <1>6 DEF ServeEnd, childVars
  <2>2. (limit /\ events' # {}) <=> events' # {}
    BY <2>1 DEF CopierSound
  <2>3. (limit /\ events' # {}) \in BOOLEAN
    OBVIOUS
  <2> QED BY <1>a, <2>1, <2>2, <2>3, LimitSound
<1>7. CASE Kicked \/ Retries \/ TimesOut \/ NextPriority \/ AllScanned \/ Scanned
           \/ StopsCopying \/ Moved
  <2>1. UNCHANGED <<limit, cp, raced>>
    BY <1>7, OthersLeaveCopier
  <2>2. events' = events
    BY <1>7 DEF Kicked, Retries, Wake, TimesOut, NextPriority, AllScanned, Scanned,
                PairScanned, StopsCopying, Moved, Moves, parentVars
  <2>3. child.pc \notin {"note", "read"} /\ child'.pc \notin {"note", "read"}
    <3>1. CASE Kicked \/ Retries
      BY <3>1, WakeDoes
    <3>2. CASE NextPriority
      BY <1>a, <3>2, NextPriorityDoes
    <3>3. CASE TimesOut \/ AllScanned \/ StopsCopying \/ Moved
      BY <1>a, <3>3 DEF TimesOut, AllScanned, StopsCopying, Moved, Moves, ChildTypes
    <3>4. CASE Scanned
      BY <1>a, <3>4, ScanDone DEF ScanPlaces
    <3> QED BY <1>7, <3>1, <3>2, <3>3, <3>4
  <2> QED BY <1>b, <2>1, <2>2, <2>3
<1>8. CASE NotePid
  <2>1. /\ child.pc = "note" /\ raced' = FALSE /\ UNCHANGED <<limit, cp, events>>
        /\ child'.pc = "read" /\ child'.heard = FALSE /\ child'.limit = limit
    BY <1>8, <1>a DEF NotePid, ChildTypes, parentVars
  <2>2. CopiesSlowly' = CopiesSlowly
    BY <2>1 DEF CopiesSlowly
  <2> QED BY <2>1, <2>2 DEF CopierSound
<1>9. CASE FirstOutput
  <2>1. /\ child.pc = "read" /\ ~child.heard /\ cp.st \in {"running", "done"}
        /\ child'.pc = "read" /\ child'.heard = TRUE /\ child'.limit = child.limit
        /\ cp' = (IF child.limit THEN cp ELSE Signalled("fast"))
        /\ UNCHANGED <<limit, raced, events>>
    BY <1>9, <1>a DEF FirstOutput, ChildTypes, parentVars, shareVars, historyVars
  <2>2. CASE child.limit
    <3>1. cp' = cp /\ CopiesSlowly' = CopiesSlowly
      BY <2>1, <2>2 DEF CopiesSlowly
    <3> QED BY <2>1, <2>2, <3>1 DEF CopierSound
  <2>3. CASE ~child.limit
    <3>1. /\ cp'.st = cp.st /\ (cp.st = "running" => cp'.sig = "fast")
      BY <1>a, <2>1, <2>3, SignalledDoes
    <3>2. cp'.st = "running" => ~CopiesSlowly'
      BY <3>1 DEF CopiesSlowly
    <3> QED BY <2>1, <2>3, <3>1, <3>2 DEF CopierSound
  <2> QED BY <2>2, <2>3
<1>10. CASE OutputEnds
  <2>1. /\ cp.st = "done" /\ child'.pc = "check"
        /\ UNCHANGED <<limit, raced, events, cp>>
    BY <1>10, <1>a DEF OutputEnds, ChildTypes, parentVars, historyVars
  <2> QED BY <2>1, CopierStays
<1>11. CASE Picked
  <2>1. PICK f \in Files, r \in BOOLEAN : Pick(f, r)
    BY <1>11 DEF Picked
  <2>2. /\ child.pc = "pick" /\ UNCHANGED <<limit, raced, events>>
        /\ \/ UNCHANGED <<child, cp>>
           \/ /\ child'.pc = "note"
              /\ cp' = [NoCopy EXCEPT !.st = "forked", !.file = {f}]
           \/ child'.pc = "pick" /\ UNCHANGED cp
    BY <1>a, <2>1, PickDoes
  <2>3. CASE child'.pc = "pick" /\ UNCHANGED cp
    BY <1>b, <2>2, <2>3
  <2>4. CASE /\ child'.pc = "note"
             /\ cp' = [NoCopy EXCEPT !.st = "forked", !.file = {f}]
    <3>1. cp'.st = "forked" /\ cp'.slow /\ cp'.sig = "none"
      BY <2>4 DEF NoCopy
    <3> QED BY <2>2, <2>4, <3>1 DEF CopierSound
  <2> QED BY <2>2, <2>3, <2>4
<1>12. CASE Finished \/ GaveUp
  <2>1. /\ child'.pc = "pick" /\ cp' = NoCopy /\ UNCHANGED <<limit, events>>
    BY <1>12, <1>a, CopiedDoes, CopyFailsDoes DEF Finished, GaveUp
  <2> QED BY <2>1 DEF CopierSound, NoCopy
<1>13. CASE ComesAlive \/ Updates \/ Exited
  <2>1. /\ UNCHANGED <<child, limit, events, raced>>
        /\ \/ /\ cp.st = "forked" /\ cp'.st = "running"
              /\ cp'.slow = cp.slow /\ cp'.sig = cp.sig
           \/ /\ cp.st = "running" /\ cp'.st = "running" /\ cp.sig # "none"
              /\ cp'.slow = CopiesSlowly /\ cp'.sig = "none"
           \/ cp.st = "running" /\ cp'.st = "done"
    BY <1>a, <1>13, CpfsDoes
  <2>2. CASE /\ cp.st = "forked" /\ cp'.st = "running"
             /\ cp'.slow = cp.slow /\ cp'.sig = cp.sig
    <3>1. CopiesSlowly' /\ ~(child.pc = "read" /\ child.heard)
      BY <2>2 DEF CopierSound, CopiesSlowly
    <3>2. child.pc \in {"note", "read"}
      BY <1>a, <2>2 DEF CopyPlaces
    <3> QED BY <2>1, <2>2, <3>1, <3>2 DEF CopierSound
  <2>3. CASE /\ cp.st = "running" /\ cp'.st = "running" /\ cp.sig # "none"
             /\ cp'.slow = CopiesSlowly /\ cp'.sig = "none"
    <3>1. CopiesSlowly' = CopiesSlowly
      BY <2>3 DEF CopiesSlowly
    <3> QED BY <2>1, <2>3, <3>1 DEF CopierSound
  <2>4. CASE cp.st = "running" /\ cp'.st = "done"
    BY <2>1, <2>4 DEF CopierSound
  <2> QED BY <2>1, <2>2, <2>3, <2>4
<1> QED BY <1>1, <1>2, <1>3, <1>4, <1>5, <1>6, <1>7, <1>8, <1>9, <1>10, <1>11,
           <1>12, <1>13, StepIs

-----------------------------------------------------------------------------
(* The server is told of the uses of the discs *)

LEMMA SendDoes ==
  ASSUME NEW m, NEW d \in BOOLEAN, Send(m, d)
  PROVE  (d /\ net' = Append(net, m)) \/ (~d /\ net' = net)
  BY DEF Send

LEMMA AppendIs ==
  ASSUME ClientTypes, NEW m, net' = Append(net, m)
  PROVE  /\ Len(net) \in Nat /\ Len(net') = Len(net) + 1
         /\ \A n \in 1 .. Len(net) : net'[n] = net[n]
         /\ net'[Len(net) + 1] = m
<1> DEFINE M == [kind : {"start", "end", "clear"}, client : Recorders \cup Players,
                 index : Nat]
<1>1. net \in Seq(M)
  BY DEF ClientTypes
<1> HIDE DEF M
<1> QED BY <1>1

LEMMA TailIs ==
  ASSUME ClientTypes, net # <<>>, net' = Tail(net)
  PROVE  /\ Len(net) \in Nat \ {0} /\ Len(net') = Len(net) - 1
         /\ \A n \in 1 .. Len(net') : net'[n] = net[n + 1]
         /\ Head(net) = net[1]
<1> DEFINE M == [kind : {"start", "end", "clear"}, client : Recorders \cup Players,
                 index : Nat]
<1>1. net \in Seq(M)
  BY DEF ClientTypes
<1> HIDE DEF M
<1> QED BY <1>1

\* A message that is sent leaves in force what it does not end, ...
LEMMA InForceSent ==
  ASSUME ClientTypes, NEW c, NEW i, InForce(c, i), events' = events,
         NEW m, ~Ends(m, c, i), net' = Append(net, m)
  PROVE  InForce(c, i)'
<1>1. /\ Len(net) \in Nat /\ Len(net') = Len(net) + 1
      /\ \A n \in 1 .. Len(net) : net'[n] = net[n]
      /\ net'[Len(net) + 1] = m
  BY AppendIs
<1>2. ASSUME NEW k \in Nat, \A n \in k + 1 .. Len(net) : ~Ends(net[n], c, i)
      PROVE  \A n \in k + 1 .. Len(net') : ~Ends(net'[n], c, i)
  <2> SUFFICES ASSUME NEW n \in k + 1 .. Len(net') PROVE ~Ends(net'[n], c, i)
    OBVIOUS
  <2>1. CASE n = Len(net) + 1
    BY <1>1, <2>1
  <2>2. CASE n # Len(net) + 1
    <3>1. n \in k + 1 .. Len(net) /\ n \in 1 .. Len(net)
      BY <1>1, <2>2
    <3> QED BY <1>1, <1>2, <3>1
  <2> QED BY <2>1, <2>2
<1>3. CASE <<c, i>> \in events /\ \A n \in 1 .. Len(net) : ~Ends(net[n], c, i)
  <2>1. \A n \in 0 + 1 .. Len(net) : ~Ends(net[n], c, i)
    BY <1>3
  <2>2. \A n \in 0 + 1 .. Len(net') : ~Ends(net'[n], c, i)
    BY <1>2, <2>1
  <2> QED BY <1>3, <2>2 DEF InForce, Ends
<1>4. CASE \E n \in 1 .. Len(net) :
             net[n] = Start(c, i) /\ \A k \in n + 1 .. Len(net) : ~Ends(net[k], c, i)
  <2>1. PICK n \in 1 .. Len(net) :
          net[n] = Start(c, i) /\ \A k \in n + 1 .. Len(net) : ~Ends(net[k], c, i)
    BY <1>4
  <2>2. n \in Nat /\ n \in 1 .. Len(net') /\ net'[n] = Start(c, i)
    BY <1>1, <2>1
  <2>3. \A k \in n + 1 .. Len(net') : ~Ends(net'[k], c, i)
    BY <1>2, <2>1, <2>2
  <2> QED BY <2>2, <2>3 DEF InForce, Ends, Start
<1> QED BY <1>3, <1>4 DEF InForce

\* ... and puts in force what it starts.
LEMMA InForceStarted ==
  ASSUME ClientTypes, NEW c, NEW i, net' = Append(net, Start(c, i))
  PROVE  InForce(c, i)'
<1>1. /\ Len(net) \in Nat /\ Len(net') = Len(net) + 1
      /\ net'[Len(net) + 1] = Start(c, i)
  BY AppendIs
<1>2. Len(net) + 1 \in 1 .. Len(net') /\ Len(net) + 1 + 1 .. Len(net') = {}
  BY <1>1
<1> QED BY <1>1, <1>2 DEF InForce, Start

\* Serving one message.
LEMMA InForceServed ==
  ASSUME ClientTypes, NEW c, NEW i, InForce(c, i), net # <<>>, net' = Tail(net),
         Head(net) = Start(c, i) => <<c, i>> \in events',
         <<c, i>> \in events /\ ~Ends(Head(net), c, i) => <<c, i>> \in events'
  PROVE  InForce(c, i)'
<1>1. /\ Len(net) \in Nat \ {0} /\ Len(net') = Len(net) - 1
      /\ \A n \in 1 .. Len(net') : net'[n] = net[n + 1]
      /\ Head(net) = net[1]
  BY TailIs
<1>2. ASSUME NEW k \in Nat, \A n \in k + 1 .. Len(net) : ~Ends(net[n], c, i)
      PROVE  \A n \in k .. Len(net') : n \in Nat \ {0} => ~Ends(net'[n], c, i)
  <2> SUFFICES ASSUME NEW n \in k .. Len(net'), n \in Nat \ {0}
               PROVE  ~Ends(net'[n], c, i)
    OBVIOUS
  <2>1. n + 1 \in k + 1 .. Len(net) /\ n \in 1 .. Len(net')
    BY <1>1
  <2> QED BY <1>1, <1>2, <2>1
<1>3. CASE <<c, i>> \in events /\ \A n \in 1 .. Len(net) : ~Ends(net[n], c, i)
  <2>1. <<c, i>> \in events'
    <3>1. ~Ends(net[1], c, i)
      BY <1>1, <1>3
    <3> QED BY <1>1, <1>3, <3>1
  <2>2. \A n \in 1 .. Len(net') : ~Ends(net'[n], c, i)
    <3>1. \A n \in 0 + 1 .. Len(net) : ~Ends(net[n], c, i)
      BY <1>3
    <3>2. \A n \in 0 .. Len(net') : n \in Nat \ {0} => ~Ends(net'[n], c, i)
      BY <1>2, <3>1
    <3> QED BY <1>1, <3>2
  <2> QED BY <2>1, <2>2 DEF InForce, Ends
<1>4. CASE \E n \in 1 .. Len(net) :
             net[n] = Start(c, i) /\ \A k \in n + 1 .. Len(net) : ~Ends(net[k], c, i)
  <2>1. PICK n \in 1 .. Len(net) :
          net[n] = Start(c, i) /\ \A k \in n + 1 .. Len(net) : ~Ends(net[k], c, i)
    BY <1>4
  <2>2. \A k \in n .. Len(net') : k \in Nat \ {0} => ~Ends(net'[k], c, i)
    BY <1>1, <1>2, <2>1
  <2>3. CASE n = 1
    <3>1. <<c, i>> \in events'
      BY <1>1, <2>1, <2>3
    <3>2. \A k \in 1 .. Len(net') : ~Ends(net'[k], c, i)
      BY <1>1, <2>2, <2>3
    <3> QED BY <3>1, <3>2 DEF InForce, Ends
  <2>4. CASE n # 1
    <3>1. n - 1 \in 1 .. Len(net') /\ net'[n - 1] = Start(c, i)
      <4>1. n - 1 \in 1 .. Len(net') /\ (n - 1) + 1 = n
        BY <1>1, <2>4
      <4> QED BY <1>1, <2>1, <4>1
    <3>2. \A k \in (n - 1) + 1 .. Len(net') : ~Ends(net'[k], c, i)
      BY <1>1, <2>2
    <3> QED BY <3>1, <3>2 DEF InForce, Ends, Start
  <2> QED BY <2>3, <2>4
<1> QED BY <1>3, <1>4 DEF InForce

\* A use goes on, and is known to be missed, told or on its way.
LEMMA UseStays ==
  ASSUME ClientTypes, UsesTold, events' = events,
         NEW c \in Recorders \cup Players, NEW i \in 0 .. MaxIndex, UsesDiscs(c, i),
         <<c, i>> \in missed => <<c, i>> \in missed',
         net' = net \/ \E m : net' = Append(net, m) /\ ~Ends(m, c, i)
  PROVE  <<c, i>> \in missed' \/ InForce(c, i)'
<1>1. <<c, i>> \in missed \/ InForce(c, i)
  BY DEF UsesTold
<1>2. CASE net' = net
  BY <1>1, <1>2 DEF InForce
<1>3. CASE \E m : net' = Append(net, m) /\ ~Ends(m, c, i)
  BY <1>1, <1>3, InForceSent
<1> QED BY <1>2, <1>3

LEMMA RecordersUse ==
  ASSUME ClientTypes, UsesSound, events' = events,
         NEW c \in Recorders, NEW d \in BOOLEAN,
         \/ Begin(c, d) \/ RecorderRestart(c, d) \/ RecorderCrash(c)
         \/ \E i \in 1 .. MaxIndex : Finish(c, i, d)
  PROVE  UsesSound'
<1>a. /\ client \in [Recorders -> [up : BOOLEAN, index : Nat, on : SUBSET Nat]]
      /\ MaxIndex \in Nat /\ Recorders \cap Players = {}
  BY TransferAssumption DEF ClientTypes
<1>b. RecordersSound /\ PlayersSound /\ UsesTold
  BY DEF UsesSound
<1>c. ASSUME UNCHANGED player PROVE PlayersSound'
  BY <1>b, <1>c DEF PlayersSound
\* The uses of the others, and those that c goes on with.
<1>d. ASSUME UNCHANGED player,
             \A r \in Recorders \ {c} : client'[r].on = client[r].on,
             NEW b \in Recorders \cup Players, NEW i \in 0 .. MaxIndex,
             UsesDiscs(b, i)',
             b = c => i \in client[c].on
      PROVE  UsesDiscs(b, i)
  BY <1>a, <1>d DEF UsesDiscs
<1>1. CASE Begin(c, d)
  <2> DEFINE k == client[c].index + 1
  <2>1. /\ UNCHANGED player /\ client[c].up /\ k <= MaxIndex
        /\ client' = [client EXCEPT ![c].index = k, ![c].on = @ \cup {k}]
        /\ Send(Start(c, k), d)
        /\ missed' = IF d THEN missed ELSE missed \cup {<<c, k>>}
    BY <1>1 DEF Begin
  <2>2. /\ client'[c].index = k /\ client'[c].on = client[c].on \cup {k}
        /\ client'[c].up = client[c].up
        /\ \A r \in Recorders \ {c} : client'[r] = client[r]
    BY <1>a, <2>1
  <2>3. k \in Nat \ {0} /\ client[c].index \in Nat /\ k = client[c].index + 1
    BY <1>a
  <2>4. RecordersSound'
    <3>1. client[c].on \subseteq 1 .. client[c].index
      BY <1>a, <1>b DEF RecordersSound
    <3>2. client'[c].on \subseteq 1 .. k
      BY <2>2, <2>3, <3>1
    <3> QED BY <1>b, <2>1, <2>2, <3>2 DEF RecordersSound
  <2>5. ASSUME NEW b \in Recorders \cup Players, NEW i \in 0 .. MaxIndex,
               UsesDiscs(b, i)'
        PROVE  <<b, i>> \in missed' \/ InForce(b, i)'
    <3>1. CASE b = c /\ i = k
      BY <2>1, <3>1, SendDoes, InForceStarted
    <3>2. CASE ~(b = c /\ i = k)
      <4>1. b = c => i \in client[c].on
        BY <1>a, <2>2, <2>5, <3>2 DEF UsesDiscs
      <4>2. UsesDiscs(b, i)
        BY <1>d, <2>1, <2>2, <2>5, <4>1
      <4>3. ~Ends(Start(c, k), b, i)
        BY DEF Ends, Start
      <4> QED BY <1>b, <2>1, <4>2, <4>3, SendDoes, UseStays
    <3> QED BY <3>1, <3>2
  <2> QED BY <1>c, <2>1, <2>4, <2>5 DEF UsesSound, UsesTold
<1>2. CASE \E i \in 1 .. MaxIndex : Finish(c, i, d)
  <2>1. PICK k \in 1 .. MaxIndex : Finish(c, k, d)
    BY <1>2
  <2>2. /\ UNCHANGED player /\ client' = [client EXCEPT ![c].on = @ \ {k}]
        /\ Send(End(c, k), d) /\ missed' = missed \ {<<c, k>>}
    BY <2>1 DEF Finish
  <2>3. /\ client'[c].index = client[c].index /\ client'[c].on = client[c].on \ {k}
        /\ client'[c].up = client[c].up
        /\ \A r \in Recorders \ {c} : client'[r] = client[r]
    BY <1>a, <2>2
  <2>4. RecordersSound'
    BY <1>a, <1>b, <2>3 DEF RecordersSound
  <2>5. ASSUME NEW b \in Recorders \cup Players, NEW i \in 0 .. MaxIndex,
               UsesDiscs(b, i)'
        PROVE  <<b, i>> \in missed' \/ InForce(b, i)'
    <3>1. b = c => i \in client[c].on /\ i # k
      BY <1>a, <2>3, <2>5 DEF UsesDiscs
    <3>2. UsesDiscs(b, i)
      BY <1>d, <2>2, <2>3, <2>5, <3>1
    <3>3. ~Ends(End(c, k), b, i)
      BY <3>1 DEF Ends, End
    <3>4. <<b, i>> # <<c, k>>
      BY <3>1
    <3> QED BY <1>b, <2>2, <3>2, <3>3, <3>4, SendDoes, UseStays
  <2> QED BY <1>c, <2>2, <2>4, <2>5 DEF UsesSound, UsesTold
<1>3. CASE RecorderCrash(c)
  <2>1. /\ UNCHANGED <<player, net>>
        /\ client' = [client EXCEPT ![c] = [up |-> FALSE, index |-> 0, on |-> {}]]
        /\ missed' = {e \in missed : e[1] # c}
    BY <1>3 DEF RecorderCrash
  <2>2. /\ client'[c] = [up |-> FALSE, index |-> 0, on |-> {}]
        /\ \A r \in Recorders \ {c} : client'[r] = client[r]
    BY <1>a, <2>1
  <2>3. RecordersSound'
    <3>1. client'[c].on = {} /\ client'[c].index = 0
      BY <2>2
    <3> QED BY <1>a, <1>b, <2>2, <3>1 DEF RecordersSound
  <2>4. ASSUME NEW b \in Recorders \cup Players, NEW i \in 0 .. MaxIndex,
               UsesDiscs(b, i)'
        PROVE  <<b, i>> \in missed' \/ InForce(b, i)'
    <3>1. b # c
      BY <1>a, <2>2, <2>4 DEF UsesDiscs
    <3>2. UsesDiscs(b, i)
      BY <1>d, <2>1, <2>2, <2>4, <3>1
    <3>3. <<b, i>> \in missed => <<b, i>> \in missed'
      BY <2>1, <3>1
    <3> QED BY <1>b, <2>1, <3>2, <3>3, UseStays
  <2> QED BY <1>c, <2>1, <2>3, <2>4 DEF UsesSound, UsesTold
<1>4. CASE RecorderRestart(c, d)
  <2>1. /\ UNCHANGED <<player, missed>> /\ ~client[c].up
        /\ client' = [client EXCEPT ![c].up = TRUE]
        /\ net' = net \/ Send(Clear(c), d)
    BY <1>4 DEF RecorderRestart
  <2>2. /\ client'[c].up /\ client'[c].on = client[c].on
        /\ client'[c].index = client[c].index
        /\ \A r \in Recorders \ {c} : client'[r] = client[r]
    BY <1>a, <2>1
  <2>3. RecordersSound'
    BY <1>a, <1>b, <2>2 DEF RecordersSound
  <2>4. ASSUME NEW b \in Recorders \cup Players, NEW i \in 0 .. MaxIndex,
               UsesDiscs(b, i)'
        PROVE  <<b, i>> \in missed' \/ InForce(b, i)'
    <3>1. client[c].on = {}
      BY <1>a, <1>b, <2>1 DEF RecordersSound
    <3>2. b # c
      BY <1>a, <2>2, <2>4, <3>1 DEF UsesDiscs
    <3>3. UsesDiscs(b, i)
      BY <1>d, <2>1, <2>2, <2>4, <3>2
    <3>4. ~Ends(Clear(c), b, i)
      BY <3>2 DEF Ends, Clear
    <3> QED BY <1>b, <2>1, <3>3, <3>4, SendDoes, UseStays
  <2> QED BY <1>c, <2>1, <2>3, <2>4 DEF UsesSound, UsesTold
<1> QED BY <1>1, <1>2, <1>3, <1>4

LEMMA PlayersUse ==
  ASSUME ClientTypes, UsesSound, events' = events,
         NEW p \in Players, NEW d \in BOOLEAN,
         \/ SocketOpened(p, d) \/ Quit(p, d)
         \/ Play(p) \/ SocketFails(p) \/ PlayerCrash(p)
  PROVE  UsesSound'
<1>a. /\ player \in [Players -> [up : BOOLEAN, playing : BOOLEAN, sent : BOOLEAN,
                                  opening : {"no", "yes", "failed"}]]
      /\ Recorders \cap Players = {}
  BY TransferAssumption DEF ClientTypes
<1>b. RecordersSound /\ PlayersSound /\ UsesTold
  BY DEF UsesSound
<1>c. UNCHANGED client
  BY DEF SocketOpened, Quit, Play, SocketFails, PlayerCrash
<1>d. RecordersSound'
  BY <1>b, <1>c DEF RecordersSound
<1>e. \A q \in Players \ {p} : player'[q] = player[q]
  BY <1>a DEF SocketOpened, Quit, Play, TrafficControl, SocketFails, PlayerCrash
<1>f. ASSUME NEW b \in Recorders \cup Players, NEW i \in 0 .. MaxIndex,
             UsesDiscs(b, i)', b # p
      PROVE  UsesDiscs(b, i)
  BY <1>a, <1>c, <1>e, <1>f DEF UsesDiscs
<1>g. ASSUME player'[p].playing => player'[p].up,
             player'[p].up /\ player'[p].opening = "no" =>
               player'[p].sent = player'[p].playing
      PROVE  PlayersSound'
  BY <1>b, <1>e, <1>g DEF PlayersSound
\* Unless p uses the discs, it remains that nothing is ended for the others.
<1>h. ASSUME ~(player'[p].playing /\ player'[p].opening = "no"),
             \A b \in Recorders \cup Players, i \in 0 .. MaxIndex :
               b # p /\ <<b, i>> \in missed => <<b, i>> \in missed',
             net' = net \/ \E m : net' = Append(net, m) /\ m.client = p
      PROVE  UsesTold'
  <2> SUFFICES ASSUME NEW b \in Recorders \cup Players, NEW i \in 0 .. MaxIndex,
                      UsesDiscs(b, i)'
               PROVE  <<b, i>> \in missed' \/ InForce(b, i)'
    BY DEF UsesTold
  <2>1. b # p
    BY <1>a, <1>h DEF UsesDiscs
  <2>2. UsesDiscs(b, i)
    BY <1>f, <2>1
  <2>3. net' = net \/ \E m : net' = Append(net, m) /\ ~Ends(m, b, i)
    BY <1>h, <2>1 DEF Ends
  <2> QED BY <1>b, <1>h, <2>1, <2>2, <2>3, UseStays
<1>1. CASE Play(p)
  <2>1. /\ net' = net /\ missed' = missed \ {<<p, 0>>}
        /\ \/ player[p].up /\ \E on \in {~player[p].playing} : TrafficControl(p, on)
           \/ ~player[p].up /\ TrafficControl(p, FALSE)
    BY <1>1 DEF Play
  <2>2. player'[p].up /\ (player'[p].opening = "no" => ~player'[p].playing
                            /\ player'[p].sent = player'[p].playing)
    <3>1. CASE player[p].up
      <4>1. /\ player'[p].up /\ player'[p].playing = ~player[p].playing
            /\ player'[p].sent = player[p].sent
            /\ player'[p].opening =
                 (IF player[p].opening = "no" /\ (~player[p].playing) # player[p].sent
                  THEN "yes" ELSE player[p].opening)
        BY <1>a, <2>1, <3>1 DEF TrafficControl
      <4>2. player[p].opening = "no" => player[p].sent = player[p].playing
        BY <1>b, <3>1 DEF PlayersSound
      <4>3. player[p].sent \in BOOLEAN /\ player[p].playing \in BOOLEAN
        BY <1>a
      <4>4. player'[p].opening # "no"
        BY <4>1, <4>2, <4>3
      <4> QED BY <4>1, <4>4
    <3>2. CASE ~player[p].up
      <4>1. /\ player'[p].up /\ player'[p].playing = FALSE
            /\ player'[p].sent = player[p].sent
            /\ player'[p].opening =
                 (IF player[p].opening = "no" /\ FALSE # player[p].sent
                  THEN "yes" ELSE player[p].opening)
        <5>1. player' = [player EXCEPT
                          ![p].up = TRUE, ![p].playing = FALSE,
                          ![p].opening = IF @ = "no" /\ FALSE # player[p].sent
                                         THEN "yes" ELSE @]
          BY <2>1, <3>2 DEF TrafficControl
        <5> QED BY <1>a, <5>1
      <4>2. player[p].sent \in BOOLEAN
        BY <1>a
      <4>3. player'[p].opening = "no" => player'[p].sent = FALSE
        BY <4>1, <4>2
      <4> QED BY <4>1, <4>3
    <3> QED BY <3>1, <3>2
  <2>3. PlayersSound'
    BY <1>g, <2>2
  <2>4. UsesTold'
    BY <1>h, <2>1, <2>2
  <2> QED BY <1>d, <2>3, <2>4 DEF UsesSound
<1>2. CASE SocketOpened(p, d)
  <2>1. /\ player' = [player EXCEPT ![p].sent = player[p].playing,
                                    ![p].opening = "no"]
        /\ Send(IF player[p].playing THEN Start(p, 0) ELSE Clear(p), d)
        /\ missed' = IF player[p].playing /\ ~d THEN missed \cup {<<p, 0>>} ELSE missed
    BY <1>2 DEF SocketOpened, Sends
  <2>2. /\ player'[p].playing = player[p].playing /\ player'[p].up = player[p].up
        /\ player'[p].sent = player[p].playing
    BY <1>a, <2>1
  <2>3. PlayersSound'
    <3>1. player[p].playing => player[p].up
      BY <1>b DEF PlayersSound
    <3> QED BY <1>g, <2>2, <3>1
  <2>4. CASE player[p].playing
    <3>1. Send(Start(p, 0), d)
      BY <2>1, <2>4
    <3> SUFFICES ASSUME NEW b \in Recorders \cup Players, NEW i \in 0 .. MaxIndex,
                        UsesDiscs(b, i)'
                 PROVE  <<b, i>> \in missed' \/ InForce(b, i)'
      BY <1>d, <2>3 DEF UsesSound, UsesTold
    <3>2. CASE b = p
      <4>1. i = 0
        BY <1>a, <3>2 DEF UsesDiscs
      <4> QED BY <2>1, <2>4, <3>1, <3>2, <4>1, SendDoes, InForceStarted
    <3>3. CASE b # p
      <4>1. UsesDiscs(b, i)
        BY <1>f, <3>3
      <4>2. ~Ends(Start(p, 0), b, i)
        BY DEF Ends, Start
      <4> QED BY <1>b, <2>1, <3>1, <4>1, <4>2, SendDoes, UseStays
    <3> QED BY <3>2, <3>3
  <2>5. CASE ~player[p].playing
    <3>1. Send(Clear(p), d) /\ missed' = missed /\ Clear(p).client = p
      BY <2>1, <2>5 DEF Clear
    <3>2. net' = net \/ \E m : net' = Append(net, m) /\ m.client = p
      BY <3>1, SendDoes
    <3>3. UsesTold'
      BY <1>h, <2>2, <2>5, <3>1, <3>2
    <3> QED BY <1>d, <2>3, <3>3 DEF UsesSound
  <2> QED BY <2>4, <2>5
<1>3. CASE SocketFails(p)
  <2>1. /\ player' = [player EXCEPT ![p].opening = "failed"]
        /\ UNCHANGED <<net, missed>> /\ player[p].opening = "yes"
    BY <1>3 DEF SocketFails, historyVars
  <2>2. /\ player'[p].opening = "failed" /\ player'[p].up = player[p].up
        /\ player'[p].playing = player[p].playing
    BY <1>a, <2>1
  <2>3. PlayersSound'
    <3>1. player[p].playing => player[p].up
      BY <1>b DEF PlayersSound
    <3> QED BY <1>g, <2>2, <3>1
  <2>4. UsesTold'
    BY <1>h, <2>1, <2>2
  <2> QED BY <1>d, <2>3, <2>4 DEF UsesSound
<1>4. CASE Quit(p, d) \/ PlayerCrash(p)
  <2>1. /\ player' = [player EXCEPT ![p] = NoPlayer]
        /\ missed' = missed \ {<<p, 0>>}
        /\ net' = net \/ Send(Clear(p), d)
    BY <1>4 DEF Quit, PlayerCrash
  <2>2. player'[p] = NoPlayer /\ Clear(p).client = p
    BY <1>a, <2>1 DEF Clear
  <2>3. net' = net \/ \E m : net' = Append(net, m) /\ m.client = p
    BY <2>1, <2>2, SendDoes
  <2>4. PlayersSound'
    BY <1>g, <2>2 DEF NoPlayer
  <2>5. UsesTold'
    BY <1>h, <2>1, <2>2, <2>3 DEF NoPlayer
  <2> QED BY <1>d, <2>4, <2>5 DEF UsesSound
<1> QED BY <1>1, <1>2, <1>3, <1>4

LEMMA UsesSoundStep ==
  ASSUME TransferTypeOK, UsesSound, [TransferNext]_vars
  PROVE  UsesSound'
<1>a. ClientTypes
  BY Types
<1>1. ASSUME UNCHANGED <<client, player, net, missed, events>> PROVE UsesSound'
  BY <1>1 DEF UsesSound, RecordersSound, PlayersSound, UsesTold, UsesDiscs, InForce
<1>2. CASE Clients
  <2>1. events' = events
    BY <1>2, ClientsLeave DEF serverSide, parentVars
  <2> QED BY <1>2, <1>a, <2>1, RecordersUse, PlayersUse DEF Clients
<1>3. CASE Crash
  <2>1. /\ UNCHANGED <<client, player>>
        /\ missed' = {e \in Recorders \X (1 .. MaxIndex) : e[2] \in client[e[1]].on}
                     \cup {<<p, 0>> : p \in {q \in Players : player[q].playing}}
    BY <1>3 DEF Crash
  <2>2. RecordersSound' /\ PlayersSound'
    BY <2>1 DEF UsesSound, RecordersSound, PlayersSound
  <2>3. ASSUME NEW c \in Recorders \cup Players, NEW i \in 0 .. MaxIndex,
               UsesDiscs(c, i)'
        PROVE  <<c, i>> \in missed'
    <3>1. CASE c \in Recorders /\ i \in client[c].on
      <4>1. /\ client[c].on \subseteq 1 .. client[c].index /\ client[c].index \in Nat
            /\ client[c].index <= MaxIndex /\ MaxIndex \in Nat
        BY <1>a, <3>1, TransferAssumption DEF UsesSound, RecordersSound, ClientTypes
      <4>2. i \in 1 .. MaxIndex
        BY <3>1, <4>1
      <4> QED BY <2>1, <3>1, <4>2
    <3>2. CASE c \in Players /\ i = 0 /\ player[c].playing
      BY <2>1, <3>2
    <3> QED BY <2>1, <2>3, <3>1, <3>2 DEF UsesDiscs
  <2> QED BY <2>2, <2>3 DEF UsesSound, UsesTold
<1>4. CASE ServeStart \/ ServeEnd
  <2>1. /\ UNCHANGED <<client, player, missed>> /\ net # <<>> /\ net' = Tail(net)
        /\ \/ /\ Head(net).kind = "start"
              /\ events' = events \cup {<<Head(net).client, Head(net).index>>}
           \/ /\ Head(net).kind \in {"end", "clear"}
              /\ events' = events \ Ended(Head(net))
    BY <1>4 DEF ServeStart, ServeEnd
  <2>2. RecordersSound' /\ PlayersSound'
    BY <2>1 DEF UsesSound, RecordersSound, PlayersSound
  <2>3. ASSUME NEW c \in Recorders \cup Players, NEW i \in 0 .. MaxIndex,
               InForce(c, i)
        PROVE  InForce(c, i)'
    <3>1. Head(net) = Start(c, i) => <<c, i>> \in events'
      BY <2>1 DEF Start
    <3>2. <<c, i>> \in events /\ ~Ends(Head(net), c, i) => <<c, i>> \in events'
      BY <2>1 DEF Ended, Ends
    <3> QED BY <1>a, <2>1, <2>3, <3>1, <3>2, InForceServed
  <2>4. UsesTold'
    BY <2>1, <2>3 DEF UsesSound, UsesTold, UsesDiscs
  <2> QED BY <2>2, <2>4 DEF UsesSound
<1>5. CASE ~(Clients \/ Crash \/ ServeStart \/ ServeEnd)
  <2>1. UNCHANGED <<client, player, net, missed>>
    BY <1>5, ServerLeaves DEF clientSide, clientVars
  <2>2. events' = events
    <3>1. CASE Discs \/ Restart \/ FinishSave \/ UNCHANGED vars
      BY Zenon, <3>1 DEF Discs, Tick, Arrive, Collect, Restart, FinishSave, parentVars, vars
    <3>2. CASE Begun \/ Read \/ ReadFailed \/ Scanned
      BY Zenon, <3>2 DEF Begun, ScanBegins, Read, ScanReads, ReadFailed, ScanFails,
                  Scanned, PairScanned, parentVars
    <3>3. CASE Kicked \/ Retries \/ TimesOut \/ NextPriority \/ AllScanned
               \/ StopsCopying
      BY Zenon, <3>3 DEF Kicked, Retries, Wake, TimesOut, NextPriority, AllScanned,
                  StopsCopying, parentVars
    <3>4. CASE NotePid \/ FirstOutput \/ OutputEnds \/ Picked \/ Moved \/ Finished
               \/ GaveUp
      BY Zenon, <3>4 DEF NotePid, FirstOutput, OutputEnds, Picked, Pick, Moved, Moves,
                  Finished, Copied, GaveUp, CopyFails, parentVars
    <3>5. CASE ComesAlive \/ Updates \/ Exited
      BY <3>5 DEF ComesAlive, Updates, Exited, Exits, cpfsUnchanged, parentVars
    <3> QED BY <1>5, <3>1, <3>2, <3>3, <3>4, <3>5, StepIs
  <2> QED BY <1>1, <2>1, <2>2
<1> QED BY <1>2, <1>3, <1>4, <1>5

-----------------------------------------------------------------------------
(* The invariant *)

LEMMA TypesStep ==
  ASSUME TransferTypeOK, Places, Counted, [TransferNext]_vars
  PROVE  TransferTypeOK'
<1>a. /\ ClientTypes /\ ParentTypes /\ EventTypes /\ ChildTypes
      /\ ScanTypes /\ CopierTypes /\ DiscTypes
  BY Types
<1>1. ClientTypes' /\ ParentTypes' /\ EventTypes'
  BY <1>a, ClientTypesStep, ParentTypesStep, EventTypesStep
<1>2. ChildTypes' /\ ScanTypes' /\ CopierTypes'
  BY <1>a, ChildTypesStep, ScanTypesStep, CopierTypesStep
<1>3. DiscTypes'
  BY <1>a, <1>1, DiscTypesStep
<1> QED BY <1>1, <1>2, <1>3
        DEF TransferTypeOK, ClientTypes, ParentTypes, EventTypes, ChildTypes,
            ScanTypes, CopierTypes, DiscTypes

LEMMA InvariantStep ==
  ASSUME TransferInv, [TransferNext]_vars
  PROVE  TransferInv'
<1>a. /\ TransferTypeOK /\ Places /\ Counted /\ Timely /\ Cleared /\ Kept
      /\ KicksSound /\ CopierSound /\ UsesSound
  BY DEF TransferInv
<1>b. /\ ParentTypes /\ ChildTypes /\ ScanTypes /\ CopierTypes /\ DiscTypes
      /\ UpPlaces /\ ScanPlaces /\ CopyPlaces
      /\ DiscsTimely /\ KnownSound
  BY <1>a, Types DEF Places, Timely, Kept
<1>1. TransferTypeOK'
  BY <1>a, TypesStep
<1>2. ParentTypes' /\ ChildTypes' /\ DiscTypes'
  BY <1>1 DEF TransferTypeOK, ParentTypes, ChildTypes, DiscTypes
<1>3. UpPlaces' /\ ScanPlaces' /\ CopyPlaces'
  BY <1>b, UpPlacesStep, ScanPlacesStep, CopyPlacesStep
<1>4. Counted'
  BY <1>a, CountedStep
<1>5. DiscsTimely' /\ ScanTimely' /\ PairsTimely' /\ ListTimely'
  BY <1>a, <1>b, <1>2, DiscsTimelyStep, ScanTimelyStep, PairsTimelyStep, ListTimelyStep
<1>6. DiscsCleared' /\ PairsCleared' /\ ScanCleared' /\ WorkCleared'
  BY <1>a, <1>2, DiscsClearedStep, PairsClearedStep, ScanClearedStep, WorkClearedStep
<1>7. KnownSound' /\ PairsKept' /\ ScanKept' /\ WorkKept'
  BY <1>a, <1>b, <1>2, <1>5, KnownSoundStep, PairsKeptStep, ScanKeptStep, WorkKeptStep
<1>8. KicksSound' /\ CopierSound' /\ UsesSound'
  BY <1>a, KicksSoundStep, CopierSoundStep, UsesSoundStep
<1> QED BY <1>1, <1>3, <1>4, <1>5, <1>6, <1>7, <1>8
        DEF TransferInv, Places, Timely, Cleared, Kept

LEMMA InvariantInit == TransferInit => TransferInv
<1> SUFFICES ASSUME TransferInit PROVE TransferInv
  OBVIOUS
<1>a. /\ MaxIndex \in Nat /\ \A f \in Files : SourceOf[f] \in Sources
  BY TransferAssumption
<1>1. TransferTypeOK
  <2>1. net \in Seq([kind : {"start", "end", "clear"},
                     client : Recorders \cup Players, index : Nat])
    BY DEF TransferInit
  <2>2. ClientTypes
    BY <2>1 DEF TransferInit, ClientTypes, NoPlayer
  <2>3. ParentTypes
    BY DEF TransferInit, ParentTypes, NoPair, UpToDate, Failed, NotSaved, None
  <2>4. EventTypes
    BY DEF TransferInit, EventTypes
  <2>5. ChildTypes
    BY DEF TransferInit, ChildTypes, IdleChild, NoWork, None
  <2>6. ScanTypes
    BY DEF TransferInit, ScanTypes, NoScan, None
  <2>7. CopierTypes
    BY DEF TransferInit, CopierTypes, NoCopy
  <2>8. DiscTypes
    BY DEF TransferInit, DiscTypes, None
  <2> QED BY <2>2, <2>3, <2>4, <2>5, <2>6, <2>7, <2>8, Types
<1>2. Places
  BY DEF TransferInit, Places, UpPlaces, ScanPlaces, CopyPlaces, Copying, Active,
         IdleChild, NoScan, NoCopy
<1>3. Counted
  BY DEF TransferInit, Counted, Active, IdleChild, NoScan
<1>4. Timely
  <2>1. /\ now = 1 /\ list = {} /\ disk = {} /\ dest = {} /\ scan = NoScan
        /\ \A f \in Files : ctime[f] = 0
        /\ \A s \in Sources : /\ pair[s].cleared = -1 /\ saved[s] = -1
                              /\ known[s] = 0 /\ work[s].latest = 0
                              /\ work[s].copied = 0
    BY DEF TransferInit, NoPair, NoWork, Failed, NotSaved, None
  <2>2. DiscsTimely
    BY <2>1 DEF DiscsTimely, NoScan
  <2>3. ScanTimely
    BY <2>1 DEF ScanTimely, NoScan, None
  <2>4. PairsTimely
    BY <2>1 DEF PairsTimely
  <2>5. ListTimely
    BY <2>1 DEF ListTimely
  <2> QED BY <2>2, <2>3, <2>4, <2>5 DEF Timely
<1>5. Cleared
  BY DEF TransferInit, Cleared, DiscsCleared, PairsCleared, ScanCleared, WorkCleared,
         Reached, ReachedBy, HasWork, Active, IdleChild, NoScan
<1>6. Kept
  <2>1. \A s \in Sources : pair[s].cleared = -1 /\ saved[s] = -1 /\ known[s] = 0
    BY DEF TransferInit, NoPair, Failed, NotSaved, None
  <2>2. KnownSound
    BY <2>1 DEF TransferInit, KnownSound
  <2>3. PairsKept /\ ScanKept /\ WorkKept
    BY DEF TransferInit, PairsKept, ScanKept, WorkKept, Keeps, KeepsBy, HasWork,
           Active, IdleChild, NoScan
  <2> QED BY <2>2, <2>3 DEF Kept
<1>7. KicksSound
  BY DEF TransferInit, KicksSound, NoPair, UpToDate, Stale, Processing
<1>8. CopierSound
  BY DEF TransferInit, CopierSound, NoCopy, IdleChild
<1>9. UsesSound
  <2>1. RecordersSound
    BY <1>a DEF TransferInit, RecordersSound
  <2>2. PlayersSound
    BY DEF TransferInit, PlayersSound, NoPlayer
  <2>3. UsesTold
    BY DEF TransferInit, UsesTold, UsesDiscs, NoPlayer
  <2> QED BY <2>1, <2>2, <2>3 DEF UsesSound
<1> QED BY <1>1, <1>2, <1>3, <1>4, <1>5, <1>6, <1>7, <1>8, <1>9 DEF TransferInv

LEMMA TransferInvariant == TransferSpec => []TransferInv
<1>1. TransferInit => TransferInv
  BY InvariantInit
<1>2. TransferInv /\ [TransferNext]_vars => TransferInv'
  BY InvariantStep
<1> QED BY <1>1, <1>2, PTL DEF TransferSpec

-----------------------------------------------------------------------------
(* What follows *)

\* The variables have their types: no ctime that the server keeps, in memory,
\* in PATHS_FILE or in the child, is ever anything but the ctime of a file, or
\* stands for none.
THEOREM ServerTypeCorrect == TransferSpec => []TransferTypeOK
<1>1. TransferInv => TransferTypeOK
  BY DEF TransferInv
<1> QED BY <1>1, TransferInvariant, PTL

\* No source file is deleted, or regarded as copied by the server or by its
\* file, that was not copied, or torn: for any number of directories, files,
\* faults and starts of the server.
THEOREM ClearedIsCopied == TransferSpec => []NothingLost
<1>1. TransferInv => NothingLost
  <2> SUFFICES ASSUME TransferInv, NEW f \in Files, Regarded(f)
               PROVE  f \in copied \cup torn
    BY DEF NothingLost
  <2>1. TransferTypeOK /\ DiscsCleared /\ PairsCleared
    BY DEF TransferInv, Cleared
  <2>2. SourceOf[f] \in Sources
    BY <2>1, Numbers
  <2>3. CASE f \notin disk
    BY <2>1, <2>3 DEF DiscsCleared, Regarded, Done
  <2>4. CASE ctime[f] <= pair[SourceOf[f]].cleared
    BY <2>1, <2>2, <2>4 DEF PairsCleared, Reached, ReachedBy, Regarded, Done
  <2>5. CASE ctime[f] <= saved[SourceOf[f]]
    BY <2>1, <2>2, <2>5 DEF PairsCleared, Reached, ReachedBy, Regarded, Done
  <2> QED BY <2>3, <2>4, <2>5 DEF Regarded
<1> QED BY <1>1, TransferInvariant, PTL

\* The child never sleeps over a pair that is out of date: the pipe, staleFrom
\* and the marks of the pairs stay in step.
THEOREM SleepsOnlyWhenDone == TransferSpec => []NoSleepOverWork
<1>1. TransferInv => NoSleepOverWork
  <2> SUFFICES ASSUME TransferInv, child.pc = "wait", kicks = 0, ~child.retry,
                      NEW s \in Sources
               PROVE  pair[s].stale = UpToDate
    BY DEF NoSleepOverWork
  <2>1. ParentTypes /\ ScanPlaces /\ KicksSound
    BY Types DEF TransferInv, Places
  <2>2. pair[s].stale \in {UpToDate, Processing, Stale}
    BY <2>1 DEF ParentTypes
  <2>3. staleFrom = None
    BY <2>1 DEF KicksSound
  <2>4. ~Awaited(s)
    BY <2>1 DEF Awaited, HasWork, Active, ScanPlaces
  <2> QED BY <2>1, <2>2, <2>3, <2>4 DEF KicksSound
<1> QED BY <1>1, TransferInvariant, PTL

\* While a use of the discs of which the server was told goes on, files are
\* copied slowly, but for the race at the start of cpfs.
THEOREM UsersComeFirst == TransferSpec => []DiscsSpared
<1>1. TransferInv => DiscsSpared
  <2> SUFFICES ASSUME TransferInv, NEW c \in Recorders \cup Players,
                      NEW i \in 0 .. MaxIndex, UsesDiscs(c, i), Served(c, i),
                      cp.st = "running", ~raced
               PROVE  CopiesSlowly
    BY DEF DiscsSpared
  <2>1. CopyPlaces /\ CopierSound /\ UsesTold
    BY DEF TransferInv, Places, UsesSound
  <2>2. InForce(c, i)
    BY <2>1 DEF UsesTold, Served
  <2>3. <<c, i>> \in events
    BY <2>2 DEF InForce, Served, Start
  <2>4. limit
    BY <2>1, <2>3 DEF CopierSound
  <2>5. child.pc \in {"note", "read"}
    BY <2>1 DEF CopyPlaces
  <2> QED BY <2>1, <2>4, <2>5 DEF CopierSound
<1> QED BY <1>1, TransferInvariant, PTL

\* Once cpfs has come alive, it copies fast unless the limit is on.
THEOREM FastWithoutLimit == TransferSpec => []FastOtherwise
<1>1. TransferInv => FastOtherwise
  BY DEF TransferInv, CopierSound, FastOtherwise
<1> QED BY <1>1, TransferInvariant, PTL

\* What was cleared of a source without a subdirectory remains so for the files
\* still there, in the server and, while it is down, in PATHS_FILE.
THEOREM ClearedStaysCleared == TransferSpec => []Remembered
<1>1. TransferInv => Remembered
  <2> SUFFICES ASSUME TransferInv, NEW f \in disk, ~HasXml(SourceOf[f]),
                      ctime[f] <= known[SourceOf[f]]
               PROVE  ctime[f] <= IF up THEN pair[SourceOf[f]].cleared
                                  ELSE saved[SourceOf[f]]
    BY DEF Remembered
  <2>1. TransferTypeOK /\ PairsKept /\ UpPlaces
    BY DEF TransferInv, Kept, Places
  <2>2. SourceOf[f] \in Sources
    BY <2>1, Numbers
  <2>3. CASE up
    BY <2>1, <2>2, <2>3 DEF PairsKept, Keeps, KeepsBy
  <2>4. CASE ~up
    BY <2>1, <2>2, <2>4 DEF PairsKept, Keeps, KeepsBy, UpPlaces
  <2> QED BY <2>3, <2>4
<1> QED BY <1>1, TransferInvariant, PTL
=============================================================================
