----------------------- MODULE RecorderControl_proofs -----------------------
(***************************************************************************)
(* Proofs about RecorderControl, for every set of channels, chunk size and *)
(* alignment, and any number of recordings.                                *)
(***************************************************************************)
EXTENDS RecorderControl, FiniteSetTheorems, TLAPS

-----------------------------------------------------------------------------
(* Finite sets of integers *)

\* A finite set of integers that is not empty has a greatest and a least
\* element.
LEMMA Extremes ==
  ASSUME NEW S, IsFiniteSet(S), S # {}, S \subseteq Int
  PROVE  /\ \E x \in S : \A y \in S : x >= y
         /\ \E x \in S : \A y \in S : x =< y
<1> DEFINE Good(T) == /\ \E x \in T : \A y \in T : x >= y
                      /\ \E x \in T : \A y \in T : x =< y
           Bad == {n \in Nat : \E T \in SUBSET S :
                     T # {} /\ Cardinality(T) = n /\ ~Good(T)}
           R == OpToRel(<, Nat)
<1>1. ASSUME Bad # {} PROVE FALSE
  <2>1. IsWellFoundedOn(R, Nat)
    BY NatLessThanWellFounded
  <2>2. Bad \subseteq Nat
    OBVIOUS
  <2> HIDE DEF R, Bad
  <2>3. PICK n \in Bad : \A m \in Bad : ~(<<m, n>> \in R)
    BY <1>1, <2>1, <2>2, WFMin
  <2> USE DEF Bad
  <2>4. PICK T \in SUBSET S : T # {} /\ Cardinality(T) = n /\ ~Good(T)
    OBVIOUS
  <2>5. IsFiniteSet(T)
    BY FS_Subset
  <2>6. PICK x \in T : TRUE
    BY <2>4
  <2>7. IsFiniteSet(T \ {x}) /\ Cardinality(T \ {x}) = n - 1
    BY <2>4, <2>5, <2>6, FS_RemoveElement
  <2>8. n - 1 \in Nat
    BY <2>7, FS_CardinalityType
  <2>9. T \ {x} # {}
    BY <2>4, <2>6
  <2>10. ~Good(T \ {x})
    BY <2>4, <2>6, <2>9
  <2>11. n - 1 \in Bad
    BY <2>7, <2>8, <2>9, <2>10
  <2>12. <<n - 1, n>> \in R
    BY <2>2, <2>8 DEF R, OpToRel
  <2> QED BY <2>3, <2>11, <2>12
<1>2. Cardinality(S) \in Nat
  BY FS_CardinalityType
<1> QED BY <1>1, <1>2

\* The image of a finite set under a function is finite.
LEMMA FiniteImage ==
  ASSUME NEW S, IsFiniteSet(S), NEW f, f = [x \in S |-> f[x]]
  PROVE  IsFiniteSet({f[x] : x \in S})
<1> DEFINE T == {f[x] : x \in S}
<1>1. f \in Surjection(S, T)
  BY DEF Surjection
<1> HIDE DEF T
<1>2. IsFiniteSet(T)
  BY <1>1, FS_Surjection
<1> QED BY <1>2 DEF T

\* The greater of two integers is an integer.
LEMMA MaxOfTwo ==
  ASSUME NEW a \in Int, NEW b \in Int PROVE Max({a, b}) \in Int
<1>1. \E x \in {a, b} : \A y \in {a, b} : x >= y
  OBVIOUS
<1> QED BY <1>1 DEF Max

\* Rounding down to a multiple takes less than that number away.
LEMMA RoundDown ==
  ASSUME NEW a \in Nat, NEW b \in Nat \ {0}
  PROVE  (a \div b) * b \in Int /\ (a \div b) * b > a - b
<1> DEFINE q == a \div b
<1>1. q \in Int /\ a % b \in 0 .. b - 1
  OBVIOUS
<1>2. a = b * q + (a % b)
  OBVIOUS
<1> HIDE DEF q
<1>3. b * q = q * b /\ q * b \in Int
  BY <1>1
<1>4. q * b > a - b
  BY <1>1, <1>2, <1>3
<1> QED BY <1>3, <1>4 DEF q

-----------------------------------------------------------------------------
(* Type correctness *)

\* A chunk that starts at a frame of the day has a length.
LEMMA ChunkType == ASSUME NEW s \in Nat PROVE ChunkDuration(s) \in Nat
<1>1. Chunk \in Nat /\ Align \in Nat
  BY ControlAssumption
<1>2. ASSUME Chunk >= Align, Align > 0
      PROVE  ((s + Chunk) \div Align) * Align - s \in Nat
  <2> DEFINE a == s + Chunk
             r == (a \div Align) * Align
  <2>1. a \in Nat /\ a >= s + Align /\ Align \in Nat \ {0}
    BY <1>1, <1>2
  <2> HIDE DEF a
  <2>2. r \in Int /\ r > a - Align
    BY <2>1, RoundDown
  <2> HIDE DEF r
  <2>3. r - s \in Nat
    BY <1>1, <2>1, <2>2
  <2> QED BY <2>3 DEF a, r
<1> QED BY <1>1, <1>2 DEF ChunkDuration

\* What has been recorded is a number of frames.
LEMMA RecordedType ==
  ASSUME ControlTypeOK, NEW i \in Ids PROVE Recorded(i) \in Nat
<1> DEFINE f == [c \in Channels |-> thread[i][c].total]
           S == {f[c] : c \in Channels}
<1>1. S \subseteq Nat /\ S = {thread[i][c].total : c \in Channels}
  BY DEF ControlTypeOK, ThreadType
<1>2. IsFiniteSet(Channels) /\ Channels # {}
  BY ControlAssumption
<1>3. f = [c \in Channels |-> f[c]]
  OBVIOUS
<1> HIDE DEF f
<1>4. IsFiniteSet(S)
  BY <1>2, <1>3, FiniteImage
<1>5. S # {}
  BY <1>2
<1>0. S \subseteq Int
  BY <1>1
<1> HIDE DEF S
<1>6. \E x \in S : \A y \in S : x >= y
  BY <1>0, <1>4, <1>5, Extremes
<1>7. Max(S) \in S
  BY <1>6 DEF Max
<1> QED BY <1>1, <1>7 DEF Recorded

\* The ORB thread between calls.
LEMMA IdleOrbType == IdleOrb \in OrbType
  BY DEF IdleOrb, OrbType, Undefined, None

\* A manage thread that goes on to another of its steps.
LEMMA ManagePc ==
  ASSUME NEW f \in [Ids -> ManageType], NEW i,
         NEW pc \in {"join", "decide", "compare", "clear", "another",
                     "clearstatus", "startcopying", "delete"} \cup Restarting
  PROVE  [f EXCEPT ![i].pc = pc] \in [Ids -> ManageType]
<1>1. [f EXCEPT ![i].pc = pc] = [j \in Ids |-> IF j = i
                                 THEN [f[j] EXCEPT !.pc = pc] ELSE f[j]]
  OBVIOUS
<1>2. ASSUME NEW j \in Ids PROVE [f[j] EXCEPT !.pc = pc] \in ManageType
  <2>1. f[j] \in ManageType
    OBVIOUS
  <2> HIDE DEF Restarting
  <2> QED BY <2>1 DEF ManageType
<1> QED BY <1>1, <1>2

\* Every step keeps the types.
LEMMA TypeStep ==
  ControlInv /\ [ControlNext]_controlVars => ControlTypeOK' /\ now' >= Search
<1> SUFFICES ASSUME ControlInv, [ControlNext]_controlVars
             PROVE  ControlTypeOK' /\ now' >= Search
  OBVIOUS
<1> USE DEF implVars, recVars, copyVars, historyVars, ControlTypeOK
<1>a. ControlTypeOK /\ now >= Search /\ OrbInHand /\ Search \in Nat
  BY ControlAssumption DEF ControlInv, InHand
<1>1. CASE Tick
  BY <1>1, <1>a DEF Tick
<1>2. CASE CaptureDies
  BY <1>2, <1>a DEF CaptureDies
<1>3. CASE StopRequest
  <2>1. orb' \in OrbType
    <3>1. PICK p \in PostRolls,
               t \in {Undefined} \cup (now - StopBack + 1 .. now) :
            IF current # None
            THEN orb' = [IdleOrb EXCEPT !.pc = "unchunk", !.id = current,
                                        !.tc = t, !.post = p]
            ELSE orb' = orb
      BY <1>3 DEF StopRequest
    <3>2. p \in Nat /\ t \in Int
      BY <1>a, ControlAssumption DEF ControlTypeOK, Undefined
    <3>3. CASE current # None
      <4>1. current \in Ids
        BY <1>a, <3>3 DEF ControlTypeOK
      <4> QED BY <3>1, <3>2, <3>3, <4>1, IdleOrbType DEF OrbType
    <3> QED BY <3>1, <3>3, <1>a DEF ControlTypeOK
  <2> QED BY <1>3, <1>a, <2>1 DEF StopRequest
<1>4. CASE StartRequest
  <2>1. orb' \in OrbType
    <3>1. CASE recording /\ current # None
      <4>1. current \in Ids
        BY <1>a, <3>1 DEF ControlTypeOK
      <4>2. orb' = [IdleOrb EXCEPT !.pc = "unchunk", !.id = current,
                                   !.then = "new"]
        BY <1>4, <3>1 DEF StartRequest
      <4> QED BY <4>1, <4>2, IdleOrbType DEF OrbType
    <3>2. CASE ~(recording /\ current # None)
      <4>1. orb' = [IdleOrb EXCEPT !.pc = "new"]
        BY <1>4, <3>2 DEF StartRequest
      <4> QED BY <4>1, IdleOrbType DEF OrbType
    <3> QED BY <3>1, <3>2
  <2> QED BY <1>4, <1>a, <2>1 DEF StartRequest
<1>5. CASE Unchunk
  <2>1. orb' \in OrbType
    BY <1>5, <1>a DEF Unchunk, OrbType
  <2>2. rec' \in [Ids -> RecType]
    BY <1>5, <1>a DEF Unchunk, RecType
  <2> QED BY <1>5, <1>a, <2>1, <2>2 DEF Unchunk
<1>6. CASE Measure
  <2>0. StopLength \in Int /\ orb.id \in Ids /\ orb \in OrbType
    <3>1. orb.id \in Ids /\ orb \in OrbType
      BY <1>6, <1>a DEF Measure, OrbInHand, At, StopCalls, ControlTypeOK
    <3>2. Recorded(orb.id) \in Nat
      BY <1>a, <3>1, RecordedType
    <3>3. orb.tc \in Int /\ orb.post \in Nat /\ Day \in Nat
      BY <3>1, ControlAssumption DEF OrbType
    <3>4. rec[orb.id].start \in Nat
      BY <1>a, <3>1 DEF ControlTypeOK, RecType
    <3> QED BY <3>1, <3>2, <3>3, <3>4 DEF StopLength
  <2>1. orb' \in OrbType
    <3>1. (IF StopLength <= 0 THEN 1 ELSE StopLength) \in Nat
      BY <2>0
    <3>2. Undefined \in Int
      BY DEF Undefined
    <3> QED BY <1>6, <2>0, <3>1, <3>2 DEF Measure, OrbType
  <2>2. asked' \in [Ids -> Int]
    <3>1. orb.tc + orb.post \in Int /\ rec[orb.id].start \in Int
      BY <1>a, <2>0 DEF ControlTypeOK, OrbType, RecType
    <3> QED BY <1>6, <1>a, <2>0, <3>1 DEF Measure, ControlTypeOK
  <2> QED BY <1>6, <1>a, <2>1, <2>2 DEF Measure
<1>7. CASE SetTarget
  <2>0. orb.id \in Ids /\ orb.length \in Nat
    BY <1>7, <1>a DEF SetTarget, OrbInHand, At, StopCalls, ControlTypeOK,
                      OrbType
  <2>1. orb' \in OrbType
    BY <1>7, <1>a DEF SetTarget, OrbType
  <2>2. rec' \in [Ids -> RecType]
    BY <1>7, <1>a, <2>0 DEF SetTarget, ControlTypeOK, RecType
  <2>3. limit' \in [Ids -> Int]
    <3>1. Recorded(orb.id) \in Nat
      BY <1>a, <2>0, RecordedType
    <3>2. asked[orb.id] \in Int /\ rec[orb.id].start + Recorded(orb.id) \in Int
      BY <1>a, <2>0, <3>1 DEF ControlTypeOK, RecType
    <3>3. Max({asked[orb.id], rec[orb.id].start + Recorded(orb.id)}) \in Int
      BY <3>2, MaxOfTwo
    <3> QED BY <1>7, <1>a, <2>0, <3>3 DEF SetTarget, ControlTypeOK
  <2> QED BY <1>7, <1>a, <2>1, <2>2, <2>3 DEF SetTarget
<1>8. CASE Forget
  <2>1. orb' \in OrbType
    <3>1. orb' \in {[IdleOrb EXCEPT !.pc = "new"], IdleOrb}
      BY <1>8 DEF Forget
    <3> QED BY <3>1, IdleOrbType DEF OrbType
  <2> QED BY <1>8, <1>a, <2>1 DEF Forget
<1>9. CASE NewRecorder
  <2>0. PICK d \in StartAt, test \in BOOLEAN :
          /\ rec' = [rec EXCEPT ![index] =
                       [life |-> "alive", chunking |-> Chunk > 0,
                        start |-> now + d, ok |-> TRUE,
                        target |-> IF Chunk > 0 THEN ChunkDuration(now + d)
                                   ELSE 0]]
          /\ orb' = [IdleOrb EXCEPT !.pc = "clear", !.id = index,
                                    !.go = Found(now + d) /\ ~test]
          /\ begun' = now + d
    BY <1>9 DEF NewRecorder
  <2>a. now + d \in Nat /\ index \in Ids /\ Chunk \in Nat
    <3>1. d \in Int /\ Search + d >= 0 /\ now \in Nat
      BY <1>a, ControlAssumption DEF ControlTypeOK
    <3>2. index \in 1 .. MaxRec + 1 /\ index <= MaxRec /\ MaxRec \in Nat
      BY <1>9, <1>a, ControlAssumption
      DEF NewRecorder, OrbInHand, ControlTypeOK
    <3> QED BY <3>1, <3>2, <1>a, ControlAssumption DEF Ids
  <2>b. ChunkDuration(now + d) \in Nat
    BY <2>a, ChunkType
  <2>c. index + 1 \in 1 .. MaxRec + 1
    BY <2>a, ControlAssumption DEF Ids
  <2>1. orb' \in OrbType
    <3>1. (Found(now + d) /\ ~test) \in BOOLEAN
      BY DEF Found
    <3> QED BY <2>0, <2>a, <3>1, IdleOrbType DEF OrbType
  <2>2. rec' \in [Ids -> RecType]
    <3>1. [life |-> "alive", chunking |-> Chunk > 0, start |-> now + d,
           ok |-> TRUE, target |-> IF Chunk > 0 THEN ChunkDuration(now + d)
                                   ELSE 0] \in RecType
      BY <2>a, <2>b DEF RecType
    <3> QED BY <1>a, <2>0, <2>a, <3>1 DEF ControlTypeOK
  <2> QED BY <1>9, <1>a, <2>0, <2>a, <2>c, <2>1, <2>2
      DEF NewRecorder, ControlTypeOK
<1>10. CASE ClearSrcDest
  <2>1. orb' \in OrbType
    BY <1>10, <1>a DEF ClearSrcDest, OrbType
  <2> QED BY <1>10, <1>a, <2>1 DEF ClearSrcDest
<1>11. CASE AddSrcDest
  <2>1. orb' \in OrbType
    BY <1>11, <1>a DEF AddSrcDest, OrbType
  <2> QED BY <1>11, <1>a, <2>1 DEF AddSrcDest
<1>12. CASE StopCopying
  <2>1. orb' \in OrbType
    BY <1>12, <1>a DEF StopCopying, OrbType
  <2>2. orb.id \in Ids
    BY <1>12, <1>a DEF StopCopying, OrbInHand, At, StartCalls
  <2> QED BY <1>12, <1>a, <2>1, <2>2
          DEF StopCopying, Hold, EventBegins, ControlTypeOK
<1>13. CASE Spawn
  <2>0. /\ \/ \E started : Spawned(orb.id, started)
           \/ UNCHANGED thread
        /\ \/ manage' = [manage EXCEPT ![orb.id].pc = "join"]
           \/ UNCHANGED manage
    BY <1>13 DEF Spawn, Then
  <2>1. orb' \in OrbType
    BY <1>13, <1>a DEF Spawn, Spawned, Off, OrbType
  <2>2. thread' \in [Ids -> [Channels -> ThreadType]]
    <3>1. ASSUME NEW started, Spawned(orb.id, started)
          PROVE  thread' \in [Ids -> [Channels -> ThreadType]]
      <4>1. [c \in Channels |-> IF c \in started
                                THEN [pc |-> "run", total |-> 0]
                                ELSE Off] \in [Channels -> ThreadType]
        BY DEF ThreadType, Off
      <4> QED BY <1>a, <3>1, <4>1 DEF Spawned, ControlTypeOK
    <3> QED BY <1>a, <2>0, <3>1 DEF ControlTypeOK
  <2>3. manage' \in [Ids -> ManageType]
    <3>1. [manage EXCEPT ![orb.id].pc = "join"] \in [Ids -> ManageType]
      BY <1>a, ManagePc DEF ControlTypeOK
    <3> QED BY <1>a, <2>0, <3>1 DEF ControlTypeOK
  <2> QED BY <1>13, <1>a, <2>1, <2>2, <2>3 DEF Spawn
<1>14. CASE SetStatus
  <2>1. orb' \in OrbType
    BY <1>14, <1>a DEF SetStatus, IdleOrb, None, Undefined, OrbType
  <2> QED BY <1>14, <1>a, <2>1 DEF SetStatus
<1>15. CASE Discard
  <2>1. orb' \in OrbType
    BY <1>15, <1>a DEF Discard, Deleted, NoRec, OrbType
  <2>2. rec' \in [Ids -> RecType]
    BY <1>15, <1>a DEF Discard, Deleted, NoRec, RecType
  <2> QED BY <1>15, <1>a, <2>1, <2>2 DEF Discard
<1>16. CASE Release
  <2>1. orb' \in OrbType
    BY <1>16, <1>a DEF Release, IdleOrb, None, Undefined, OrbType
  <2>2. orb.id \in Ids
    BY <1>16, <1>a DEF Release, OrbInHand, At
  <2> QED BY <1>16, <1>a, <2>1, <2>2
          DEF Release, LetGo, EventEnds, ControlTypeOK
<1>17. ASSUME NEW i \in Ids, Join(i)
      PROVE  ControlTypeOK' /\ now' >= Search
  <2>1. manage' \in [Ids -> ManageType]
    BY <1>17, <1>a, ManagePc DEF Join, Then, ControlTypeOK, Restarting
  <2> QED BY <1>17, <1>a, <2>1 DEF Join, Then
<1>18. ASSUME NEW i \in Ids, Decide(i)
      PROVE  ControlTypeOK' /\ now' >= Search
  <2>1. manage' \in [Ids -> ManageType]
    BY <1>18, <1>a, ManagePc DEF Decide, Then, ControlTypeOK, Restarting
  <2> QED BY <1>18, <1>a, <2>1 DEF Decide, Then
<1>19. ASSUME NEW i \in Ids, Out(i)
      PROVE  ControlTypeOK' /\ now' >= Search
  <2>0. OutTime(i) \in Nat
    BY <1>a DEF OutTime, ControlTypeOK, RecType
  <2>1. manage' \in [Ids -> ManageType]
    BY <1>19, <1>a, <2>0 DEF Out, ControlTypeOK, ManageType, Restarting
  <2> QED BY <1>19, <1>a, <2>1 DEF Out
<1>20. ASSUME NEW i \in Ids, Extend(i)
      PROVE  ControlTypeOK' /\ now' >= Search
  <2>0. ChunkDuration(manage[i].restart) \in Nat
    BY <1>a, ChunkType DEF ControlTypeOK, ManageType
  <2>1. rec' \in [Ids -> RecType]
    BY <1>20, <1>a, <2>0 DEF Extend, ControlTypeOK, RecType
  <2>2. manage' \in [Ids -> ManageType]
    BY <1>20, <1>a, ManagePc DEF Extend, Then, ControlTypeOK, Restarting
  <2> QED BY <1>20, <1>a, <2>1, <2>2 DEF Extend, Then
<1>21. ASSUME NEW i \in Ids, Locate(i)
      PROVE  ControlTypeOK' /\ now' >= Search
  <2>0. manage[i].restart \in Nat /\ Found(manage[i].restart) \in BOOLEAN
    BY <1>a DEF ControlTypeOK, ManageType, Found
  <2>1. rec' \in [Ids -> RecType]
    BY <1>21, <1>a, <2>0 DEF Locate, ControlTypeOK, RecType
  <2>2. manage' \in [Ids -> ManageType]
    BY <1>21, <1>a, <2>0
    DEF Locate, Waiting, ControlTypeOK, ManageType, Restarting
  <2> QED BY <1>21, <1>a, <2>1, <2>2 DEF Locate
<1>22. ASSUME NEW i \in Ids, Setup(i)
      PROVE  ControlTypeOK' /\ now' >= Search
  <2>1. thread' \in [Ids -> [Channels -> ThreadType]]
    BY <1>22, <1>a DEF Setup, Off, Waiting, ThreadType
  <2>2. manage' \in [Ids -> ManageType]
    BY <1>22, <1>a DEF Setup, Off, Waiting, ManageType, Restarting
  <2> QED BY <1>22, <1>a, <2>1, <2>2 DEF Setup
<1>23. ASSUME NEW i \in Ids, Respawn(i)
      PROVE  ControlTypeOK' /\ now' >= Search
  <2>0. /\ \/ \E started : Spawned(i, started)
           \/ UNCHANGED thread
        /\ \/ manage' = [manage EXCEPT ![i].pc = "join"]
           \/ manage' = [manage EXCEPT ![i].pc = "compare"]
    BY <1>23 DEF Respawn, Then
  <2>1. thread' \in [Ids -> [Channels -> ThreadType]]
    <3>1. ASSUME NEW started, Spawned(i, started)
          PROVE  thread' \in [Ids -> [Channels -> ThreadType]]
      <4>1. [c \in Channels |-> IF c \in started
                                THEN [pc |-> "run", total |-> 0]
                                ELSE Off] \in [Channels -> ThreadType]
        BY DEF ThreadType, Off
      <4> QED BY <1>a, <3>1, <4>1 DEF Spawned, ControlTypeOK
    <3> QED BY <1>a, <2>0, <3>1 DEF ControlTypeOK
  <2>2. manage' \in [Ids -> ManageType]
    <3>1. /\ [manage EXCEPT ![i].pc = "join"] \in [Ids -> ManageType]
          /\ [manage EXCEPT ![i].pc = "compare"] \in [Ids -> ManageType]
      BY <1>a, ManagePc DEF ControlTypeOK
    <3> QED BY <2>0, <3>1
  <2> QED BY <1>23, <1>a, <2>1, <2>2 DEF Respawn, Then
<1>24. ASSUME NEW i \in Ids, Compare(i)
      PROVE  ControlTypeOK' /\ now' >= Search
  <2>1. manage' \in [Ids -> ManageType]
    BY <1>24, <1>a, ManagePc DEF Compare, Then, ControlTypeOK, Restarting
  <2> QED BY <1>24, <1>a, <2>1 DEF Compare, Then
<1>25. ASSUME NEW i \in Ids, ClearCurrent(i)
      PROVE  ControlTypeOK' /\ now' >= Search
  <2>1. manage' \in [Ids -> ManageType]
    BY <1>25, <1>a, ManagePc DEF ClearCurrent, Then, ControlTypeOK, Restarting
  <2> QED BY <1>25, <1>a, <2>1 DEF ClearCurrent, Then
<1>26. ASSUME NEW i \in Ids, Another(i)
      PROVE  ControlTypeOK' /\ now' >= Search
  <2>1. manage' \in [Ids -> ManageType]
    BY <1>26, <1>a, ManagePc DEF Another, Then, ControlTypeOK, Restarting
  <2> QED BY <1>26, <1>a, <2>1 DEF Another, Then
<1>27. ASSUME NEW i \in Ids, ClearStatus(i)
      PROVE  ControlTypeOK' /\ now' >= Search
  <2>1. manage' \in [Ids -> ManageType]
    BY <1>27, <1>a, ManagePc DEF ClearStatus, Then, ControlTypeOK, Restarting
  <2> QED BY <1>27, <1>a, <2>1 DEF ClearStatus, Then
<1>28. ASSUME NEW i \in Ids, StartCopying(i)
      PROVE  ControlTypeOK' /\ now' >= Search
  <2>1. manage' \in [Ids -> ManageType]
    BY <1>28, <1>a, ManagePc DEF StartCopying, Then, ControlTypeOK, Restarting
  <2> QED BY <1>28, <1>a, <2>1 DEF StartCopying, LetGo, EventEnds, Then
<1>29. ASSUME NEW i \in Ids, Delete(i)
      PROVE  ControlTypeOK' /\ now' >= Search
  <2>1. rec' \in [Ids -> RecType]
    BY <1>29, <1>a DEF Delete, Off, Waiting, Deleted, NoRec, RecType
  <2>2. manage' \in [Ids -> ManageType]
    BY <1>29, <1>a
    DEF Delete, Off, Waiting, Deleted, NoRec, ManageType, Restarting
  <2>3. thread' \in [Ids -> [Channels -> ThreadType]]
    BY <1>29, <1>a DEF Delete, Off, Waiting, Deleted, NoRec, ThreadType
  <2>4. asked' \in [Ids -> Int]
    BY <1>29, <1>a DEF Delete, Off, Waiting, Deleted, NoRec
  <2>5. limit' \in [Ids -> Int]
    BY <1>29, <1>a DEF Delete, Off, Waiting, Deleted, NoRec
  <2> QED BY <1>29, <1>a, <2>1, <2>2, <2>3, <2>4, <2>5 DEF Delete
<1>30. ASSUME NEW i \in Ids, NEW c \in Channels, Drop(i, c)
      PROVE  ControlTypeOK' /\ now' >= Search
  <2>1. thread' \in [Ids -> [Channels -> ThreadType]]
    BY <1>30, <1>a DEF Drop, Available, ThreadType
  <2> QED BY <1>30, <1>a, <2>1 DEF Drop
<1>31. ASSUME NEW i \in Ids, NEW c \in Channels, Write(i, c)
      PROVE  ControlTypeOK' /\ now' >= Search
  <2>0. /\ thread \in [Ids -> [Channels -> ThreadType]]
        /\ thread[i][c] \in ThreadType
    BY <1>a DEF ControlTypeOK
  <2>a. thread[i][c].total + 1 \in Nat
    BY <2>0 DEF ThreadType
  <2>1. thread' \in [Ids -> [Channels -> ThreadType]]
    <3>1. [thread[i][c] EXCEPT !.pc = "check",
                                     !.total = thread[i][c].total + 1]
            \in ThreadType
      BY <2>0, <2>a DEF ThreadType
    <3>2. thread' = [thread EXCEPT ![i][c] =
                       [thread[i][c] EXCEPT !.pc = "check",
                                     !.total = thread[i][c].total + 1]]
      BY <1>31, <2>0 DEF Write, ThreadType
    <3> QED BY <2>0, <3>1, <3>2
  <2> QED BY <1>31, <1>a, <2>1 DEF Write
<1>32. ASSUME NEW i \in Ids, NEW c \in Channels, Check(i, c)
      PROVE  ControlTypeOK' /\ now' >= Search
  <2>0. /\ thread \in [Ids -> [Channels -> ThreadType]]
        /\ thread[i][c] \in ThreadType
    BY <1>a DEF ControlTypeOK
  <2>1. thread' \in [Ids -> [Channels -> ThreadType]]
    <3>1. [thread[i][c] EXCEPT !.pc = IF Reached(i, c) THEN "done"
                                                ELSE "run"]
            \in ThreadType
      BY <2>0 DEF ThreadType
    <3>2. thread' = [thread EXCEPT ![i][c] =
                       [thread[i][c] EXCEPT !.pc = IF Reached(i, c) THEN "done"
                                                ELSE "run"]]
      BY <1>32, <2>0 DEF Check, ThreadType
    <3> QED BY <2>0, <3>1, <3>2
  <2> QED BY <1>32, <1>a, <2>1 DEF Check
<1>33. ASSUME NEW i \in Ids, NEW c \in Channels, Fail(i, c)
      PROVE  ControlTypeOK' /\ now' >= Search
  <2>0. /\ thread \in [Ids -> [Channels -> ThreadType]]
        /\ thread[i][c] \in ThreadType
    BY <1>a DEF ControlTypeOK
  <2>1. thread' \in [Ids -> [Channels -> ThreadType]]
    <3>1. [thread[i][c] EXCEPT !.pc = "done"]
            \in ThreadType
      BY <2>0 DEF ThreadType
    <3>2. thread' = [thread EXCEPT ![i][c] =
                       [thread[i][c] EXCEPT !.pc = "done"]]
      BY <1>33, <2>0 DEF Fail, ThreadType
    <3> QED BY <2>0, <3>1, <3>2
  <2>2. rec' \in [Ids -> RecType]
    BY <1>33, <1>a DEF Fail, RecType
  <2> QED BY <1>33, <1>a, <2>1, <2>2 DEF Fail
<1>34. CASE UNCHANGED controlVars
  BY <1>34, <1>a DEF controlVars, ControlTypeOK
<1> QED BY <1>1, <1>2, <1>3, <1>4, <1>5, <1>6, <1>7, <1>8, <1>9, <1>10, <1>11,
       <1>12, <1>13, <1>14, <1>15, <1>16, <1>17, <1>18, <1>19, <1>20, <1>21,
       <1>22, <1>23, <1>24, <1>25, <1>26, <1>27, <1>28, <1>29, <1>30, <1>31,
       <1>32, <1>33, <1>34
     DEF ControlNext, OrbStep, StopSteps, StartSteps, ManageStep, ThreadStep

-----------------------------------------------------------------------------
(* Who has a recorder in hand *)

\* Every step keeps at most one thread in charge of each recorder, and its
\* event begun while its record threads run.
LEMMA HandStep ==
  ControlInv /\ ControlTypeOK' /\ [ControlNext]_controlVars
    => InHand' /\ TrafficReleased'
<1> SUFFICES ASSUME ControlInv, ControlTypeOK', [ControlNext]_controlVars
             PROVE  InHand' /\ TrafficReleased'
  OBVIOUS
<1> USE DEF implVars, recVars, copyVars, historyVars,
            At, Is, Then, None, StopCalls, StartCalls, ControlTypeOK, OrbType,
            RecType, ManageType
<1>a. /\ ControlTypeOK /\ OrbInHand /\ TrafficReleased
      /\ \A i \in Ids : Managed(i)
  BY DEF ControlInv, InHand
<1>1. CASE Tick
  <2>1. OrbInHand'
    BY <1>1, <1>a DEF Tick, OrbInHand
  <2>2. ASSUME NEW j \in Ids PROVE Managed(j)'
    BY <1>1, <1>a DEF Tick, OrbInHand, Managed, Active, Running, ThreadType
  <2>3. TrafficReleased'
    BY <1>1, <1>a DEF Tick, TrafficReleased, Managed, OrbInHand
  <2> QED BY <2>1, <2>2, <2>3 DEF InHand
<1>2. CASE CaptureDies
  <2>1. OrbInHand'
    BY <1>2, <1>a DEF CaptureDies, OrbInHand
  <2>2. ASSUME NEW j \in Ids PROVE Managed(j)'
    BY <1>2, <1>a
    DEF CaptureDies, OrbInHand, Managed, Active, Running, ThreadType
  <2>3. TrafficReleased'
    BY <1>2, <1>a DEF CaptureDies, TrafficReleased, Managed, OrbInHand
  <2> QED BY <2>1, <2>2, <2>3 DEF InHand
<1>3. CASE StopRequest
  <2>1. OrbInHand'
    <3>1. CASE current # None
      <4>1. current \in Ids
        BY <1>a, <3>1 DEF ControlTypeOK
      <4>2. /\ \E p \in PostRolls, t \in Int :
                 orb' = [IdleOrb EXCEPT !.pc = "unchunk", !.id = current,
                                        !.tc = t, !.post = p]
            /\ UNCHANGED <<index, rec, manage, args, events>>
        <5>1. PICK p \in PostRolls,
                   t \in {Undefined} \cup (now - StopBack + 1 .. now) :
                orb' = [IdleOrb EXCEPT !.pc = "unchunk", !.id = current,
                                       !.tc = t, !.post = p]
          BY <1>3, <3>1 DEF StopRequest
        <5>2. t \in Int
          BY <1>a, ControlAssumption DEF ControlTypeOK, Undefined
        <5> QED BY <1>3, <5>1, <5>2 DEF StopRequest
      <4> QED BY <1>a, <4>1, <4>2
              DEF OrbInHand, At, Is, IdleOrb, StopCalls, StartCalls
    <3>2. CASE current = None
      <4>1. UNCHANGED <<index, orb, rec, manage, args, events>>
        BY <1>3, <3>2 DEF StopRequest
      <4> QED BY <1>a, <4>1 DEF OrbInHand, At, Is
    <3> QED BY <3>1, <3>2
  <2>2. ASSUME NEW j \in Ids PROVE Managed(j)'
    BY <1>3, <1>a
    DEF StopRequest, IdleOrb, Undefined, OrbInHand, Managed, Active,
        Running, ThreadType
  <2>3. TrafficReleased'
    BY <1>3, <1>a
    DEF StopRequest, IdleOrb, Undefined, TrafficReleased, Managed, OrbInHand
  <2> QED BY <2>1, <2>2, <2>3 DEF InHand
<1>4. CASE StartRequest
  <2>1. OrbInHand'
    <3>1. index <= MaxRec /\ UNCHANGED <<index, rec, manage, args, events>>
      BY <1>4 DEF StartRequest
    <3>2. CASE recording /\ current # None
      <4>1. current \in Ids
        BY <1>a, <3>2 DEF ControlTypeOK
      <4>2. orb'.pc = "unchunk" /\ orb'.id = current
        BY <1>4, <3>2 DEF StartRequest, IdleOrb
      <4> QED BY <3>1, <4>1, <4>2 DEF OrbInHand, At, StopCalls, StartCalls
    <3>3. CASE ~(recording /\ current # None)
      <4>1. orb'.pc = "new"
        BY <1>4, <3>3 DEF StartRequest, IdleOrb
      <4> QED BY <3>1, <4>1 DEF OrbInHand, At, StopCalls, StartCalls
    <3> QED BY <3>2, <3>3
  <2>2. ASSUME NEW j \in Ids PROVE Managed(j)'
    BY <1>4, <1>a
    DEF StartRequest, IdleOrb, Undefined, OrbInHand, Managed, Active,
        Running, ThreadType
  <2>3. TrafficReleased'
    BY <1>4, <1>a
    DEF StartRequest, IdleOrb, Undefined, TrafficReleased, Managed,
        OrbInHand
  <2> QED BY <2>1, <2>2, <2>3 DEF InHand
<1>5. CASE Unchunk
  <2>1. OrbInHand'
    BY <1>5, <1>a DEF Unchunk, OrbInHand
  <2>2. ASSUME NEW j \in Ids PROVE Managed(j)'
    BY <1>5, <1>a DEF Unchunk, OrbInHand, Managed, Active, Running, ThreadType
  <2>3. TrafficReleased'
    BY <1>5, <1>a DEF Unchunk, TrafficReleased, Managed, OrbInHand
  <2> QED BY <2>1, <2>2, <2>3 DEF InHand
<1>6. CASE Measure
  <2>1. OrbInHand'
    BY <1>6, <1>a DEF Measure, OrbInHand
  <2>2. ASSUME NEW j \in Ids PROVE Managed(j)'
    BY <1>6, <1>a DEF Measure, OrbInHand, Managed, Active, Running, ThreadType
  <2>3. TrafficReleased'
    BY <1>6, <1>a DEF Measure, TrafficReleased, Managed, OrbInHand
  <2> QED BY <2>1, <2>2, <2>3 DEF InHand
<1>7. CASE SetTarget
  <2>1. OrbInHand'
    BY <1>7, <1>a DEF SetTarget, OrbInHand
  <2>2. ASSUME NEW j \in Ids PROVE Managed(j)'
    BY <1>7, <1>a
    DEF SetTarget, OrbInHand, Managed, Active, Running, ThreadType
  <2>3. TrafficReleased'
    BY <1>7, <1>a DEF SetTarget, TrafficReleased, Managed, OrbInHand
  <2> QED BY <2>1, <2>2, <2>3 DEF InHand
<1>8. CASE Forget
  <2>1. OrbInHand'
    BY <1>8, <1>a DEF Forget, IdleOrb, Undefined, OrbInHand
  <2>2. ASSUME NEW j \in Ids PROVE Managed(j)'
    BY <1>8, <1>a
    DEF Forget, IdleOrb, Undefined, OrbInHand, Managed, Active, Running,
        ThreadType
  <2>3. TrafficReleased'
    BY <1>8, <1>a
    DEF Forget, IdleOrb, Undefined, TrafficReleased, Managed, OrbInHand
  <2> QED BY <2>1, <2>2, <2>3 DEF InHand
<1>9. CASE NewRecorder
  <2>a. index \in Ids /\ index \in Nat
    <3>1. index <= MaxRec /\ index \in 1 .. MaxRec + 1 /\ MaxRec \in Nat
      BY <1>9, <1>a, ControlAssumption
      DEF NewRecorder, OrbInHand, ControlTypeOK
    <3> QED BY <3>1 DEF Ids
  <2>b. /\ rec[index].life = "none" /\ index \notin events
        /\ manage[index].pc = "none"
    BY <1>a, <2>a DEF Managed, Is
  <2>c. /\ orb'.pc = "clear" /\ orb'.id = index /\ orb'.then = "idle"
        /\ rec'[index].life = "alive" /\ index' = index + 1
        /\ \A j \in Ids \ {index} : rec'[j] = rec[j]
        /\ UNCHANGED <<manage, thread, args, events, unsent>>
    BY <1>9, <1>a, <2>a DEF NewRecorder, IdleOrb, ControlTypeOK
  <2>1. OrbInHand'
    BY <2>a, <2>b, <2>c DEF OrbInHand, At, Is, StopCalls, StartCalls
  <2>2. ASSUME NEW j \in Ids PROVE Managed(j)'
    <3>1. Managed(j)
      BY <1>a
    <3>2. CASE j = index
      BY <2>a, <2>b, <2>c, <3>1, <3>2 DEF Managed, Active, Running, Is
    <3>3. CASE j # index
      <4>1. rec'[j].life = rec[j].life /\ j \in Nat
        BY <2>c, <3>3 DEF Ids
      <4> QED BY <2>a, <2>c, <3>1, <4>1 DEF Managed, Active, Running, Is
    <3> QED BY <3>2, <3>3
  <2>3. TrafficReleased'
    BY <1>9, <1>a
    DEF NewRecorder, IdleOrb, Undefined, TrafficReleased, Managed, OrbInHand
  <2> QED BY <2>1, <2>2, <2>3 DEF InHand
<1>10. CASE ClearSrcDest
  <2>1. OrbInHand'
    BY <1>10, <1>a DEF ClearSrcDest, OrbInHand
  <2>2. ASSUME NEW j \in Ids PROVE Managed(j)'
    BY <1>10, <1>a
    DEF ClearSrcDest, OrbInHand, Managed, Active, Running, ThreadType
  <2>3. TrafficReleased'
    BY <1>10, <1>a DEF ClearSrcDest, TrafficReleased, Managed, OrbInHand
  <2> QED BY <2>1, <2>2, <2>3 DEF InHand
<1>11. CASE AddSrcDest
  <2>1. OrbInHand'
    BY <1>11, <1>a DEF AddSrcDest, OrbInHand
  <2>2. ASSUME NEW j \in Ids PROVE Managed(j)'
    BY <1>11, <1>a
    DEF AddSrcDest, OrbInHand, Managed, Active, Running, ThreadType
  <2>3. TrafficReleased'
    BY <1>11, <1>a DEF AddSrcDest, TrafficReleased, Managed, OrbInHand
  <2> QED BY <2>1, <2>2, <2>3 DEF InHand
<1>12. CASE StopCopying
  <2>1. OrbInHand'
    BY <1>12, <1>a DEF StopCopying, Hold, EventBegins, OrbInHand
  <2>2. ASSUME NEW j \in Ids PROVE Managed(j)'
    BY <1>12, <1>a
    DEF StopCopying, Hold, EventBegins, OrbInHand, Managed, Active, Running,
        ThreadType
  <2>3. TrafficReleased'
    BY <1>12, <1>a
    DEF StopCopying, Hold, EventBegins, TrafficReleased, Managed, OrbInHand
  <2> QED BY <2>1, <2>2, <2>3 DEF InHand
<1>13. CASE Spawn
  <2>1. OrbInHand'
    BY <1>13, <1>a DEF Spawn, Spawned, Off, OrbInHand
  <2>2. ASSUME NEW j \in Ids PROVE Managed(j)'
    BY <1>13, <1>a
    DEF Spawn, Spawned, Off, OrbInHand, Managed, Active, Running, ThreadType
  <2>3. TrafficReleased'
    BY <1>13, <1>a DEF Spawn, Spawned, Off, TrafficReleased, Managed, OrbInHand
  <2> QED BY <2>1, <2>2, <2>3 DEF InHand
<1>14. CASE SetStatus
  <2>1. OrbInHand'
    BY <1>14, <1>a DEF SetStatus, IdleOrb, Undefined, OrbInHand
  <2>2. ASSUME NEW j \in Ids PROVE Managed(j)'
    BY <1>14, <1>a
    DEF SetStatus, IdleOrb, Undefined, OrbInHand, Managed, Active, Running,
        ThreadType
  <2>3. TrafficReleased'
    BY <1>14, <1>a
    DEF SetStatus, IdleOrb, Undefined, TrafficReleased, Managed, OrbInHand
  <2> QED BY <2>1, <2>2, <2>3 DEF InHand
<1>15. CASE Discard
  <2>1. OrbInHand'
    BY <1>15, <1>a DEF Discard, Deleted, NoRec, OrbInHand
  <2>2. ASSUME NEW j \in Ids PROVE Managed(j)'
    BY <1>15, <1>a
    DEF Discard, Deleted, NoRec, OrbInHand, Managed, Active, Running,
        ThreadType
  <2>3. TrafficReleased'
    BY <1>15, <1>a
    DEF Discard, Deleted, NoRec, TrafficReleased, Managed, OrbInHand
  <2> QED BY <2>1, <2>2, <2>3 DEF InHand
<1>16. CASE Release
  <2>1. OrbInHand'
    BY <1>16, <1>a DEF Release, IdleOrb, Undefined, LetGo, EventEnds, OrbInHand
  <2>2. ASSUME NEW j \in Ids PROVE Managed(j)'
    BY <1>16, <1>a
    DEF Release, IdleOrb, Undefined, LetGo, EventEnds, OrbInHand, Managed,
        Active, Running, ThreadType
  <2>3. TrafficReleased'
    BY <1>16, <1>a
    DEF Release, IdleOrb, Undefined, LetGo, EventEnds, TrafficReleased,
        Managed, OrbInHand
  <2> QED BY <2>1, <2>2, <2>3 DEF InHand
<1>17. ASSUME NEW i \in Ids, Join(i)
      PROVE  InHand' /\ TrafficReleased'
  <2>1. OrbInHand'
    BY <1>17, <1>a DEF Join, OrbInHand
  <2>2. ASSUME NEW j \in Ids PROVE Managed(j)'
    <3>1. ~Active(i) /\ i \in events /\ rec[i].life = "alive"
      BY <1>17, <1>a DEF Join, Active, Running, Managed, Is
    <3>2. CASE j = i
      <4>1. Is(i, "decide")'
        BY <1>17, <1>a DEF Join, Then, Is, ControlTypeOK, ManageType
      <4>2. ~Active(i)'
        BY <1>17, <3>1 DEF Join, Active, Running
      <4> QED BY <1>17, <1>a, <3>1, <3>2, <4>1, <4>2 DEF Join, Managed, Is
    <3>3. CASE j # i
      BY <1>17, <1>a, <3>3
      DEF Join, Then, Managed, Active, Running, Is, ControlTypeOK, ManageType
    <3> QED BY <3>2, <3>3
  <2>3. TrafficReleased'
    BY <1>17, <1>a DEF Join, TrafficReleased, Managed, OrbInHand
  <2> QED BY <2>1, <2>2, <2>3 DEF InHand
<1>18. ASSUME NEW i \in Ids, Decide(i)
      PROVE  InHand' /\ TrafficReleased'
  <2>1. OrbInHand'
    BY <1>18, <1>a DEF Decide, OrbInHand
  <2>2. ASSUME NEW j \in Ids PROVE Managed(j)'
    BY <1>18, <1>a DEF Decide, OrbInHand, Managed, Active, Running, ThreadType
  <2>3. TrafficReleased'
    BY <1>18, <1>a DEF Decide, TrafficReleased, Managed, OrbInHand
  <2> QED BY <2>1, <2>2, <2>3 DEF InHand
<1>19. ASSUME NEW i \in Ids, Out(i)
      PROVE  InHand' /\ TrafficReleased'
  <2>1. OrbInHand'
    BY <1>19, <1>a DEF Out, OrbInHand
  <2>2. ASSUME NEW j \in Ids PROVE Managed(j)'
    BY <1>19, <1>a DEF Out, OrbInHand, Managed, Active, Running, ThreadType
  <2>3. TrafficReleased'
    BY <1>19, <1>a DEF Out, TrafficReleased, Managed, OrbInHand
  <2> QED BY <2>1, <2>2, <2>3 DEF InHand
<1>20. ASSUME NEW i \in Ids, Extend(i)
      PROVE  InHand' /\ TrafficReleased'
  <2>1. OrbInHand'
    BY <1>20, <1>a DEF Extend, OrbInHand
  <2>2. ASSUME NEW j \in Ids PROVE Managed(j)'
    BY <1>20, <1>a DEF Extend, OrbInHand, Managed, Active, Running, ThreadType
  <2>3. TrafficReleased'
    BY <1>20, <1>a DEF Extend, TrafficReleased, Managed, OrbInHand
  <2> QED BY <2>1, <2>2, <2>3 DEF InHand
<1>21. ASSUME NEW i \in Ids, Locate(i)
      PROVE  InHand' /\ TrafficReleased'
  <2>1. OrbInHand'
    BY <1>21, <1>a DEF Locate, Waiting, Found, OrbInHand
  <2>2. ASSUME NEW j \in Ids PROVE Managed(j)'
    BY <1>21, <1>a
    DEF Locate, Waiting, Found, OrbInHand, Managed, Active, Running,
        ThreadType
  <2>3. TrafficReleased'
    BY <1>21, <1>a
    DEF Locate, Waiting, Found, TrafficReleased, Managed, OrbInHand
  <2> QED BY <2>1, <2>2, <2>3 DEF InHand
<1>22. ASSUME NEW i \in Ids, Setup(i)
      PROVE  InHand' /\ TrafficReleased'
  <2>1. OrbInHand'
    BY <1>22, <1>a DEF Setup, Off, Waiting, OrbInHand
  <2>2. ASSUME NEW j \in Ids PROVE Managed(j)'
    BY <1>22, <1>a
    DEF Setup, Off, Waiting, OrbInHand, Managed, Active, Running, ThreadType
  <2>3. TrafficReleased'
    BY <1>22, <1>a DEF Setup, Off, Waiting, TrafficReleased, Managed, OrbInHand
  <2> QED BY <2>1, <2>2, <2>3 DEF InHand
<1>23. ASSUME NEW i \in Ids, Respawn(i)
      PROVE  InHand' /\ TrafficReleased'
  <2>1. OrbInHand'
    BY <1>23, <1>a DEF Respawn, Spawned, Off, OrbInHand
  <2>2. ASSUME NEW j \in Ids PROVE Managed(j)'
    BY <1>23, <1>a
    DEF Respawn, Spawned, Off, OrbInHand, Managed, Active, Running,
        ThreadType
  <2>3. TrafficReleased'
    BY <1>23, <1>a
    DEF Respawn, Spawned, Off, TrafficReleased, Managed, OrbInHand
  <2> QED BY <2>1, <2>2, <2>3 DEF InHand
<1>24. ASSUME NEW i \in Ids, Compare(i)
      PROVE  InHand' /\ TrafficReleased'
  <2>1. OrbInHand'
    BY <1>24, <1>a DEF Compare, OrbInHand
  <2>2. ASSUME NEW j \in Ids PROVE Managed(j)'
    BY <1>24, <1>a DEF Compare, OrbInHand, Managed, Active, Running, ThreadType
  <2>3. TrafficReleased'
    BY <1>24, <1>a DEF Compare, TrafficReleased, Managed, OrbInHand
  <2> QED BY <2>1, <2>2, <2>3 DEF InHand
<1>25. ASSUME NEW i \in Ids, ClearCurrent(i)
      PROVE  InHand' /\ TrafficReleased'
  <2>1. OrbInHand'
    BY <1>25, <1>a DEF ClearCurrent, OrbInHand
  <2>2. ASSUME NEW j \in Ids PROVE Managed(j)'
    BY <1>25, <1>a
    DEF ClearCurrent, OrbInHand, Managed, Active, Running, ThreadType
  <2>3. TrafficReleased'
    BY <1>25, <1>a DEF ClearCurrent, TrafficReleased, Managed, OrbInHand
  <2> QED BY <2>1, <2>2, <2>3 DEF InHand
<1>26. ASSUME NEW i \in Ids, Another(i)
      PROVE  InHand' /\ TrafficReleased'
  <2>1. OrbInHand'
    BY <1>26, <1>a DEF Another, OrbInHand
  <2>2. ASSUME NEW j \in Ids PROVE Managed(j)'
    BY <1>26, <1>a DEF Another, OrbInHand, Managed, Active, Running, ThreadType
  <2>3. TrafficReleased'
    BY <1>26, <1>a DEF Another, TrafficReleased, Managed, OrbInHand
  <2> QED BY <2>1, <2>2, <2>3 DEF InHand
<1>27. ASSUME NEW i \in Ids, ClearStatus(i)
      PROVE  InHand' /\ TrafficReleased'
  <2>1. OrbInHand'
    BY <1>27, <1>a DEF ClearStatus, OrbInHand
  <2>2. ASSUME NEW j \in Ids PROVE Managed(j)'
    BY <1>27, <1>a
    DEF ClearStatus, OrbInHand, Managed, Active, Running, ThreadType
  <2>3. TrafficReleased'
    BY <1>27, <1>a DEF ClearStatus, TrafficReleased, Managed, OrbInHand
  <2> QED BY <2>1, <2>2, <2>3 DEF InHand
<1>28. ASSUME NEW i \in Ids, StartCopying(i)
      PROVE  InHand' /\ TrafficReleased'
  <2>1. OrbInHand'
    BY <1>28, <1>a DEF StartCopying, LetGo, EventEnds, OrbInHand
  <2>2. ASSUME NEW j \in Ids PROVE Managed(j)'
    BY <1>28, <1>a
    DEF StartCopying, LetGo, EventEnds, OrbInHand, Managed, Active, Running,
        ThreadType
  <2>3. TrafficReleased'
    BY <1>28, <1>a
    DEF StartCopying, LetGo, EventEnds, TrafficReleased, Managed, OrbInHand
  <2> QED BY <2>1, <2>2, <2>3 DEF InHand
<1>29. ASSUME NEW i \in Ids, Delete(i)
      PROVE  InHand' /\ TrafficReleased'
  <2>1. OrbInHand'
    BY <1>29, <1>a DEF Delete, Off, Waiting, Deleted, NoRec, OrbInHand
  <2>2. ASSUME NEW j \in Ids PROVE Managed(j)'
    BY <1>29, <1>a
    DEF Delete, Off, Waiting, Deleted, NoRec, OrbInHand, Managed, Active,
        Running, ThreadType
  <2>3. TrafficReleased'
    BY <1>29, <1>a
    DEF Delete, Off, Waiting, Deleted, NoRec, TrafficReleased, Managed,
        OrbInHand
  <2> QED BY <2>1, <2>2, <2>3 DEF InHand
<1>30. ASSUME NEW i \in Ids, NEW c \in Channels, Drop(i, c)
      PROVE  InHand' /\ TrafficReleased'
  <2>1. OrbInHand'
    BY <1>30, <1>a DEF Drop, Available, OrbInHand
  <2>2. ASSUME NEW j \in Ids PROVE Managed(j)'
    BY <1>30, <1>a
    DEF Drop, Available, OrbInHand, Managed, Active, Running, ThreadType
  <2>3. TrafficReleased'
    BY <1>30, <1>a DEF Drop, Available, TrafficReleased, Managed, OrbInHand
  <2> QED BY <2>1, <2>2, <2>3 DEF InHand
<1>31. ASSUME NEW i \in Ids, NEW c \in Channels, Write(i, c)
      PROVE  InHand' /\ TrafficReleased'
  <2>1. OrbInHand'
    BY <1>31, <1>a DEF Write, OrbInHand
  <2>2. ASSUME NEW j \in Ids PROVE Managed(j)'
    BY <1>31, <1>a DEF Write, OrbInHand, Managed, Active, Running, ThreadType
  <2>3. TrafficReleased'
    BY <1>31, <1>a DEF Write, TrafficReleased, Managed, OrbInHand
  <2> QED BY <2>1, <2>2, <2>3 DEF InHand
<1>32. ASSUME NEW i \in Ids, NEW c \in Channels, Check(i, c)
      PROVE  InHand' /\ TrafficReleased'
  <2>1. OrbInHand'
    BY <1>32, <1>a DEF Check, OrbInHand
  <2>2. ASSUME NEW j \in Ids PROVE Managed(j)'
    BY <1>32, <1>a DEF Check, OrbInHand, Managed, Active, Running, ThreadType
  <2>3. TrafficReleased'
    BY <1>32, <1>a DEF Check, TrafficReleased, Managed, OrbInHand
  <2> QED BY <2>1, <2>2, <2>3 DEF InHand
<1>33. ASSUME NEW i \in Ids, NEW c \in Channels, Fail(i, c)
      PROVE  InHand' /\ TrafficReleased'
  <2>1. OrbInHand'
    BY <1>33, <1>a DEF Fail, OrbInHand
  <2>2. ASSUME NEW j \in Ids PROVE Managed(j)'
    BY <1>33, <1>a DEF Fail, OrbInHand, Managed, Active, Running, ThreadType
  <2>3. TrafficReleased'
    BY <1>33, <1>a DEF Fail, TrafficReleased, Managed, OrbInHand
  <2> QED BY <2>1, <2>2, <2>3 DEF InHand
<1>34. CASE UNCHANGED controlVars
  BY <1>34, <1>a DEF controlVars, InHand, OrbInHand, Managed, Active, Running,
     TrafficReleased, At, Is
<1> QED BY <1>1, <1>2, <1>3, <1>4, <1>5, <1>6, <1>7, <1>8, <1>9, <1>10, <1>11,
       <1>12, <1>13, <1>14, <1>15, <1>16, <1>17, <1>18, <1>19, <1>20, <1>21,
       <1>22, <1>23, <1>24, <1>25, <1>26, <1>27, <1>28, <1>29, <1>30, <1>31,
       <1>32, <1>33, <1>34
     DEF ControlNext, OrbStep, StopSteps, StartSteps, ManageStep, ThreadStep

-----------------------------------------------------------------------------
(* The theorems *)

LEMMA ControlInit_Inv == ControlInit => ControlInv
<1> SUFFICES ASSUME ControlInit PROVE ControlInv
  OBVIOUS
<1>1. Search \in Nat /\ MaxRec \in Nat \ {0}
  BY ControlAssumption
<1>2. NoRec \in RecType /\ Waiting \in ManageType /\ Off \in ThreadType
  BY DEF NoRec, RecType, Waiting, ManageType, Off, ThreadType
<1>a. /\ rec \in [Ids -> RecType] /\ manage \in [Ids -> ManageType]
      /\ thread \in [Ids -> [Channels -> ThreadType]]
      /\ asked \in [Ids -> Int] /\ limit \in [Ids -> Int]
  BY <1>2 DEF ControlInit
<1>b. /\ index \in 1 .. MaxRec + 1 /\ now \in Nat /\ begun \in Nat
      /\ orb \in OrbType
  BY <1>1, IdleOrbType DEF ControlInit
<1>3. ControlTypeOK
  BY <1>a, <1>b DEF ControlInit, ControlTypeOK
<1>4. OrbInHand
  BY DEF ControlInit, OrbInHand, IdleOrb, At, StopCalls, StartCalls
<1>5. \A i \in Ids : Managed(i)
  BY DEF ControlInit, Managed, Active, Running, Is, NoRec, Waiting, Off
<1>6. TrafficReleased
  BY DEF ControlInit, TrafficReleased, NoRec
<1> QED BY <1>1, <1>3, <1>4, <1>5, <1>6 DEF ControlInv, InHand, ControlInit

LEMMA ControlInductive ==
  ControlInv /\ [ControlNext]_controlVars => ControlInv'
<1> SUFFICES ASSUME ControlInv, [ControlNext]_controlVars PROVE ControlInv'
  OBVIOUS
<1>1. ControlTypeOK' /\ now' >= Search
  BY TypeStep
<1>2. InHand' /\ TrafficReleased'
  BY <1>1, HandStep
<1> QED BY <1>1, <1>2 DEF ControlInv

(***************************************************************************)
(* ControlInv is an invariant: at most one of the ORB thread and the       *)
(* thread that waits has a recorder in hand, and the transfer server knows *)
(* of each recording from Start() to recording_completed().                *)
(***************************************************************************)
THEOREM ControlInvariant == ControlSpec => []ControlInv
<1>1. ControlInit => ControlInv
  BY ControlInit_Inv
<1>2. ControlInv /\ [ControlNext]_controlVars => ControlInv'
  BY ControlInductive
<1> QED BY <1>1, <1>2, PTL DEF ControlSpec

(***************************************************************************)
(* Types, for any number of channels and recordings: no chunk has a        *)
(* negative duration and no stop asks for one.                             *)
(***************************************************************************)
THEOREM ControlTypeCorrect == ControlSpec => []ControlTypeOK
<1>1. ControlInv => ControlTypeOK
  BY DEF ControlInv
<1> QED BY <1>1, ControlInvariant, PTL

(***************************************************************************)
(* A record thread never reads the target duration of a recorder that      *)
(* recording_completed() or a failed Start() has deleted.                  *)
(***************************************************************************)
THEOREM RecorderOwned == ControlSpec => []ThreadsOwnRecorder
<1>1. ControlInv => ThreadsOwnRecorder
  BY DEF ControlInv, InHand, Managed, ThreadsOwnRecorder, Is
<1> QED BY <1>1, ControlInvariant, PTL

(***************************************************************************)
(* While a record thread writes, the transfer server has been told of the  *)
(* recording and not of its end, whatever other recordings do.             *)
(***************************************************************************)
THEOREM TrafficIsHeld == ControlSpec => []TrafficHeld
<1>1. ControlInv => TrafficHeld
  BY DEF ControlInv, InHand, Managed, TrafficHeld, Is
<1> QED BY <1>1, ControlInvariant, PTL

(***************************************************************************)
(* An event is ended by the time its recorder is deleted, unless           *)
(* StartCopying() ran between ClearSrcDest() and AddSrcDest().             *)
(***************************************************************************)
THEOREM TrafficIsReleased == ControlSpec => []TrafficReleased
<1>1. ControlInv => TrafficReleased
  BY DEF ControlInv
<1> QED BY <1>1, ControlInvariant, PTL

-----------------------------------------------------------------------------
(* Stop() and the chunks *)

\* A recorder that makes no more chunks.
NoChunks(i) == ~rec[i].chunking /\ manage[i].pc \notin Restarting

(***************************************************************************)
(* The calls of the ORB thread.  Stop() reaches a recorder once: its limit *)
(* is not set before the target is, and the recorder is forgotten then.    *)
(* From Unchunk on it makes no more chunks, unless it was about to.        *)
(***************************************************************************)
Alive(i) == rec[i].life = "alive"
InTime(i) == Alive(i) /\ i \notin late

CallsSound ==
  /\ current < index /\ orb.id < index
  /\ \A i \in Ids : i >= index => limit[i] = 0
  /\ current # None => limit[current] = 0 \/ (At("forget") /\ orb.id = current)
  /\ orb.pc \in {"unchunk", "measure", "settarget"} => limit[orb.id] = 0
  /\ orb.pc \in {"measure", "settarget"} /\ InTime(orb.id) => NoChunks(orb.id)

\* The length that is about to be the target is the one that was asked for.
LengthSound ==
  /\ At("settarget") /\ InTime(orb.id) =>
       orb.length = LET len == asked[orb.id] - rec[orb.id].start
                    IN  IF len <= 0 THEN 1 ELSE len
  /\ orb.pc \in {"unchunk", "measure"} /\ Alive(orb.id) =>
       orb.tc = Undefined \/ orb.tc >= rec[orb.id].start
  /\ StopBack = 0 => orb.tc = Undefined
  /\ Chunk = 0 =>
       /\ \A i \in Ids : NoChunks(i)
       /\ current # None /\ Alive(current) => begun = rec[current].start

\* How far past the limit of its recorder a record thread may have written.
Margin(pc) == IF pc = "run" THEN 0 ELSE IF pc = "behind" THEN MaxDrop
              ELSE MaxDrop + 1

\* No thread is further past the limit than one write and what was dropped
\* before it, and none that is done fell short of the target.
ThreadKept(i, c) ==
  LET t == thread[i][c]
  IN  /\ t.pc # "off"
      /\ rec[i].start + t.total <= limit[i] + Margin(t.pc)
      /\ t.pc = "done" /\ rec[i].ok => t.total >= rec[i].target

\* A recorder that was stopped in time: its target is where the client wants
\* it to end.
StopKept(i) ==
  limit[i] > 0 /\ i \notin late =>
    /\ ~Is(i, "none") /\ NoChunks(i)
    /\ rec[i].target >= 1
    /\ rec[i].start + rec[i].target <= limit[i] + 1
    /\ rec[i].start + rec[i].target >= asked[i]
    /\ \A c \in Channels : ThreadKept(i, c)

\* A recorder between two chunks: every thread has written the chunk to its
\* end, which is where the next one begins.
ChunkKept(i) ==
  /\ Is(i, "none") => i \notin gap
  /\ i \in gap => i \in late \/ ~rec[i].ok
  /\ manage[i].pc \in {"join", "decide", "out", "extend", "locate"} =>
       \A c \in Channels : thread[i][c].pc # "off"
  /\ i \notin late /\ rec[i].ok =>
       /\ manage[i].pc \in {"join", "decide", "out"} =>
            \A c \in Channels : thread[i][c].pc = "done" =>
                                  thread[i][c].total >= rec[i].target
       /\ manage[i].pc \in {"extend", "locate"} =>
            \A c \in Channels :
              rec[i].start + thread[i][c].total >= manage[i].restart

\* Stop timecodes do not reach back over the end of a chunk.
StopsInChunk == StopBack = 0 \/ Chunk = 0
AllSpawn == SpawnMayFail = FALSE

TargetInv ==
  /\ ControlInv /\ CallsSound
  /\ StopsInChunk => LengthSound /\ \A i \in Ids : StopKept(i)
  /\ AllSpawn => \A i \in Ids : ChunkKept(i)

\* What a step of another recorder's threads leaves alone.
Same(j) ==
  /\ rec'[j] = rec[j] /\ manage'[j] = manage[j] /\ thread'[j] = thread[j]
  /\ limit'[j] = limit[j] /\ asked'[j] = asked[j]
  /\ (j \in late') = (j \in late) /\ (j \in gap') = (j \in gap)

LEMMA SameKeeps ==
  ASSUME NEW j \in Ids, Same(j)
  PROVE  /\ NoChunks(j)' = NoChunks(j) /\ InTime(j)' = InTime(j)
         /\ Alive(j)' = Alive(j)
         /\ StopKept(j)' = StopKept(j) /\ ChunkKept(j)' = ChunkKept(j)
<1>1. NoChunks(j)' = NoChunks(j) /\ InTime(j)' = InTime(j) /\ Alive(j)' = Alive(j)
  BY DEF Same, NoChunks, InTime, Alive
<1>2. StopKept(j)' = StopKept(j)
  BY <1>1 DEF Same, StopKept, ThreadKept, Is
<1>3. ChunkKept(j)' = ChunkKept(j)
  BY DEF Same, ChunkKept, Is
<1> QED BY <1>1, <1>2, <1>3

\* A thread of a recorder changes that recorder only, and of what the ORB
\* thread goes by it only clears mpIngexRecorder.
LEMMA StepsApart ==
  ASSUME ControlTypeOK, NEW i \in Ids,
         ManageStep(i) \/ \E c \in Channels : ThreadStep(i, c)
  PROVE  /\ \A j \in Ids \ {i} : Same(j)
         /\ UNCHANGED <<index, orb, begun>> /\ current' \in {current, None}
         /\ ~Delete(i) => UNCHANGED <<limit, asked, late>>
<1> USE DEF implVars, copyVars, historyVars, Then, ControlTypeOK
<1>1. CASE Join(i) \/ Decide(i) \/ Out(i) \/ Compare(i) \/ ClearCurrent(i)
           \/ Another(i) \/ ClearStatus(i) \/ StartCopying(i)
  BY <1>1 DEF Same, Join, Decide, Out, Compare, ClearCurrent, Another, ClearStatus,
     StartCopying, LetGo
<1>2. CASE Extend(i)
  BY <1>2 DEF Same, Extend
<1>3. CASE Locate(i)
  BY <1>3 DEF Same, Locate
<1>4. CASE Setup(i)
  BY <1>4 DEF Same, Setup
<1>5. CASE Respawn(i)
  BY <1>5 DEF Same, Respawn, Spawned
<1>6. CASE Delete(i)
  BY <1>6 DEF Same, Delete
<1>7. ASSUME NEW c \in Channels, ThreadStep(i, c)
      PROVE  /\ \A j \in Ids \ {i} : Same(j)
             /\ UNCHANGED <<index, orb, begun>> /\ current' \in {current, None}
             /\ UNCHANGED <<limit, asked, late>>
  BY <1>7 DEF Same, ThreadStep, Drop, Write, Check, Fail
<1> QED BY <1>1, <1>2, <1>3, <1>4, <1>5, <1>6, <1>7 DEF ManageStep

\* The thread that waits goes on with a recorder that makes no more chunks.
LEMMA ManageGoesOn ==
  ASSUME ControlTypeOK, NEW i \in Ids, ManageStep(i), ~Delete(i), NoChunks(i)
  PROVE  /\ UNCHANGED <<rec, thread, limit, asked, late, gap>>
         /\ ~Is(i, "none")' /\ NoChunks(i)'
         /\ manage'[i].pc \notin {"join", "out", "extend", "locate"}
         /\ manage'[i].pc = "decide" => manage[i].pc = "join"
<1> USE DEF implVars, copyVars, historyVars, Then, Is, NoChunks, Restarting
<1>a. manage \in [Ids -> ManageType] /\ manage[i] \in ManageType
  BY DEF ControlTypeOK
<1>b. ASSUME NEW pc, manage' = [manage EXCEPT ![i].pc = pc]
      PROVE  manage'[i].pc = pc
  BY <1>a, <1>b DEF ManageType
<1>1. CASE Join(i) \/ Decide(i)
  BY <1>1, <1>b DEF Join, Decide
<1>2. CASE Compare(i) \/ ClearCurrent(i) \/ Another(i)
  BY <1>2, <1>b DEF Compare, ClearCurrent, Another
<1>3. CASE ClearStatus(i) \/ StartCopying(i)
  BY <1>3, <1>b DEF ClearStatus, StartCopying, LetGo
<1>4. ~Out(i) /\ ~Extend(i) /\ ~Locate(i) /\ ~Setup(i) /\ ~Respawn(i)
  BY DEF Out, Extend, Locate, Setup, Respawn
<1> QED BY <1>1, <1>2, <1>3, <1>4 DEF ManageStep

\* A step of a record thread.
LEMMA ThreadDoes ==
  ASSUME ControlTypeOK, NEW i \in Ids, NEW c \in Channels, ThreadStep(i, c)
  PROVE  /\ UNCHANGED <<manage, limit, asked, late, gap>>
         /\ \A d \in Channels \ {c} : thread'[i][d] = thread[i][d]
         /\ rec'[i].chunking = rec[i].chunking /\ rec'[i].target = rec[i].target
         /\ rec'[i].start = rec[i].start /\ rec'[i].life = rec[i].life
         /\ rec'[i].ok => rec[i].ok
         /\ LET t == thread[i][c]
                u == thread'[i][c]
            IN  \/ /\ t.pc = "run" /\ u.pc = "behind"
                   /\ u.total \in Nat /\ u.total <= t.total + MaxDrop
                \/ /\ t.pc \in {"run", "behind"} /\ u.pc = "check"
                   /\ u.total = t.total + 1
                \/ /\ t.pc = "check" /\ u.total = t.total
                   /\ u.pc = IF Reached(i, c) THEN "done" ELSE "run"
                \/ /\ t.pc = "run" /\ u.pc = "done" /\ u.total = t.total
                   /\ ~rec'[i].ok
<1> USE DEF implVars, copyVars, historyVars
<1>a. /\ thread \in [Ids -> [Channels -> ThreadType]]
      /\ thread[i][c].total \in Nat /\ rec \in [Ids -> RecType]
      /\ thread[i] \in [Channels -> ThreadType] /\ thread[i][c] \in ThreadType
  BY DEF ControlTypeOK, ThreadType
<1>1. CASE Drop(i, c)
  <2>1. PICK d \in 1 .. MaxDrop :
               thread' = [thread EXCEPT ![i][c].pc = "behind",
                                        ![i][c].total = @ + d]
    BY <1>1 DEF Drop
  <2>2. /\ thread'[i][c].pc = "behind" /\ thread'[i][c].total = thread[i][c].total + d
        /\ \A e \in Channels \ {c} : thread'[i][e] = thread[i][e]
    BY <1>a, <2>1 DEF ThreadType
  <2>3. thread'[i][c].total \in Nat /\ thread'[i][c].total <= thread[i][c].total + MaxDrop
    BY <1>a, <2>2, ControlAssumption
  <2> QED BY <1>1, <2>2, <2>3 DEF Drop
<1>2. CASE Write(i, c)
  <2>1. /\ thread'[i][c].pc = "check" /\ thread'[i][c].total = thread[i][c].total + 1
        /\ \A e \in Channels \ {c} : thread'[i][e] = thread[i][e]
    BY <1>a, <1>2 DEF Write, ThreadType
  <2> QED BY <1>2, <2>1 DEF Write
<1>3. CASE Check(i, c)
  <2>1. /\ thread'[i][c].pc = IF Reached(i, c) THEN "done" ELSE "run"
        /\ thread'[i][c].total = thread[i][c].total
        /\ \A e \in Channels \ {c} : thread'[i][e] = thread[i][e]
    BY <1>a, <1>3 DEF Check, ThreadType
  <2> QED BY <1>3, <2>1 DEF Check
<1>4. CASE Fail(i, c)
  <2>1. /\ thread'[i][c].pc = "done" /\ thread'[i][c].total = thread[i][c].total
        /\ \A e \in Channels \ {c} : thread'[i][e] = thread[i][e]
    BY <1>a, <1>4 DEF Fail, ThreadType
  <2>2. rec' = [rec EXCEPT ![i].ok = FALSE]
    BY <1>4 DEF Fail
  <2>3. /\ rec'[i].chunking = rec[i].chunking /\ rec'[i].target = rec[i].target
        /\ rec'[i].start = rec[i].start /\ rec'[i].life = rec[i].life
        /\ ~rec'[i].ok
    BY <1>a, <2>2 DEF RecType
  <2> QED BY <1>4, <2>1, <2>3 DEF Fail
<1> QED BY <1>1, <1>2, <1>3, <1>4 DEF ThreadStep

\* Types of what belongs to a recorder.
LEMMA RecorderTypes ==
  ASSUME ControlTypeOK, NEW i \in Ids
  PROVE  /\ rec[i] \in RecType /\ manage[i] \in ManageType
         /\ rec[i].start \in Nat /\ rec[i].target \in Nat
         /\ manage[i].restart \in Nat
         /\ asked[i] \in Int /\ limit[i] \in Int /\ MaxDrop \in Nat
         /\ \A c \in Channels : /\ thread[i][c] \in ThreadType
                                /\ thread[i][c].total \in Nat
                                /\ Margin(thread[i][c].pc) \in Nat
<1>1. MaxDrop \in Nat
  BY ControlAssumption
<1> QED BY <1>1 DEF ControlTypeOK, RecType, ManageType, ThreadType, Margin

LEMMA StopManage ==
  ASSUME ControlTypeOK, NEW i \in Ids, ManageStep(i), StopKept(i)
  PROVE  StopKept(i)'
<1>1. CASE Delete(i)
  <2>1. limit'[i] = 0
    BY <1>1 DEF Delete, ControlTypeOK
  <2> QED BY <2>1 DEF StopKept
<1>2. CASE ~Delete(i)
  <2>1. UNCHANGED <<limit, asked, late>>
    BY <1>2, StepsApart
  <2>2. CASE limit[i] > 0 /\ i \notin late
    <3>1. NoChunks(i)
      BY <2>2 DEF StopKept
    <3> QED BY <1>2, <2>2, <3>1, ManageGoesOn
        DEF StopKept, ThreadKept, Is
  <2> QED BY <2>1, <2>2 DEF StopKept
<1> QED BY <1>1, <1>2

LEMMA StopThread ==
  ASSUME ControlTypeOK, NEW i \in Ids, NEW c \in Channels, ThreadStep(i, c),
         StopKept(i)
  PROVE  StopKept(i)'
<1>1. /\ UNCHANGED <<manage, limit, asked, late>>
      /\ \A d \in Channels \ {c} : thread'[i][d] = thread[i][d]
      /\ rec'[i].chunking = rec[i].chunking /\ rec'[i].target = rec[i].target
      /\ rec'[i].start = rec[i].start
      /\ rec'[i].ok => rec[i].ok
  BY ThreadDoes
<1> SUFFICES ASSUME limit[i] > 0, i \notin late
             PROVE  StopKept(i)'
  BY <1>1 DEF StopKept
<1>2. /\ ~Is(i, "none") /\ NoChunks(i) /\ rec[i].target >= 1
      /\ rec[i].start + rec[i].target <= limit[i] + 1
      /\ rec[i].start + rec[i].target >= asked[i]
      /\ \A d \in Channels : ThreadKept(i, d)
  BY DEF StopKept
<1>3. ~Is(i, "none")' /\ NoChunks(i)'
  BY <1>1, <1>2 DEF Is, NoChunks
<1>4. ThreadKept(i, c)'
  <2>0. /\ ThreadKept(i, c) /\ UNCHANGED limit
        /\ rec'[i].start = rec[i].start /\ rec'[i].target = rec[i].target
        /\ rec'[i].ok => rec[i].ok
        /\ rec[i].start + rec[i].target <= limit[i] + 1 /\ rec[i].target >= 1
    BY <1>1, <1>2
  <2>1. /\ rec[i].start \in Nat /\ rec[i].target \in Nat /\ limit[i] \in Int
        /\ MaxDrop \in Nat /\ thread[i][c].total \in Nat
    BY RecorderTypes
  <2>2. CASE thread[i][c].pc = "run" /\ thread'[i][c].pc = "behind"
             /\ thread'[i][c].total \in Nat
             /\ thread'[i][c].total <= thread[i][c].total + MaxDrop
    BY <2>0, <2>1, <2>2 DEF ThreadKept, Margin
  <2>3. CASE thread[i][c].pc \in {"run", "behind"} /\ thread'[i][c].pc = "check"
             /\ thread'[i][c].total = thread[i][c].total + 1
    BY <2>0, <2>1, <2>3 DEF ThreadKept, Margin
  <2>4. CASE thread[i][c].pc = "check" /\ thread'[i][c].total = thread[i][c].total
             /\ thread'[i][c].pc = IF Reached(i, c) THEN "done" ELSE "run"
    <3>1. CASE Reached(i, c)
      BY <2>0, <2>1, <2>4, <3>1 DEF ThreadKept, Margin, Reached
    <3>2. CASE ~Reached(i, c)
      <4>1. thread[i][c].total < rec[i].target
        BY <2>0, <2>1, <3>2 DEF Reached
      <4> QED BY <2>0, <2>1, <2>4, <3>2, <4>1 DEF ThreadKept, Margin
    <3> QED BY <3>1, <3>2
  <2>5. CASE thread[i][c].pc = "run" /\ thread'[i][c].pc = "done"
             /\ thread'[i][c].total = thread[i][c].total /\ ~rec'[i].ok
    BY <2>0, <2>1, <2>5 DEF ThreadKept, Margin
  <2> QED BY <2>2, <2>3, <2>4, <2>5, ThreadDoes
<1>5. ASSUME NEW d \in Channels PROVE ThreadKept(i, d)'
  <2>1. CASE d = c
    BY <1>4, <2>1
  <2>2. CASE d # c
    BY <1>1, <1>2, <2>2 DEF ThreadKept
  <2> QED BY <2>1, <2>2
<1> QED BY <1>1, <1>2, <1>3, <1>5 DEF StopKept

LEMMA ChunkThread ==
  ASSUME ControlTypeOK, NEW i \in Ids, Managed(i), NEW c \in Channels,
         ThreadStep(i, c), ChunkKept(i)
  PROVE  ChunkKept(i)'
<1>1. /\ UNCHANGED <<manage, limit, asked, late, gap>>
      /\ \A d \in Channels \ {c} : thread'[i][d] = thread[i][d]
      /\ rec'[i].target = rec[i].target
      /\ rec'[i].start = rec[i].start
      /\ rec'[i].ok => rec[i].ok
  BY ThreadDoes
<1>2. thread[i][c].pc \in {"run", "behind", "check"} /\ Is(i, "join")
  <2>1. thread[i][c].pc \in {"run", "behind", "check"}
    BY ThreadDoes
  <2> QED BY <2>1 DEF Managed, Active, Running
<1>3. thread'[i][c].pc # "off"
      /\ (thread'[i][c].pc = "done" /\ rec'[i].ok
          => thread'[i][c].total >= rec[i].target)
  BY ThreadDoes DEF Reached
<1> DEFINE Complete(d) ==
      /\ thread[i][d].pc # "off"
      /\ i \notin late /\ rec[i].ok /\ thread[i][d].pc = "done"
           => thread[i][d].total >= rec[i].target
<1>4. ASSUME NEW d \in Channels
      PROVE  Complete(d)'
  <2>1. Complete(d)
    BY <1>2 DEF ChunkKept, Is
  <2>2. CASE d = c
    BY <1>1, <1>3, <2>2
  <2>3. CASE d # c
    BY <1>1, <2>1, <2>3
  <2> QED BY <2>2, <2>3
<1> QED BY <1>1, <1>2, <1>4 DEF ChunkKept, Is

\* The greatest and the least count of the record threads of a recorder.
LEMMA CountsOf ==
  ASSUME ControlTypeOK, NEW i \in Ids
  PROVE  /\ Recorded(i) \in Nat /\ \A c \in Channels : thread[i][c].total <= Recorded(i)
         /\ \E c \in Channels : thread[i][c].total = Recorded(i)
         /\ \E c \in Channels : thread[i][c].total = Shortest(i)
<1> DEFINE f == [c \in Channels |-> thread[i][c].total]
           S == {f[c] : c \in Channels}
<1>1. S \subseteq Nat /\ S = {thread[i][c].total : c \in Channels}
  BY DEF ControlTypeOK, ThreadType
<1>2. IsFiniteSet(Channels) /\ Channels # {}
  BY ControlAssumption
<1>3. f = [c \in Channels |-> f[c]]
  OBVIOUS
<1> HIDE DEF f
<1>4. IsFiniteSet(S)
  BY <1>2, <1>3, FiniteImage
<1>5. S # {} /\ S \subseteq Int
  BY <1>1, <1>2
<1>6. S = {thread[i][c].total : c \in Channels}
  BY <1>1
<1> HIDE DEF S
<1>7. /\ \E x \in S : \A y \in S : x >= y
      /\ \E x \in S : \A y \in S : x =< y
  BY <1>4, <1>5, Extremes
<1>8. Max(S) \in S /\ \A y \in S : Max(S) >= y
  BY <1>7 DEF Max
<1>9. Min(S) \in S
  BY <1>7 DEF Min
<1>10. Recorded(i) = Max(S) /\ Shortest(i) = Min(S)
  BY <1>6 DEF Recorded, Shortest
<1>11. \A c \in Channels : thread[i][c].total \in S
  BY <1>6
<1>12. /\ \E c \in Channels : thread[i][c].total = Max(S)
       /\ \E c \in Channels : thread[i][c].total = Min(S)
  BY <1>6, <1>8, <1>9
<1>13. Recorded(i) \in Nat
  BY RecordedType
<1>14. ASSUME NEW c \in Channels PROVE thread[i][c].total <= Recorded(i)
  <2>1. thread[i][c].total \in Int
    BY <1>5, <1>11
  <2> QED BY <1>8, <1>10, <1>11, <1>13, <2>1
<1> QED BY <1>10, <1>12, <1>13, <1>14

LEMMA ChunkManage ==
  ASSUME ControlTypeOK, AllSpawn, NEW i \in Ids, Managed(i), ManageStep(i),
         ChunkKept(i)
  PROVE  ChunkKept(i)'
<1> USE DEF implVars, copyVars, historyVars, Then, Is
<1>a. /\ manage \in [Ids -> ManageType] /\ manage[i] \in ManageType
      /\ rec \in [Ids -> RecType] /\ rec[i] \in RecType
      /\ thread \in [Ids -> [Channels -> ThreadType]]
  BY DEF ControlTypeOK
<1>b. ASSUME NEW pc, manage' = [manage EXCEPT ![i].pc = pc]
      PROVE  manage'[i].pc = pc /\ manage'[i].restart = manage[i].restart
  BY <1>a, <1>b DEF ManageType
<1>c. ~Is(i, "join") => \A c \in Channels : thread[i][c].pc \in {"done", "off"}
  BY <1>a DEF Managed, Active, Running, ThreadType
<1>1. CASE Join(i)
  BY <1>1, <1>b DEF Join, ChunkKept
<1>2. CASE Decide(i)
  <2>1. manage'[i].pc \in {"out", "compare"}
    BY <1>2, <1>b DEF Decide
  <2> QED BY <1>2, <2>1 DEF Decide, ChunkKept
<1>3. CASE Out(i)
  <2>1. manage'[i].pc = "extend" /\ manage'[i].restart = OutTime(i)
        /\ UNCHANGED <<rec, thread, late, gap>>
    BY <1>3, <1>a DEF Out, ManageType
  <2>2. ASSUME i \notin late, rec[i].ok, NEW c \in Channels
        PROVE  rec[i].start + thread[i][c].total >= OutTime(i)
    <3>1. thread[i][c].pc = "done" /\ thread[i][c].total >= rec[i].target
      BY <1>3, <1>c, <2>2 DEF Out, ChunkKept
    <3>2. /\ thread[i][c].total \in Nat /\ rec[i].start \in Nat
          /\ rec[i].target \in Nat
      BY RecorderTypes
    <3> QED BY <3>1, <3>2 DEF OutTime
  <2> QED BY <1>3, <2>1, <2>2 DEF Out, ChunkKept
<1>4. CASE Extend(i)
  <2>1. /\ manage'[i].pc = "locate" /\ manage'[i].restart = manage[i].restart
        /\ UNCHANGED <<thread, late, gap>>
    BY <1>4, <1>b DEF Extend
  <2>2. rec'[i].start = rec[i].start /\ rec'[i].ok = rec[i].ok
    BY <1>4, <1>a DEF Extend, RecType
  <2> QED BY <1>4, <2>1, <2>2 DEF Extend, ChunkKept
<1>5. CASE Locate(i)
  <2>1. /\ manage'[i].pc = "setup" /\ UNCHANGED <<thread, late>>
        /\ rec'[i].ok = rec[i].ok
    BY <1>5, <1>a DEF Locate, ManageType, RecType, Waiting
  <2>2. i \in gap' =>
          i \in gap \/ manage[i].restart > rec[i].start + Shortest(i)
    BY <1>5 DEF Locate
  <2>3. ASSUME i \notin late, rec[i].ok
        PROVE  ~(manage[i].restart > rec[i].start + Shortest(i))
    <3>1. PICK c \in Channels : thread[i][c].total = Shortest(i)
      BY CountsOf
    <3>2. rec[i].start + thread[i][c].total >= manage[i].restart
      BY <1>5, <2>3 DEF Locate, ChunkKept
    <3>3. /\ thread[i][c].total \in Nat /\ rec[i].start \in Nat
          /\ manage[i].restart \in Nat
      BY RecorderTypes
    <3> QED BY <3>1, <3>2, <3>3
  <2> QED BY <2>1, <2>2, <2>3 DEF ChunkKept
<1>6. CASE Setup(i)
  <2>1. manage'[i].pc \in {"respawn", "compare"} /\ UNCHANGED <<rec, late, gap>>
    BY <1>6, <1>a DEF Setup, Waiting
  <2> QED BY <1>6, <2>1 DEF ChunkKept, Setup
<1>7. CASE Respawn(i)
  <2>1. UNCHANGED <<rec, late, gap>>
    BY <1>7 DEF Respawn
  <2>2. CASE manage' = [manage EXCEPT ![i].pc = "compare"]
    BY <1>7, <1>b, <2>1, <2>2 DEF Respawn, ChunkKept
  <2>3. CASE Spawned(i, Channels) /\ manage' = [manage EXCEPT ![i].pc = "join"]
    <3>1. manage'[i].pc = "join"
      BY <1>b, <2>3
    <3>2. \A c \in Channels : thread'[i][c].pc = "run"
      BY <1>a, <2>3 DEF Spawned
    <3> QED BY <1>7, <2>1, <3>1, <3>2 DEF Respawn, ChunkKept
  <2> QED BY <1>7, <2>2, <2>3 DEF Respawn, Startable, AllSpawn
<1>8. CASE Compare(i) \/ ClearCurrent(i) \/ Another(i) \/ ClearStatus(i)
           \/ StartCopying(i)
  <2>1. manage'[i].pc \in {"clear", "another", "clearstatus", "startcopying", "delete"}
    BY <1>8, <1>b DEF Compare, ClearCurrent, Another, ClearStatus, StartCopying
  <2>2. UNCHANGED <<rec, late, gap>> /\ ~Is(i, "none")
    BY <1>8 DEF Compare, ClearCurrent, Another, ClearStatus, StartCopying
  <2> QED BY <2>1, <2>2 DEF ChunkKept
<1>9. CASE Delete(i)
  <2>1. manage'[i].pc = "none" /\ i \notin gap'
    BY <1>9, <1>a DEF Delete, Waiting
  <2> QED BY <2>1 DEF ChunkKept
<1> QED BY <1>1, <1>2, <1>3, <1>4, <1>5, <1>6, <1>7, <1>8, <1>9 DEF ManageStep

\* Steps that do nothing to a recorder.
Quiet == \/ Tick \/ CaptureDies \/ StopRequest \/ StartRequest \/ Forget
         \/ ClearSrcDest \/ AddSrcDest \/ StopCopying \/ SetStatus \/ Release
         \/ UNCHANGED controlVars

LEMMA QuietSteps == ASSUME Quiet, NEW j \in Ids PROVE Same(j)
<1> USE DEF implVars, recVars, copyVars, historyVars, Same
<1>1. CASE Tick \/ CaptureDies \/ StopRequest \/ StartRequest \/ Forget
  BY <1>1 DEF Tick, CaptureDies, StopRequest, StartRequest, Forget
<1>2. CASE ClearSrcDest \/ AddSrcDest \/ StopCopying \/ SetStatus \/ Release
  BY <1>2 DEF ClearSrcDest, AddSrcDest, StopCopying, SetStatus, Release
<1>3. CASE UNCHANGED controlVars
  BY <1>3 DEF controlVars
<1> QED BY <1>1, <1>2, <1>3 DEF Quiet

\* The other steps of the ORB thread do something to one.
LEMMA OrbApart ==
  ASSUME ControlTypeOK, NEW j \in Ids
  PROVE  /\ Unchunk \/ Measure \/ SetTarget \/ Spawn \/ Discard
              => j = orb.id \/ Same(j)
         /\ NewRecorder => j = index \/ Same(j)
<1> USE DEF implVars, recVars, copyVars, historyVars, Same, ControlTypeOK
<1>1. ASSUME Unchunk \/ Measure \/ SetTarget PROVE j = orb.id \/ Same(j)
  BY <1>1 DEF Unchunk, Measure, SetTarget
<1>2. ASSUME Spawn PROVE j = orb.id \/ Same(j)
  BY <1>2 DEF Spawn, Spawned
<1>3. ASSUME Discard PROVE j = orb.id \/ Same(j)
  BY <1>3 DEF Discard
<1>4. ASSUME NewRecorder PROVE j = index \/ Same(j)
  BY <1>4 DEF NewRecorder
<1> HIDE DEF Same
<1> QED BY <1>1, <1>2, <1>3, <1>4

\* Stop() sets the target.
LEMMA SetTargetStops ==
  ASSUME ControlTypeOK, SetTarget, CallsSound, LengthSound,
         NEW i \in Ids, i = orb.id, Managed(i), StopKept(i)
  PROVE  StopKept(i)'
<1> SUFFICES ASSUME limit'[i] > 0, i \notin late' PROVE StopKept(i)'
  BY DEF StopKept
<1>1. /\ rec' = [rec EXCEPT ![i].target = orb.length]
      /\ limit' = [limit EXCEPT ![i] =
                     Max({asked[i], rec[i].start + Recorded(i)})]
      /\ UNCHANGED <<manage, thread, asked>> /\ i \notin late
      /\ \A c \in Channels : Running(i, c)
  BY DEF SetTarget, recVars
<1>2. /\ rec'[i].target = orb.length /\ rec'[i].start = rec[i].start
      /\ rec'[i].chunking = rec[i].chunking
      /\ limit'[i] = Max({asked[i], rec[i].start + Recorded(i)})
  <2>1. /\ rec \in [Ids -> RecType] /\ limit \in [Ids -> Int]
        /\ rec[i] \in RecType
    BY DEF ControlTypeOK
  <2>2. /\ rec'[i].target = orb.length /\ rec'[i].start = rec[i].start
        /\ rec'[i].chunking = rec[i].chunking
    BY <1>1, <2>1 DEF RecType
  <2>3. ASSUME NEW m, limit' = [limit EXCEPT ![i] = m] PROVE limit'[i] = m
    BY <2>1, <2>3
  <2> QED BY <1>1, <2>2, <2>3
<1>3. Is(i, "join") /\ Alive(i)
  <2>1. Channels # {}
    BY ControlAssumption
  <2>2. Active(i)
    BY <1>1, <2>1 DEF Active
  <2> QED BY <2>2 DEF Managed, Is, Alive
<1>4. NoChunks(i) /\ orb.length = LET len == asked[i] - rec[i].start
                                 IN  IF len <= 0 THEN 1 ELSE len
  BY <1>1, <1>3 DEF CallsSound, LengthSound, InTime, SetTarget, At
<1>5. /\ rec[i].start \in Nat /\ asked[i] \in Int /\ Recorded(i) \in Nat
      /\ MaxDrop \in Nat
  BY RecorderTypes, CountsOf
<1>6. limit'[i] \in Int /\ limit'[i] >= asked[i] /\ limit'[i] >= rec[i].start + Recorded(i)
  <2> DEFINE a == asked[i]
             b == rec[i].start + Recorded(i)
  <2>1. a \in Int /\ b \in Int
    BY <1>5
  <2> HIDE DEF a, b
  <2>2. \E x \in {a, b} : \A y \in {a, b} : x >= y
    BY <2>1
  <2>3. Max({a, b}) \in {a, b} /\ \A y \in {a, b} : Max({a, b}) >= y
    BY <2>2 DEF Max
  <2> QED BY <1>2, <2>1, <2>3 DEF a, b
<1>7. /\ rec'[i].target >= 1 /\ rec'[i].start + rec'[i].target <= limit'[i] + 1
      /\ rec'[i].start + rec'[i].target >= asked'[i]
  <2>1. CASE asked[i] - rec[i].start <= 0
    BY <1>1, <1>2, <1>4, <1>5, <1>6, <2>1
  <2>2. CASE ~(asked[i] - rec[i].start <= 0)
    BY <1>1, <1>2, <1>4, <1>5, <1>6, <2>2
  <2> QED BY <2>1, <2>2
<1>8. ASSUME NEW c \in Channels PROVE ThreadKept(i, c)'
  <2>1. thread[i][c].pc \in {"run", "behind", "check"}
    BY <1>1 DEF Running
  <2>2. thread[i][c].total \in Nat /\ thread[i][c].total <= Recorded(i)
    BY RecorderTypes, CountsOf
  <2>3. Margin(thread[i][c].pc) \in Nat
    BY <1>5 DEF Margin
  <2>4. rec'[i].start + thread'[i][c].total <= limit'[i] + Margin(thread'[i][c].pc)
    BY <1>1, <1>2, <1>5, <1>6, <2>2, <2>3
  <2> QED BY <1>1, <2>1, <2>4 DEF ThreadKept
<1>9. ~Is(i, "none")' /\ NoChunks(i)'
  BY <1>1, <1>2, <1>3, <1>4 DEF Is, NoChunks
<1> QED BY <1>7, <1>8, <1>9 DEF StopKept

LEMMA OrbKeepsStop ==
  ASSUME ControlInv, CallsSound, LengthSound, NEW j \in Ids, StopKept(j),
         Quiet \/ OrbStep
  PROVE  StopKept(j)'
<1>a. ControlTypeOK /\ OrbInHand /\ Managed(j)
  BY DEF ControlInv, InHand
<1> SUFFICES ASSUME ~Same(j) PROVE StopKept(j)'
  BY SameKeeps
<1> USE DEF ControlTypeOK
<1>1. CASE Unchunk \/ Measure
  <2>1. j = orb.id
    BY <1>1, <1>a, OrbApart
  <2>2. limit[j] = 0 /\ UNCHANGED limit
    BY <1>1, <2>1 DEF CallsSound, Unchunk, Measure, At
  <2> QED BY <2>2 DEF StopKept
<1>2. CASE SetTarget
  <2>1. j = orb.id
    BY <1>2, <1>a, OrbApart
  <2> QED BY <1>2, <1>a, <2>1, SetTargetStops
<1>3. CASE NewRecorder
  <2>1. j = index
    BY <1>3, <1>a, OrbApart
  <2>2. limit[j] = 0 /\ UNCHANGED limit
    BY <1>3, <1>a, <2>1 DEF CallsSound, NewRecorder, Ids
  <2> QED BY <2>2 DEF StopKept
<1>4. CASE Spawn \/ Discard
  <2>1. j = orb.id
    BY <1>4, <1>a, OrbApart
  <2>2. Is(j, "none")
    BY <1>4, <1>a, <2>1 DEF OrbInHand, Spawn, Discard, At, StartCalls
  <2>3. ~(limit[j] > 0 /\ j \notin late)
    BY <2>2 DEF StopKept
  <2>4. UNCHANGED <<limit, late>>
    BY <1>4 DEF Spawn, Discard, historyVars
  <2> QED BY <2>3, <2>4 DEF StopKept
<1>5. CASE Quiet
  BY <1>5, QuietSteps
<1> QED BY <1>1, <1>2, <1>3, <1>4, <1>5 DEF OrbStep, StopSteps, StartSteps, Quiet

LEMMA OrbKeepsChunk ==
  ASSUME ControlInv, AllSpawn, NEW j \in Ids, ChunkKept(j), Quiet \/ OrbStep
  PROVE  ChunkKept(j)'
<1>a. ControlTypeOK /\ OrbInHand /\ Managed(j)
  BY DEF ControlInv, InHand
<1>b. /\ rec \in [Ids -> RecType] /\ manage \in [Ids -> ManageType]
      /\ thread \in [Ids -> [Channels -> ThreadType]] /\ rec[j] \in RecType
      /\ manage[j] \in ManageType
  BY <1>a DEF ControlTypeOK
<1> SUFFICES ASSUME ~Same(j) PROVE ChunkKept(j)'
  BY SameKeeps
<1>1. CASE Unchunk
  <2>1. j = orb.id
    BY <1>1, <1>a, OrbApart
  <2>2. /\ rec'[j].ok = rec[j].ok /\ rec'[j].target = rec[j].target
        /\ rec'[j].start = rec[j].start /\ UNCHANGED <<manage, thread, gap>>
        /\ j \in late => j \in late'
    BY <1>1, <1>b, <2>1 DEF Unchunk, RecType
  <2> QED BY <2>2 DEF ChunkKept, Is
<1>2. CASE Measure
  <2>1. UNCHANGED <<rec, manage, thread, late, gap>>
    BY <1>2 DEF Measure, recVars
  <2> QED BY <2>1 DEF ChunkKept, Is
<1>3. CASE SetTarget
  <2>1. j = orb.id
    BY <1>3, <1>a, OrbApart
  <2>2. /\ rec'[j].ok = rec[j].ok /\ rec'[j].start = rec[j].start
        /\ UNCHANGED <<manage, thread, gap>>
        /\ j \in late => j \in late'
        /\ j \notin late' => \A c \in Channels : Running(j, c)
    BY <1>3, <1>b, <2>1 DEF SetTarget, RecType
  <2>3. Channels # {}
    BY ControlAssumption
  <2>4. j \notin late' => Is(j, "join") /\ \A c \in Channels : thread[j][c].pc # "done"
    BY <1>a, <2>2, <2>3 DEF Managed, Active, Running
  <2> QED BY <2>2, <2>4 DEF ChunkKept, Is
<1>4. CASE NewRecorder
  <2>1. j = index
    BY <1>4, <1>a, OrbApart
  <2>2. Is(j, "none")
    BY <1>a, <2>1 DEF Managed, ControlTypeOK, Ids
  <2>3. UNCHANGED <<manage, gap>>
    BY <1>4 DEF NewRecorder
  <2> QED BY <2>2, <2>3 DEF ChunkKept, Is
<1>5. CASE Discard
  <2>1. j = orb.id
    BY <1>5, <1>a, OrbApart
  <2>2. Is(j, "none")
    BY <1>5, <1>a, <2>1 DEF OrbInHand, Discard, At, StartCalls
  <2>3. UNCHANGED <<manage, gap>>
    BY <1>5 DEF Discard, historyVars
  <2> QED BY <2>2, <2>3 DEF ChunkKept, Is
<1>6. CASE Spawn
  <2>1. j = orb.id
    BY <1>6, <1>a, OrbApart
  <2>2. Is(j, "none")
    BY <1>6, <1>a, <2>1 DEF OrbInHand, Spawn, At, StartCalls
  <2>3. Spawned(j, Channels) /\ manage' = [manage EXCEPT ![j].pc = "join"]
    BY <1>6, <2>1 DEF Spawn, Startable, AllSpawn
  <2>4. manage'[j].pc = "join" /\ \A c \in Channels : thread'[j][c].pc = "run"
    BY <1>b, <2>3 DEF Spawned, ManageType
  <2>5. UNCHANGED gap
    BY <1>6 DEF Spawn, historyVars
  <2> QED BY <2>2, <2>4, <2>5 DEF ChunkKept, Is
<1>7. CASE Quiet
  BY <1>7, QuietSteps
<1> QED BY <1>1, <1>2, <1>3, <1>4, <1>5, <1>6, <1>7
        DEF OrbStep, StopSteps, StartSteps, Quiet

\* A recorder in the hands of Stop() makes no more chunks, whatever its
\* threads do.
LEMMA StaysWithoutChunks ==
  ASSUME ControlInv, NEW i \in Ids,
         ManageStep(i) \/ \E c \in Channels : ThreadStep(i, c),
         InTime(i)', InTime(i) => NoChunks(i)
  PROVE  /\ InTime(i) /\ NoChunks(i) /\ NoChunks(i)'
         /\ rec'[i].start = rec[i].start /\ asked'[i] = asked[i]
<1>a. ControlTypeOK /\ Managed(i)
  BY DEF ControlInv, InHand
<1>1. CASE ManageStep(i)
  <2>1. ~Delete(i)
    <3>1. CASE Delete(i)
      <4>1. rec'[i] = Deleted
        BY <1>a, <3>1 DEF Delete, ControlTypeOK
      <4> QED BY <4>1 DEF InTime, Alive, Deleted, NoRec
    <3> QED BY <3>1
  <2>2. ~Is(i, "none")
    BY <1>1 DEF ManageStep, Join, Decide, Out, Extend, Locate, Setup, Respawn,
       Compare, ClearCurrent, Another, ClearStatus, StartCopying, Delete, Is
  <2>3. InTime(i)
    BY <1>1, <1>a, <2>1, <2>2, StepsApart DEF Managed, InTime, Alive
  <2> QED BY <1>1, <1>a, <2>1, <2>3, ManageGoesOn
<1>2. ASSUME NEW c \in Channels, ThreadStep(i, c)
      PROVE  /\ InTime(i) /\ NoChunks(i) /\ NoChunks(i)'
             /\ rec'[i].start = rec[i].start /\ asked'[i] = asked[i]
  <2>1. /\ UNCHANGED <<manage, asked, late>>
        /\ rec'[i].chunking = rec[i].chunking
        /\ rec'[i].start = rec[i].start /\ rec'[i].life = rec[i].life
    BY <1>a, <1>2, ThreadDoes
  <2> QED BY <2>1 DEF InTime, Alive, NoChunks
<1> QED BY <1>1, <1>2

LEMMA CallsThread ==
  ASSUME ControlInv, CallsSound, NEW i \in Ids,
         ManageStep(i) \/ \E c \in Channels : ThreadStep(i, c)
  PROVE  CallsSound'
<1>a. ControlTypeOK /\ OrbInHand /\ Managed(i)
  BY DEF ControlInv, InHand
<1>1. /\ \A j \in Ids \ {i} : Same(j)
      /\ UNCHANGED <<index, orb, begun>> /\ current' \in {current, None}
  BY <1>a, StepsApart
<1>2. \A j \in Ids : limit'[j] \in {limit[j], 0}
  <2>1. CASE Delete(i)
    BY <1>a, <2>1 DEF Delete, ControlTypeOK
  <2>2. CASE ~Delete(i)
    BY <1>a, <2>2, StepsApart
  <2> QED BY <2>1, <2>2
<1>3. current' < index' /\ orb'.id < index'
  <2>1. index \in Nat /\ None < index
    BY <1>a, ControlAssumption DEF ControlTypeOK, None
  <2> QED BY <1>1, <2>1 DEF CallsSound
<1>4. \A j \in Ids : j >= index' => limit'[j] = 0
  BY <1>1, <1>2 DEF CallsSound
<1>5. current' # None => limit'[current'] = 0 \/ (At("forget") /\ orb.id = current)'
  BY <1>a, <1>1, <1>2 DEF CallsSound, At, ControlTypeOK
<1>6. orb'.pc \in {"unchunk", "measure", "settarget"} => limit'[orb'.id] = 0
  BY <1>a, <1>1, <1>2 DEF CallsSound, OrbInHand, StopCalls
<1>7. orb'.pc \in {"measure", "settarget"} /\ InTime(orb.id)' => NoChunks(orb.id)'
  <2> SUFFICES ASSUME NEW j \in Ids, j = orb.id, orb.pc \in {"measure", "settarget"},
                      InTime(j)'
               PROVE  NoChunks(j)'
    BY <1>a, <1>1 DEF OrbInHand, StopCalls, InTime, Alive, NoChunks
  <2>1. InTime(j) => NoChunks(j)
    BY DEF CallsSound
  <2>2. CASE j = i
    BY <2>1, <2>2, StaysWithoutChunks
  <2>3. CASE j # i
    BY <1>1, <2>1, <2>3, SameKeeps
  <2> QED BY <2>2, <2>3
<1> QED BY <1>3, <1>4, <1>5, <1>6, <1>7 DEF CallsSound

LEMMA LengthThread ==
  ASSUME ControlInv, CallsSound, StopsInChunk, LengthSound, NEW i \in Ids,
         ManageStep(i) \/ \E c \in Channels : ThreadStep(i, c)
  PROVE  LengthSound'
<1>a. ControlTypeOK /\ OrbInHand /\ Managed(i)
  BY DEF ControlInv, InHand
<1>1. /\ \A j \in Ids \ {i} : Same(j)
      /\ UNCHANGED <<index, orb, begun>> /\ current' \in {current, None}
  BY <1>a, StepsApart
<1>2. ASSUME NEW j \in Ids, NoChunks(j)
      PROVE  /\ NoChunks(j)'
             /\ Alive(j)' => Alive(j) /\ rec'[j].start = rec[j].start
  <2>1. CASE j # i
    BY <1>1, <1>2, <2>1, SameKeeps DEF Same
  <2>2. CASE j = i /\ Delete(i)
    <3>1. rec'[i] = Deleted /\ manage'[i] = Waiting
      BY <1>a, <2>2 DEF Delete, ControlTypeOK
    <3> QED BY <2>2, <3>1 DEF NoChunks, Alive, Deleted, NoRec, Waiting, Restarting
  <2>3. CASE j = i /\ ManageStep(i) /\ ~Delete(i)
    BY <1>a, <1>2, <2>3, ManageGoesOn DEF Alive
  <2>4. ASSUME j = i, NEW c \in Channels, ThreadStep(i, c)
        PROVE  /\ NoChunks(j)'
               /\ Alive(j)' => Alive(j) /\ rec'[j].start = rec[j].start
    BY <1>a, <1>2, <2>4, ThreadDoes DEF NoChunks, Alive
  <2> QED BY <2>1, <2>2, <2>3, <2>4
<1>3. At("settarget")' /\ InTime(orb.id)' =>
        orb'.length = LET len == asked'[orb'.id] - rec'[orb'.id].start
                      IN  IF len <= 0 THEN 1 ELSE len
  <2> SUFFICES ASSUME NEW j \in Ids, j = orb.id, At("settarget"), InTime(j)'
               PROVE  orb.length = LET len == asked'[j] - rec'[j].start
                                   IN  IF len <= 0 THEN 1 ELSE len
    BY <1>a, <1>1 DEF OrbInHand, StopCalls, At, InTime, Alive
  <2>1. InTime(j) => NoChunks(j)
    BY DEF CallsSound, At
  <2>2. InTime(j) /\ rec'[j].start = rec[j].start /\ asked'[j] = asked[j]
    <3>1. CASE j = i
      BY <2>1, <3>1, StaysWithoutChunks
    <3>2. CASE j # i
      BY <1>1, <3>2, SameKeeps DEF Same
    <3> QED BY <3>1, <3>2
  <2> QED BY <2>2 DEF LengthSound
<1>4. orb'.pc \in {"unchunk", "measure"} /\ Alive(orb.id)' =>
        orb'.tc = Undefined \/ orb'.tc >= rec'[orb'.id].start
  <2> SUFFICES ASSUME NEW j \in Ids, j = orb.id, orb.pc \in {"unchunk", "measure"},
                      Alive(j)', orb.tc # Undefined
               PROVE  orb.tc >= rec'[j].start
    BY <1>a, <1>1 DEF OrbInHand, StopCalls, Alive
  <2>1. NoChunks(j)
    BY DEF LengthSound, StopsInChunk
  <2>2. Alive(j) /\ rec'[j].start = rec[j].start
    BY <1>2, <2>1
  <2> QED BY <2>2 DEF LengthSound
<1>5. Chunk = 0 =>
        /\ \A j \in Ids : NoChunks(j)'
        /\ current' # None /\ Alive(current)' => begun' = rec'[current'].start
  <2> SUFFICES ASSUME Chunk = 0
               PROVE  /\ \A j \in Ids : NoChunks(j)'
                      /\ current' # None /\ Alive(current)'
                           => begun' = rec'[current'].start
    OBVIOUS
  <2>1. \A j \in Ids : NoChunks(j)
    BY DEF LengthSound
  <2>2. ASSUME NEW j \in Ids, j = current', Alive(j)' PROVE begun' = rec'[j].start
    <3>1. j = current /\ current # None
      BY <1>1, <2>2 DEF None, Ids
    <3>2. Alive(j) /\ rec'[j].start = rec[j].start
      BY <1>2, <2>1, <2>2
    <3> QED BY <1>1, <3>1, <3>2 DEF LengthSound
  <2>3. current' # None => current' \in Ids
    BY <1>a, <1>1 DEF ControlTypeOK
  <2> QED BY <1>2, <2>1, <2>2, <2>3 DEF Alive
<1> QED BY <1>1, <1>3, <1>4, <1>5 DEF LengthSound

\* The steps of Start() after the new recorder is made.
Starting == \/ ClearSrcDest \/ AddSrcDest \/ StopCopying \/ Spawn \/ SetStatus
            \/ Discard \/ Release

LEMMA StartingDoes ==
  ASSUME ControlTypeOK, Starting
  PROVE  /\ UNCHANGED <<index, begun, limit, asked, late>>
         /\ current' \in {current, None}
         /\ orb'.pc \in {"idle", "add", "stopcopying", "spawn", "discard",
                         "status", "release"}
         /\ orb'.id \in {orb.id, None} /\ orb'.tc \in {orb.tc, Undefined}
         /\ \A j \in Ids : NoChunks(j) => NoChunks(j)'
         /\ \A j \in Ids : Alive(j)' => rec'[j] = rec[j]
<1> USE DEF implVars, recVars, copyVars, historyVars
<1>a. /\ orb \in OrbType /\ rec \in [Ids -> RecType]
      /\ manage \in [Ids -> ManageType]
  BY DEF ControlTypeOK
<1>1. CASE ClearSrcDest \/ AddSrcDest \/ StopCopying
  BY <1>1, <1>a DEF ClearSrcDest, AddSrcDest, StopCopying, OrbType, NoChunks
<1>2. CASE SetStatus \/ Release
  BY <1>2, <1>a DEF SetStatus, Release, IdleOrb, NoChunks
<1>3. CASE Spawn
  <2>1. /\ UNCHANGED <<index, begun, limit, asked, late, current, rec>>
        /\ \/ orb' = [orb EXCEPT !.pc = "status"]
           \/ orb' = [orb EXCEPT !.pc = "discard"]
        /\ \A j \in Ids : manage'[j].pc \in {manage[j].pc, "join"}
    BY <1>3, <1>a DEF Spawn, ManageType
  <2> QED BY <2>1, <1>a DEF OrbType, NoChunks, Restarting
<1>4. CASE Discard
  <2>1. /\ UNCHANGED <<index, begun, limit, asked, late, manage>> /\ current' = None
        /\ orb' = [orb EXCEPT !.pc = "release"]
        /\ rec' = [rec EXCEPT ![orb.id] = Deleted]
    BY <1>4 DEF Discard
  <2>2. \A j \in Ids : rec'[j] = rec[j] \/ rec'[j] = Deleted
    BY <2>1, <1>a
  <2>3. Deleted.life # "alive" /\ ~Deleted.chunking
    BY DEF Deleted, NoRec
  <2> QED BY <2>1, <2>2, <2>3, <1>a DEF OrbType, NoChunks, Alive
<1> QED BY <1>1, <1>2, <1>3, <1>4 DEF Starting

LEMMA CallsOrb ==
  ASSUME ControlInv, CallsSound, Quiet \/ OrbStep
  PROVE  CallsSound'
<1> USE DEF implVars, recVars, copyVars, historyVars
<1>a. /\ ControlTypeOK /\ OrbInHand
      /\ orb \in OrbType /\ rec \in [Ids -> RecType]
      /\ manage \in [Ids -> ManageType] /\ limit \in [Ids -> Int]
      /\ index \in Nat /\ index >= 1 /\ current \in Ids \cup {None}
      /\ \A j \in Ids : j \in Nat /\ j # None
  <2>1. ControlTypeOK /\ OrbInHand
    BY DEF ControlInv, InHand
  <2> QED BY <2>1, ControlAssumption DEF ControlTypeOK, Ids, None
<1>1. CASE Tick \/ CaptureDies \/ UNCHANGED controlVars
  <2>1. UNCHANGED <<index, current, orb, limit, rec, manage, late>>
    BY <1>1 DEF Tick, CaptureDies, controlVars
  <2> QED BY <2>1 DEF CallsSound, At, InTime, Alive, NoChunks
<1>2. CASE StopRequest \/ StartRequest
  <2>1. /\ UNCHANGED <<index, current, limit>> /\ At("idle")
        /\ \/ orb'.id = current /\ orb'.pc = "unchunk" /\ current # None
           \/ orb'.id = None /\ orb'.pc = "new"
           \/ orb' = orb
    BY <1>2 DEF StopRequest, StartRequest, IdleOrb
  <2> QED BY <2>1, <1>a DEF CallsSound, At, None
<1>3. CASE Unchunk
  <2>1. /\ UNCHANGED <<index, current, limit, manage>>
        /\ orb'.pc = "measure" /\ orb'.id = orb.id /\ orb.id \in Ids
        /\ orb.pc = "unchunk"
        /\ rec' = [rec EXCEPT ![orb.id].chunking = FALSE]
        /\ manage[orb.id].pc \in Restarting => orb.id \in late'
    BY <1>3, <1>a DEF Unchunk, OrbType, OrbInHand, At, StopCalls
  <2>2. orb.id \notin late' => NoChunks(orb.id)'
    BY <2>1, <1>a DEF NoChunks, RecType
  <2> QED BY <2>1, <2>2 DEF CallsSound, At, InTime
<1>4. CASE Measure
  <2>1. /\ UNCHANGED <<index, current, limit, rec, manage, late>>
        /\ orb'.pc = "settarget" /\ orb'.id = orb.id /\ orb.pc = "measure"
    BY <1>4, <1>a DEF Measure, OrbType, At
  <2> QED BY <2>1 DEF CallsSound, At, InTime, Alive, NoChunks
<1>5. CASE SetTarget
  <2>1. /\ UNCHANGED <<index, current>> /\ orb.id \in Ids
        /\ orb'.pc = "forget" /\ orb'.id = orb.id
        /\ \A j \in Ids \ {orb.id} : limit'[j] = limit[j]
    BY <1>5, <1>a DEF SetTarget, OrbType, OrbInHand, At, StopCalls
  <2>2. orb.pc # "forget"
    BY <1>5 DEF SetTarget, At
  <2> QED BY <2>1, <2>2, <1>a DEF CallsSound, At
<1>6. CASE Forget
  <2>1. /\ UNCHANGED <<index, limit>> /\ current' = None
        /\ orb'.pc \in {"idle", "new"} /\ orb'.id = None
    BY <1>6 DEF Forget, IdleOrb
  <2> QED BY <2>1, <1>a DEF CallsSound, At, None
<1>7. CASE NewRecorder
  <2>1. /\ index' = index + 1 /\ current' = index /\ UNCHANGED limit
        /\ orb'.pc = "clear" /\ orb'.id = index
    BY <1>7 DEF NewRecorder, IdleOrb
  <2>2. index \in Ids
    BY <1>7, <1>a DEF NewRecorder, OrbInHand, ControlTypeOK, Ids
  <2> QED BY <2>1, <2>2, <1>a DEF CallsSound, At
<1>8. CASE Starting
  <2>1. None < index
    BY <1>a DEF None
  <2>2. orb.pc # "forget"
    BY <1>8 DEF Starting, ClearSrcDest, AddSrcDest, StopCopying, Spawn, SetStatus,
                Discard, Release, At
  <2> QED BY <1>8, <1>a, <2>1, <2>2, StartingDoes DEF CallsSound, At
<1> QED BY <1>1, <1>2, <1>3, <1>4, <1>5, <1>6, <1>7, <1>8
        DEF Quiet, OrbStep, StopSteps, StartSteps, Starting

LEMMA LengthOrb ==
  ASSUME ControlInv, CallsSound, StopsInChunk, LengthSound, Quiet \/ OrbStep
  PROVE  LengthSound'
<1> USE DEF implVars, recVars, copyVars, historyVars
<1>a. /\ ControlTypeOK /\ OrbInHand
      /\ orb \in OrbType /\ rec \in [Ids -> RecType]
      /\ manage \in [Ids -> ManageType] /\ asked \in [Ids -> Int]
      /\ current \in Ids \cup {None} /\ \A j \in Ids : j # None
  <2>1. ControlTypeOK /\ OrbInHand
    BY DEF ControlInv, InHand
  <2> QED BY <2>1, ControlAssumption DEF ControlTypeOK, Ids, None
<1>1. CASE Tick \/ CaptureDies \/ UNCHANGED controlVars
  <2>1. UNCHANGED <<current, orb, begun, asked, rec, manage, late>>
    BY <1>1 DEF Tick, CaptureDies, controlVars
  <2> QED BY <2>1 DEF LengthSound, At, InTime, Alive, NoChunks
<1>2. CASE StopRequest \/ StartRequest
  <2>1. /\ UNCHANGED <<current, begun, rec, manage>>
        /\ orb'.pc # "measure" /\ orb'.pc # "settarget"
    BY <1>2 DEF StopRequest, StartRequest, IdleOrb, At
  <2>2. /\ orb'.pc = "unchunk" => /\ orb'.id = current /\ current # None
                                  /\ orb'.tc = Undefined \/ orb'.tc >= begun
        /\ StopBack = 0 => orb'.tc = Undefined
    <3>1. CASE StartRequest
      BY <3>1 DEF StartRequest, IdleOrb
    <3>2. CASE StopRequest /\ current # None
      <4>1. PICK p \in PostRolls,
                 t \in {Undefined} \cup (now - StopBack + 1 .. now) :
               /\ t = Undefined \/ t >= begun
               /\ orb' = [IdleOrb EXCEPT !.pc = "unchunk", !.id = current,
                                         !.tc = t, !.post = p]
        BY <3>2 DEF StopRequest
      <4>2. orb'.tc = t /\ orb'.id = current
        BY <4>1 DEF IdleOrb
      <4>3. t # Undefined => StopBack # 0
        BY <4>1, <1>a, ControlAssumption DEF ControlTypeOK
      <4> QED BY <3>2, <4>1, <4>2, <4>3
    <3>3. CASE StopRequest /\ current = None
      <4>1. orb' = orb /\ orb.pc = "idle"
        BY <3>3 DEF StopRequest, At
      <4> QED BY <4>1 DEF LengthSound
    <3> QED BY <1>2, <3>1, <3>2, <3>3
  <2> QED BY <2>1, <2>2, <1>a DEF LengthSound, StopsInChunk, At, Alive, NoChunks
<1>3. CASE Unchunk
  <2>1. /\ UNCHANGED <<current, begun, manage, asked>> /\ orb.pc = "unchunk"
        /\ orb'.pc = "measure" /\ orb'.id = orb.id /\ orb'.tc = orb.tc
        /\ orb.id \in Ids
        /\ rec' = [rec EXCEPT ![orb.id].chunking = FALSE]
    BY <1>3, <1>a DEF Unchunk, OrbType, OrbInHand, At, StopCalls
  <2>2. /\ \A j \in Ids : /\ rec'[j].life = rec[j].life
                          /\ rec'[j].start = rec[j].start
                          /\ ~rec[j].chunking => ~rec'[j].chunking
    BY <2>1, <1>a DEF RecType
  <2> QED BY <2>1, <2>2, <1>a DEF LengthSound, At, Alive, NoChunks
<1>4. CASE Measure
  <2>1. /\ UNCHANGED <<current, begun, rec, manage, late>> /\ orb.pc = "measure"
        /\ orb'.pc = "settarget" /\ orb'.id = orb.id /\ orb'.tc = Undefined
        /\ orb'.length = IF StopLength <= 0 THEN 1 ELSE StopLength
        /\ orb.id \in Ids
    BY <1>4, <1>a DEF Measure, OrbType, OrbInHand, At, StopCalls
  <2>2. asked'[orb.id] = IF orb.tc = Undefined THEN rec[orb.id].start + StopLength
                         ELSE orb.tc + orb.post
    BY <1>4, <2>1, <1>a DEF Measure
  <2>3. /\ rec[orb.id].start \in Nat /\ Recorded(orb.id) \in Nat
        /\ orb.tc \in Int /\ orb.post \in Nat
    BY <2>1, <1>a, RecorderTypes, CountsOf DEF OrbType
  <2>4. ASSUME Alive(orb.id) PROVE asked'[orb.id] - rec[orb.id].start = StopLength
    <3>1. CASE orb.tc = Undefined
      <4>1. StopLength \in Int
        BY <2>3, <3>1 DEF StopLength
      <4> QED BY <2>2, <2>3, <3>1, <4>1
    <3>2. CASE orb.tc # Undefined
      <4>1. orb.tc >= rec[orb.id].start
        BY <2>1, <2>4, <3>2 DEF LengthSound
      <4>2. orb.tc - rec[orb.id].start + orb.post >= 0
        BY <2>3, <4>1
      <4> QED BY <2>2, <2>3, <3>2, <4>1, <4>2 DEF StopLength
    <3> QED BY <3>1, <3>2
  <2> HIDE DEF StopLength
  <2> QED BY <2>1, <2>4 DEF LengthSound, At, InTime, Alive, NoChunks
<1>5. CASE SetTarget
  <2>1. /\ UNCHANGED <<current, begun, manage>> /\ orb'.pc = "forget"
        /\ orb'.tc = orb.tc /\ orb.id \in Ids
        /\ rec' = [rec EXCEPT ![orb.id].target = orb.length]
    BY <1>5, <1>a DEF SetTarget, OrbType, OrbInHand, At, StopCalls
  <2>2. /\ \A j \in Ids : /\ rec'[j].life = rec[j].life
                          /\ rec'[j].start = rec[j].start
                          /\ rec'[j].chunking = rec[j].chunking
    BY <2>1, <1>a DEF RecType
  <2> QED BY <2>1, <2>2, <1>a DEF LengthSound, At, Alive, NoChunks
<1>6. CASE Forget
  <2>1. /\ UNCHANGED <<rec, manage>> /\ current' = None
        /\ orb'.pc \in {"idle", "new"} /\ orb'.tc = Undefined
    BY <1>6 DEF Forget, IdleOrb
  <2> QED BY <2>1 DEF LengthSound, At, NoChunks
<1>7. CASE NewRecorder
  <2>1. PICK d \in StartAt :
          /\ rec' = [rec EXCEPT ![index] =
                       [life |-> "alive", chunking |-> Chunk > 0,
                        start |-> now + d, ok |-> TRUE,
                        target |-> IF Chunk > 0 THEN ChunkDuration(now + d)
                                   ELSE 0]]
          /\ begun' = now + d
    BY <1>7 DEF NewRecorder
  <2>2. /\ current' = index /\ UNCHANGED manage
        /\ orb'.pc = "clear" /\ orb'.tc = Undefined
    BY <1>7 DEF NewRecorder, IdleOrb
  <2>3. index \in Ids
    BY <1>7, <1>a, ControlAssumption DEF NewRecorder, OrbInHand, ControlTypeOK, Ids
  <2>4. /\ rec'[index].start = begun' /\ rec'[index].chunking = (Chunk > 0)
        /\ \A j \in Ids \ {index} : rec'[j] = rec[j]
    BY <2>1, <2>3, <1>a
  <2>5. ~(Chunk > 0) <=> Chunk = 0
    BY ControlAssumption
  <2> QED BY <2>2, <2>3, <2>4, <2>5 DEF LengthSound, At, NoChunks
<1>8. CASE Starting
  <2>1. /\ UNCHANGED begun /\ current' \in {current, None}
        /\ orb'.pc \notin {"settarget", "unchunk", "measure"}
        /\ orb'.tc \in {orb.tc, Undefined}
        /\ \A j \in Ids : NoChunks(j) => NoChunks(j)'
        /\ \A j \in Ids : Alive(j)' => rec'[j] = rec[j]
    BY <1>8, <1>a, StartingDoes
  <2> QED BY <2>1, <1>a DEF LengthSound, At, Alive
<1> QED BY <1>1, <1>2, <1>3, <1>4, <1>5, <1>6, <1>7, <1>8
        DEF Quiet, OrbStep, StopSteps, StartSteps, Starting


LEMMA TargetInit == ControlInit => TargetInv
<1> SUFFICES ASSUME ControlInit PROVE TargetInv
  OBVIOUS
<1>1. ControlInv
  BY ControlInit_Inv
<1>2. /\ index = 1 /\ current = None /\ orb = IdleOrb
      /\ limit = [i \in Ids |-> 0] /\ gap = {}
      /\ rec = [i \in Ids |-> NoRec] /\ manage = [i \in Ids |-> Waiting]
  BY DEF ControlInit
<1>3. CallsSound
  BY <1>2 DEF CallsSound, IdleOrb, None
<1>4. LengthSound
  BY <1>2 DEF LengthSound, IdleOrb, At, NoChunks, NoRec, Waiting, Restarting
<1>5. \A i \in Ids : StopKept(i) /\ ChunkKept(i)
  BY <1>2 DEF StopKept, ChunkKept, Is, Waiting
<1> QED BY <1>1, <1>3, <1>4, <1>5 DEF TargetInv

LEMMA TargetInductive == TargetInv /\ [ControlNext]_controlVars => TargetInv'
<1> SUFFICES ASSUME TargetInv, [ControlNext]_controlVars PROVE TargetInv'
  OBVIOUS
<1>1. ControlInv' /\ ControlInv /\ ControlTypeOK /\ CallsSound
      /\ \A j \in Ids : Managed(j)
  BY ControlInductive DEF TargetInv, ControlInv, InHand
<1>2. CASE Quiet \/ OrbStep
  <2>1. CallsSound'
    BY <1>1, <1>2, CallsOrb
  <2>2. ASSUME StopsInChunk PROVE LengthSound' /\ \A j \in Ids : StopKept(j)'
    BY <1>1, <1>2, <2>2, LengthOrb, OrbKeepsStop DEF TargetInv
  <2>3. ASSUME AllSpawn PROVE \A j \in Ids : ChunkKept(j)'
    BY <1>1, <1>2, <2>3, OrbKeepsChunk DEF TargetInv
  <2> QED BY <1>1, <2>1, <2>2, <2>3 DEF TargetInv, StopsInChunk, AllSpawn
<1>3. ASSUME NEW i \in Ids, ManageStep(i) \/ \E c \in Channels : ThreadStep(i, c)
      PROVE  TargetInv'
  <2>1. CallsSound'
    BY <1>1, <1>3, CallsThread
  <2>2. \A j \in Ids \ {i} : Same(j)
    BY <1>1, <1>3, StepsApart
  <2>3. ASSUME StopsInChunk PROVE LengthSound' /\ \A j \in Ids : StopKept(j)'
    <3>1. LengthSound /\ \A j \in Ids : StopKept(j)
      BY <2>3 DEF TargetInv
    <3>2. LengthSound'
      BY <1>1, <1>3, <2>3, <3>1, LengthThread
    <3>3. StopKept(i)'
      BY <1>1, <1>3, <3>1, StopManage, StopThread
    <3> QED BY <2>2, <3>1, <3>2, <3>3, SameKeeps
  <2>4. ASSUME AllSpawn PROVE \A j \in Ids : ChunkKept(j)'
    <3>1. \A j \in Ids : ChunkKept(j)
      BY <2>4 DEF TargetInv
    <3>2. ChunkKept(i)'
      BY <1>1, <1>3, <2>4, <3>1, ChunkManage, ChunkThread
    <3> QED BY <2>2, <3>1, <3>2, SameKeeps
  <2> QED BY <1>1, <2>1, <2>3, <2>4 DEF TargetInv, StopsInChunk, AllSpawn
<1> QED BY <1>2, <1>3 DEF ControlNext, Quiet

LEMMA TargetInvariant == ControlSpec => []TargetInv
<1>1. ControlInit => TargetInv
  BY TargetInit
<1>2. TargetInv /\ [ControlNext]_controlVars => TargetInv'
  BY TargetInductive
<1> QED BY <1>1, <1>2, PTL DEF ControlSpec

(***************************************************************************)
(* What a client asked for is recorded, by every channel, to within a      *)
(* write and the frames dropped before it.  The hypothesis: clients name   *)
(* no stop timecode that may be before the start of the chunk, which       *)
(* Stop() would take for one after midnight.                               *)
(***************************************************************************)
THEOREM StopIsHonoured ==
  ASSUME StopBack = 0 \/ Chunk = 0
  PROVE  ControlSpec => []StopHonoured
<1>1. TargetInv => StopHonoured
  <2> SUFFICES ASSUME TargetInv, NEW i \in Ids, limit[i] > 0, i \notin late
               PROVE  /\ rec[i].start + Recorded(i) <= limit[i] + 1 + MaxDrop
                      /\ Is(i, "compare") /\ rec[i].ok =>
                           rec[i].start + Shortest(i) >= asked[i]
    BY DEF StopHonoured, Is
  <2>1. ControlTypeOK /\ Managed(i) /\ StopKept(i)
    BY DEF TargetInv, ControlInv, InHand, StopsInChunk
  <2>2. /\ rec[i].start \in Nat /\ rec[i].target \in Nat /\ asked[i] \in Int
        /\ limit[i] \in Int /\ MaxDrop \in Nat
    BY <2>1, RecorderTypes
  <2>3. rec[i].start + Recorded(i) <= limit[i] + 1 + MaxDrop
    <3>1. PICK c \in Channels : thread[i][c].total = Recorded(i)
      BY <2>1, CountsOf
    <3>2. rec[i].start + thread[i][c].total <= limit[i] + Margin(thread[i][c].pc)
      BY <2>1 DEF StopKept, ThreadKept
    <3>3. Recorded(i) \in Nat
      BY <2>1, CountsOf
    <3> QED BY <2>2, <3>1, <3>2, <3>3 DEF Margin
  <2>4. ASSUME Is(i, "compare"), rec[i].ok
        PROVE  rec[i].start + Shortest(i) >= asked[i]
    <3>1. PICK c \in Channels : thread[i][c].total = Shortest(i)
      BY <2>1, CountsOf
    <3>2. thread[i][c] \in ThreadType /\ thread[i][c].total \in Nat
      BY <2>1, RecorderTypes
    <3>3. thread[i][c].pc = "done"
      BY <2>1, <2>4, <3>2 DEF StopKept, ThreadKept, Managed, Active, Running, Is,
                              ThreadType
    <3>4. thread[i][c].total >= rec[i].target
      BY <2>1, <2>4, <3>3 DEF StopKept, ThreadKept
    <3>5. rec[i].start + rec[i].target >= asked[i]
      BY <2>1 DEF StopKept
    <3> QED BY <2>2, <3>1, <3>2, <3>4, <3>5
  <2> QED BY <2>3, <2>4
<1> QED BY <1>1, TargetInvariant, PTL

(***************************************************************************)
(* A recording made of chunks leaves no frame out between two of them, if  *)
(* every record thread can be spawned: one that could not has nothing of   *)
(* its chunk.                                                              *)
(***************************************************************************)
THEOREM ChunksMeet ==
  ASSUME SpawnMayFail = FALSE
  PROVE  ControlSpec => []ChunksAbut
<1>1. TargetInv => ChunksAbut
  BY DEF TargetInv, ControlInv, ControlTypeOK, AllSpawn, ChunkKept, ChunksAbut
<1> QED BY <1>1, TargetInvariant, PTL

=============================================================================
