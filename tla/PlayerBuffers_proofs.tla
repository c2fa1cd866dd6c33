----------------------- MODULE PlayerBuffers_proofs -----------------------
(***************************************************************************)
(* The variables of PlayerBuffers keep their types, the buffered sink      *)
(* implements FrameQueue, and the frames it shows are labelled with their  *)
(* positions, for sources and sinks of any size, any number of requests,   *)
(* time-outs and failures.                                                 *)
(***************************************************************************)
EXTENDS PlayerBuffers, RingPlaces, TLAPS, SequenceTheorems

-----------------------------------------------------------------------------
(* Places in a ring.                                                       *)

\* ModOnce for the ring of the sink.
LEMMA SinkPlace ==
  ASSUME NEW x \in 0 .. 2 * SinkSize - 1
  PROVE  x % SinkSize = IF x < SinkSize THEN x ELSE x - SinkSize
<1>1. SinkSize \in Nat \ {0}
  BY PlayerAssumption
<1> QED BY <1>1, ModOnce

\* Every position has a slot of the source.
LEMMA SlotInRange == ASSUME NEW p \in Nat PROVE SlotOf(p) \in Slots
  BY PlayerAssumption DEF SlotOf, Slots

\* Every count has a place in the ring of the sink.
LEMMA NextInRing == ASSUME NEW p \in Nat PROVE p % SinkSize \in 0 .. SinkSize - 1
  BY PlayerAssumption

\* The place after a place, and so many further, is the place of the sum.
LEMMA NextPlace ==
  ASSUME NEW first \in 0 .. SinkSize - 1, NEW n \in 0 .. SinkSize - 1
  PROVE  (((first + 1) % SinkSize) + n) % SinkSize = (first + (n + 1)) % SinkSize
<1> DEFINE next == (first + 1) % SinkSize
<1>1. SinkSize \in Nat \ {0} /\ SinkSize >= 2
  BY PlayerAssumption
<1>2. next = IF first + 1 < SinkSize THEN first + 1 ELSE 0
  <2>1. first + 1 \in 0 .. 2 * SinkSize - 1
    BY <1>1
  <2> QED BY <1>1, <2>1, SinkPlace
<1> HIDE DEF next
<1>3. (next + n) % SinkSize = IF next + n < SinkSize THEN next + n
                              ELSE next + n - SinkSize
  <2>1. next + n \in 0 .. 2 * SinkSize - 1
    BY <1>1, <1>2
  <2> QED BY <1>1, <1>2, <2>1, SinkPlace
<1>4. (first + (n + 1)) % SinkSize =
        IF first + (n + 1) < SinkSize THEN first + (n + 1)
        ELSE first + (n + 1) - SinkSize
  <2>1. first + (n + 1) \in 0 .. 2 * SinkSize - 1
    BY <1>1
  <2> QED BY <1>1, <2>1, SinkPlace
<1> QED BY <1>1, <1>2, <1>3, <1>4 DEF next

-----------------------------------------------------------------------------
(* Types.                                                                  *)

ReaderType == [at : {"test", "choose", "full", "clear", "read", "done", "ended"},
               position : Nat, ok : BOOLEAN, eof : BOOLEAN]
WantType == [next : Nat, play : BOOLEAN, refresh : BOOLEAN]
PlayerType == [at : Places, last : Nat \cup {-1}, position : Nat, old : Nat,
               play : BOOLEAN, refresh : BOOLEAN, seeks : BOOLEAN,
               waits : 0 .. 2, orig : Nat]
RingType == [frames : [0 .. SinkSize - 1 -> Buffers \cup {None}],
             first : 0 .. SinkSize - 1, used : Nat, write : 0 .. SinkSize - 1,
             swap : Buffers \cup {None}, current : Buffers \cup {None},
             drop : BOOLEAN]
ShowerPlaces == {"test", "take", "show", "nothing", "waiting", "ended"}

\* PlayerTypeOK, but for the number of frames in the sink
TypeInv ==
  /\ frames \in [Slots -> Nat \cup {None}] /\ data \in [Slots -> Nat \cup {None}]
  /\ reader \in ReaderType
  /\ last \in Nat \cup {-1} /\ eof \in Nat \cup {None} /\ client \in Nat
  /\ waiting \in [reader : BOOLEAN, client : BOOLEAN]
  /\ want \in WantType /\ length \in Nat /\ player \in PlayerType
  /\ buffers \in [Buffers -> Frames] /\ ring \in RingType
  /\ shower \in ShowerPlaces
  /\ stopped \in [source : BOOLEAN, sink : BOOLEAN]
  /\ inputs \in Nat /\ timeouts \in Nat /\ faults \in Nat
  /\ adrift \in BOOLEAN /\ raced \in BOOLEAN
  /\ slept \in [reader : BOOLEAN, shower : BOOLEAN]

\* The player and the ring keep their types when one component is given a
\* value of its type.
LEMMA PlayerField ==
  ASSUME NEW p \in PlayerType
  PROVE  /\ \A x \in Places : [p EXCEPT !.at = x] \in PlayerType
         /\ \A x \in Nat \cup {-1} : [p EXCEPT !.last = x] \in PlayerType
         /\ \A x \in Nat : [p EXCEPT !.position = x] \in PlayerType
         /\ \A x \in Nat : [p EXCEPT !.old = x] \in PlayerType
         /\ \A x \in BOOLEAN : [p EXCEPT !.play = x] \in PlayerType
         /\ \A x \in BOOLEAN : [p EXCEPT !.refresh = x] \in PlayerType
         /\ \A x \in BOOLEAN : [p EXCEPT !.seeks = x] \in PlayerType
         /\ \A x \in 0 .. 2 : [p EXCEPT !.waits = x] \in PlayerType
         /\ \A x \in Nat : [p EXCEPT !.orig = x] \in PlayerType
  BY DEF PlayerType

LEMMA RingField ==
  ASSUME NEW r \in RingType
  PROVE  /\ \A x \in [0 .. SinkSize - 1 -> Buffers \cup {None}] :
              [r EXCEPT !.frames = x] \in RingType
         /\ \A x \in 0 .. SinkSize - 1 : [r EXCEPT !.first = x] \in RingType
         /\ \A x \in Nat : [r EXCEPT !.used = x] \in RingType
         /\ \A x \in 0 .. SinkSize - 1 : [r EXCEPT !.write = x] \in RingType
         /\ \A x \in Buffers \cup {None} : [r EXCEPT !.swap = x] \in RingType
         /\ \A x \in Buffers \cup {None} : [r EXCEPT !.current = x] \in RingType
  BY DEF RingType

\* The initial states have these types.
LEMMA TypeInit == PlayerInit => TypeInv
<1> SUFFICES ASSUME PlayerInit PROVE TypeInv
  OBVIOUS
<1> USE PlayerAssumption DEF PlayerInit, None
<1>1. reader \in ReaderType
  BY DEF Idle, ReaderType
<1>2. player \in PlayerType
  BY DEF InLoop, PlayerType, Places
<1>3. buffers \in [Buffers -> Frames]
  BY DEF Nothing, Frames, Labels, Buffers
<1>4. ring \in RingType
  BY DEF RingType, Buffers
<1> QED BY <1>1, <1>2, <1>3, <1>4 DEF TypeInv, WantType, ShowerPlaces

\* Every step keeps them.
LEMMA TypeStep == TypeInv /\ [PlayerNext]_vars => TypeInv'
<1> SUFFICES ASSUME TypeInv, [PlayerNext]_vars PROVE TypeInv'
  OBVIOUS
<1> USE PlayerAssumption DEF TypeInv, None
<1>a. TypeInv
  OBVIOUS
<1>1. CASE ReaderTests
  <2>1. reader' \in ReaderType
    BY <1>1 DEF ReaderTests, ReaderType, Idle, WakeReader
  <2> QED BY <1>1, <1>a, <2>1
      DEF ReaderTests, OutsideReader, sinkVars, sourceVars
<1>2. CASE ReaderIsFull
  <2>1. reader' \in ReaderType
    BY <1>2 DEF ReaderIsFull, ReaderType, Idle, WakeReader
  <2>2. waiting' \in [reader : BOOLEAN, client : BOOLEAN]
    BY <1>2 DEF ReaderIsFull
  <2>3. player' \in PlayerType
    BY <1>2 DEF ReaderIsFull, PlayerType, Places, Goes, Woken
  <2>4. slept' \in [reader : BOOLEAN, shower : BOOLEAN]
    BY <1>2 DEF ReaderIsFull
  <2> QED BY <1>2, <1>a, <2>1, <2>2, <2>3, <2>4
      DEF ReaderIsFull, OutsideReader, sinkVars, sourceVars
<1>3. CASE ReaderChooses
  <2>1. reader' \in ReaderType
    BY <1>3 DEF ReaderChooses, ReaderType, Idle, WakeReader
  <2>2. waiting' \in [reader : BOOLEAN, client : BOOLEAN]
    BY <1>3 DEF ReaderChooses
  <2> QED BY <1>3, <1>a, <2>1, <2>2
      DEF ReaderChooses, OutsideReader, sinkVars, sourceVars
<1>4. CASE ReaderSeekFails
  <2>1. reader' \in ReaderType
    BY <1>4 DEF ReaderSeekFails, ReaderType, Idle, WakeReader
  <2> QED BY <1>4, <1>a, <2>1
      DEF ReaderSeekFails, OutsideReader, sinkVars, sourceVars
<1>5. CASE ReaderClears
  <2>1. frames' \in [Slots -> Nat \cup {None}]
    BY <1>5 DEF ReaderClears, ReaderSlot, ReaderType
  <2>2. data' \in [Slots -> Nat \cup {None}]
    BY <1>5 DEF ReaderClears, ReaderSlot, ReaderType
  <2>3. reader' \in ReaderType
    BY <1>5 DEF ReaderClears, ReaderSlot, ReaderType, Idle, WakeReader
  <2>4. raced' \in BOOLEAN
    BY <1>5 DEF ReaderClears, ReaderSlot, ReaderType
  <2> QED BY <1>5, <1>a, <2>1, <2>2, <2>3, <2>4
      DEF ReaderClears, OutsideReader, sinkVars, sourceVars
<1>6. CASE ReaderReads
  <2>1. data' \in [Slots -> Nat \cup {None}]
    BY <1>6 DEF ReaderReads, ReaderSlot, ReaderType
  <2>2. reader' \in ReaderType
    BY <1>6 DEF ReaderReads, ReaderSlot, ReaderType, Idle, WakeReader
  <2> QED BY <1>6, <1>a, <2>1, <2>2
      DEF ReaderReads, OutsideReader, sinkVars, sourceVars
<1>7. CASE ReaderFails
  <2>1. reader' \in ReaderType
    BY <1>7 DEF ReaderFails, ReaderType, Idle, WakeReader
  <2>2. inputs' \in Nat /\ timeouts' \in Nat /\ faults' \in Nat
    BY <1>7 DEF ReaderFails, OutsideReader
  <2> QED BY <1>7, <1>a, <2>1, <2>2
      DEF ReaderFails, OutsideReader, sinkVars, sourceVars
<1>8. CASE ReaderDone
  <2>1. frames' \in [Slots -> Nat \cup {None}]
    BY <1>8 DEF ReaderDone, ReaderSlot, ReaderType
  <2>2. last' \in Nat \cup {-1}
    BY <1>8 DEF ReaderDone, ReaderSlot, ReaderType
  <2>3. eof' \in Nat \cup {None}
    BY <1>8 DEF ReaderDone, ReaderSlot, ReaderType
  <2>4. reader' \in ReaderType
    BY <1>8 DEF ReaderDone, ReaderSlot, ReaderType, Idle, WakeReader
  <2>5. player' \in PlayerType
    BY <1>8
    DEF ReaderDone, ReaderSlot, ReaderType, PlayerType, Places, Goes, Woken
  <2> QED BY <1>8, <1>a, <2>1, <2>2, <2>3, <2>4, <2>5
      DEF ReaderDone, OutsideReader, sinkVars, sourceVars
<1>9. CASE UserToggles
  <2>1. want' \in WantType
    BY <1>9 DEF UserToggles, WantType, PlayerType
  <2>2. inputs' \in Nat /\ timeouts' \in Nat /\ faults' \in Nat
    BY <1>9 DEF UserToggles
  <2> QED BY <1>9, <1>a, <2>1, <2>2
      DEF UserToggles, sourceVars, sinkVars, history
<1>10. CASE PlayerDecides
  <2>1. player' \in PlayerType
    <3>1. Position \in Nat
      <4>1. want.next \in Nat
        BY DEF WantType
      <4>2. \A p \in Nat : Legitimate(p) \in Nat
        BY DEF Legitimate
      <4> QED BY <4>1, <4>2 DEF Position
    <3> DEFINE place == IF Position = player.last + 1 THEN "read" ELSE "seek"
               seeks == Position # player.last + 1
               refresh == player.refresh \/ want.refresh
               p1 == [player EXCEPT !.at = place]
               p2 == [p1 EXCEPT !.seeks = seeks]
               p3 == [p2 EXCEPT !.position = Position]
               p4 == [p3 EXCEPT !.old = want.next]
               p5 == [p4 EXCEPT !.play = want.play]
               p6 == [p5 EXCEPT !.refresh = refresh]
               p7 == [p6 EXCEPT !.waits = 0]
               p8 == [p7 EXCEPT !.orig = 0]
    <3>2. /\ place \in Places /\ seeks \in BOOLEAN /\ refresh \in BOOLEAN
          /\ want.next \in Nat /\ want.play \in BOOLEAN
      BY DEF Places, PlayerType, WantType
    <3>3. p4 \in PlayerType
      <4>1. p1 \in PlayerType
        BY <3>2, PlayerField
      <4>2. p2 \in PlayerType
        BY <3>2, <4>1, PlayerField
      <4>3. p3 \in PlayerType
        BY <3>1, <4>2, PlayerField
      <4> QED BY <3>2, <4>3, PlayerField
    <3>4. p8 \in PlayerType
      <4>1. p5 \in PlayerType
        BY <3>2, <3>3, PlayerField
      <4>2. p6 \in PlayerType
        BY <3>2, <4>1, PlayerField
      <4>3. 0 \in 0 .. 2 /\ 0 \in Nat
        OBVIOUS
      <4> HIDE DEF p6
      <4>4. p7 \in PlayerType
        BY <4>2, <4>3, PlayerField
      <4> HIDE DEF p7
      <4> QED BY <4>3, <4>4, PlayerField
    <3>5. player' = p8
      BY <1>10 DEF PlayerDecides
    <3> QED BY <3>4, <3>5
  <2>2. want' \in WantType
    BY <1>10 DEF PlayerDecides, WantType, PlayerType
  <2> QED BY <1>10, <1>a, <2>1, <2>2
      DEF PlayerDecides, sourceVars, sinkVars, history
<1>11. CASE SeekTries
  <2>1. client' \in Nat
    BY <1>11 DEF SeekTries, WaitsForFrame, PlayerType
  <2>2. reader' \in ReaderType
    BY <1>11 DEF SeekTries, WaitsForFrame, ReaderType, Idle, WakeReader
  <2>3. waiting' \in [reader : BOOLEAN, client : BOOLEAN]
    BY <1>11 DEF SeekTries, WaitsForFrame
  <2>4. adrift' \in BOOLEAN
    BY <1>11 DEF SeekTries, WaitsForFrame
  <2>5. player' \in PlayerType
    <3> DEFINE orig == IF waiting.client THEN player.orig ELSE client
    <3>1. orig \in Nat /\ {"seekeof", "read", "seekwait", "seekfailed"} \subseteq Places
      BY DEF PlayerType, Places
    <3>2. \/ player' = [player EXCEPT !.at = "seekeof", !.orig = orig]
          \/ player' = [player EXCEPT !.at = "read", !.waits = 0]
          \/ player' = [player EXCEPT !.at = "seekfailed", !.orig = orig]
          \/ /\ player.waits < 2
             /\ player' = [player EXCEPT !.at = "seekwait", !.orig = orig,
                                         !.waits = @ + 1]
      BY <1>11 DEF SeekTries, WaitsForFrame
    <3> DEFINE to(place) == [player EXCEPT !.at = place]
               back(place) == [to(place) EXCEPT !.orig = orig]
    <3>3. /\ to("read") \in PlayerType /\ back("seekeof") \in PlayerType
          /\ back("seekwait") \in PlayerType /\ back("seekfailed") \in PlayerType
      <4>1. \A place \in Places : to(place) \in PlayerType
        BY PlayerField
      <4> HIDE DEF orig
      <4>2. \A place \in Places : back(place) \in PlayerType
        BY <3>1, <4>1, PlayerField
      <4> QED BY <3>1, <4>1, <4>2
    <3>4. /\ [to("read") EXCEPT !.waits = 0] \in PlayerType
          /\ player.waits < 2 =>
               [back("seekwait") EXCEPT !.waits = player.waits + 1] \in PlayerType
      <4>1. 0 \in 0 .. 2 /\ (player.waits < 2 => player.waits + 1 \in 0 .. 2)
        BY DEF PlayerType
      <4> DEFINE first == to("read")
                 second == back("seekwait")
      <4>2. first \in PlayerType /\ second \in PlayerType
        BY <3>3
      <4> HIDE DEF first, second
      <4>3. [first EXCEPT !.waits = 0] \in PlayerType
        BY <4>1, <4>2, PlayerField
      <4>4. player.waits < 2 =>
              [second EXCEPT !.waits = player.waits + 1] \in PlayerType
        BY <4>1, <4>2, PlayerField
      <4> QED BY <4>3, <4>4 DEF first, second
    <3> QED BY <3>2, <3>3, <3>4
  <2> QED BY <1>11, <1>a, <2>1, <2>2, <2>3, <2>4, <2>5
      DEF SeekTries, OutsideCall, sinkVars, WaitsForFrame
<1>12. CASE SeekFails
  <2>1. client' \in Nat
    BY <1>12 DEF SeekFails, PlayerType
  <2>2. length' \in Nat
    <3>1. client' \in Nat
      BY <2>1
    <3> QED BY <1>12, <3>1 DEF SeekFails, LearnsLength
  <2>3. player' \in PlayerType
    BY <1>12 DEF SeekFails, PlayerType, Places, Goes, Woken
  <2> QED BY <1>12, <1>a, <2>1, <2>2, <2>3
      DEF SeekFails, sourceVars, sinkVars, history
<1>13. CASE ReadTries
  <2>1. reader' \in ReaderType
    BY <1>13 DEF ReadTries, WaitsForFrame, ReaderType, Idle, WakeReader
  <2>2. waiting' \in [reader : BOOLEAN, client : BOOLEAN]
    BY <1>13 DEF ReadTries, WaitsForFrame
  <2>3. adrift' \in BOOLEAN
    BY <1>13 DEF ReadTries, WaitsForFrame
  <2>4. player' \in PlayerType
    <3>1. \/ \E place \in Places : player' = [player EXCEPT !.at = place]
          \/ /\ player.waits < 2
             /\ player' = [player EXCEPT !.at = "readwait", !.waits = @ + 1]
      BY <1>13 DEF ReadTries, WaitsForFrame, Goes, Places
    <3> DEFINE to == [player EXCEPT !.at = "readwait"]
    <3>2. to \in PlayerType
      BY PlayerField DEF Places
    <3>3. player.waits < 2 =>
            [to EXCEPT !.waits = player.waits + 1] \in PlayerType
      <4>1. player.waits < 2 => player.waits + 1 \in 0 .. 2
        BY DEF PlayerType
      <4> HIDE DEF to
      <4> QED BY <3>2, <4>1, PlayerField
    <3>4. \A place \in Places : [player EXCEPT !.at = place] \in PlayerType
      BY PlayerField
    <3>5. player.waits < 2 =>
            [player EXCEPT !.at = "readwait", !.waits = @ + 1] \in PlayerType
      BY <3>3
    <3> QED BY <3>1, <3>4, <3>5
  <2> QED BY <1>13, <1>a, <2>1, <2>2, <2>3, <2>4
      DEF ReadTries, OutsideCall, sinkVars, WaitsForFrame
<1>14. CASE ReadFails
  <2>1. length' \in Nat
    BY <1>14 DEF ReadFails, LearnsLength
  <2>2. player' \in PlayerType
    <3>1. \/ player' = [player EXCEPT !.at = "cancel"]
          \/ player' = [player EXCEPT !.at = "cancel", !.refresh = player.play]
      BY <1>14 DEF ReadFails, Goes
    <3>2. "cancel" \in Places /\ player.play \in BOOLEAN
      BY DEF Places, PlayerType
    <3>3. [player EXCEPT !.at = "cancel"] \in PlayerType
      BY <3>2, PlayerField
    <3>4. [[player EXCEPT !.at = "cancel"] EXCEPT !.refresh = player.play]
            \in PlayerType
      BY <3>2, <3>3, PlayerField
    <3> QED BY <3>1, <3>3, <3>4
  <2>3. want' \in WantType
    BY <1>14 DEF ReadFails, WantType, PlayerType
  <2>4. adrift' \in BOOLEAN
    BY <1>14 DEF ReadFails
  <2> QED BY <1>14, <1>a, <2>1, <2>2, <2>3, <2>4
      DEF ReadFails, sourceVars, sinkVars, history
<1>15. CASE Accepts
  <2>1. ring' \in RingType
    <3>1. ring.first + 1 \in Nat /\ ring.first + ring.used \in Nat
      BY DEF RingType
    <3> DEFINE place == (ring.first + ring.used) % SinkSize
               first == (ring.first + 1) % SinkSize
    <3>2. place \in 0 .. SinkSize - 1 /\ first \in 0 .. SinkSize - 1
      BY <3>1, NextInRing
    <3>3. \/ UNCHANGED ring
          \/ ring' = [ring EXCEPT !.write = place]
          \/ /\ ring.used >= SinkSize
             /\ ring' = [ring EXCEPT !.first = first, !.used = @ - 1,
                                     !.write = place]
      BY <1>15 DEF Accepts
    <3> HIDE DEF place, first
    <3>4. CASE ring.used >= SinkSize
      <4>1. ring.used - 1 \in Nat
        BY <3>4 DEF RingType
      <4>2. [ring EXCEPT !.first = first] \in RingType
        BY <3>2, RingField
      <4>3. [[ring EXCEPT !.first = first] EXCEPT !.used = ring.used - 1]
              \in RingType
        BY <4>1, <4>2, RingField
      <4>4. [[[ring EXCEPT !.first = first] EXCEPT !.used = ring.used - 1]
              EXCEPT !.write = place] \in RingType
        BY <3>2, <4>3, RingField
      <4>5. [ring EXCEPT !.write = place] \in RingType
        BY <3>2, RingField
      <4> QED BY <3>3, <4>4, <4>5
    <3>5. CASE ~(ring.used >= SinkSize)
      BY <3>2, <3>3, <3>5, RingField
    <3> QED BY <3>4, <3>5
  <2>2. player' \in PlayerType
    BY <1>15 DEF Accepts, PlayerType, Places, Goes, Woken
  <2> QED BY <1>15, <1>a, <2>1, <2>2 DEF Accepts, sourceVars, sinkVars, history
<1>16. CASE Sends
  <2>1. buffers' \in [Buffers -> Frames]
    <3> DEFINE frame == [label |-> player.position, odd |-> adrift,
                         data |-> IF raced THEN Torn ELSE data[SlotOf(client)]]
    <3>1. player.position \in Nat /\ data[SlotOf(client)] \in Nat \cup {None}
      BY SlotInRange DEF PlayerType
    <3>2. frame \in Frames
      BY <3>1 DEF Frames, Labels, Torn
    <3>3. buffers' = [buffers EXCEPT ![ring.frames[ring.write]] = frame]
      BY <1>16 DEF Sends
    <3> HIDE DEF frame
    <3> QED BY <3>2, <3>3
  <2>2. player' \in PlayerType
    BY <1>16 DEF Sends, PlayerType, Places, Goes, Woken
  <2> QED BY <1>16, <1>a, <2>1, <2>2 DEF Sends, sourceVars, sinkVars, history
<1>17. CASE Taken
  <2>1. client' \in Nat
    BY <1>17 DEF Taken, PlayerType
  <2>2. reader' \in ReaderType
    BY <1>17 DEF Taken, ReaderType, Idle, WakeReader
  <2>3. player' \in PlayerType
    BY <1>17 DEF Taken, PlayerType, Places, Goes, Woken
  <2> QED BY <1>17, <1>a, <2>1, <2>2, <2>3
      DEF Taken, sourceVars, sinkVars, history
<1>18. CASE Completes
  <2>1. ring' \in RingType
    <3>1. ring.used + 1 \in Nat
      BY DEF RingType
    <3> QED BY <1>18, <3>1, RingField DEF Completes
  <2>2. shower' \in ShowerPlaces
    BY <1>18 DEF Completes, ShowerPlaces, WakeShower
  <2>3. player' \in PlayerType
    <3>1. player.position \in Nat /\ "update" \in Places
      BY DEF PlayerType, Places
    <3> DEFINE p1 == [player EXCEPT !.at = "update"]
               p2 == [p1 EXCEPT !.last = player.position]
               p3 == [p2 EXCEPT !.refresh = FALSE]
    <3>2. p1 \in PlayerType
      BY <3>1, PlayerField
    <3>3. p2 \in PlayerType
      BY <3>1, <3>2, PlayerField
    <3>4. p3 \in PlayerType
      BY <3>3, PlayerField
    <3>5. player' = p3
      BY <1>18 DEF Completes
    <3> QED BY <3>4, <3>5
  <2> QED BY <1>18, <1>a, <2>1, <2>2, <2>3
      DEF Completes, sourceVars, sinkVars, history
<1>19. CASE Cancels
  <2>1. shower' \in ShowerPlaces
    BY <1>19 DEF Cancels, ShowerPlaces, WakeShower
  <2>2. player' \in PlayerType
    BY <1>19 DEF Cancels, PlayerType, Places, Goes, Woken
  <2> QED BY <1>19, <1>a, <2>1, <2>2 DEF Cancels, sourceVars, sinkVars, history
<1>20. CASE Updates
  <2>1. want' \in WantType
    BY <1>20 DEF Updates, WantType, PlayerType, Legitimate
  <2>2. player' \in PlayerType
    BY <1>20 DEF Updates, PlayerType, Places, Goes, Woken, InLoop
  <2> QED BY <1>20, <1>a, <2>1, <2>2 DEF Updates, sourceVars, sinkVars, history
<1>21. CASE TimesOut
  <2>1. player' \in PlayerType
    BY <1>21 DEF TimesOut, PlayerType, Places, Goes, Woken
  <2>2. inputs' \in Nat /\ timeouts' \in Nat /\ faults' \in Nat
    BY <1>21 DEF TimesOut
  <2>3. adrift' \in BOOLEAN
    BY <1>21 DEF TimesOut
  <2> QED BY <1>21, <1>a, <2>1, <2>2, <2>3
      DEF TimesOut, sourceVars, sinkVars, history
<1>22. CASE CloseBegins
  <2>1. stopped' \in [source : BOOLEAN, sink : BOOLEAN]
    BY <1>22 DEF CloseBegins
  <2>2. player' \in PlayerType
    BY <1>22 DEF CloseBegins, PlayerType, Places, Goes, Woken
  <2> QED BY <1>22, <1>a, <2>1, <2>2 DEF CloseBegins, OutsideClose, history
<1>23. CASE CloseWakes
  <2>1. reader' \in ReaderType
    BY <1>23 DEF CloseWakes, ReaderType, Idle, WakeReader
  <2>2. shower' \in ShowerPlaces
    BY <1>23 DEF CloseWakes, ShowerPlaces, WakeShower
  <2>3. player' \in PlayerType
    BY <1>23 DEF CloseWakes, PlayerType, Places, Goes, Woken
  <2> QED BY <1>23, <1>a, <2>1, <2>2, <2>3
      DEF CloseWakes, OutsideClose, history
<1>24. CASE Closed
  <2>1. player' \in PlayerType
    BY <1>24 DEF Closed, PlayerType, Places, Goes, Woken
  <2> QED BY <1>24, <1>a, <2>1 DEF Closed, OutsideClose, history
<1>25. CASE ShowerTests
  <2>1. shower' \in ShowerPlaces
    BY <1>25 DEF ShowerTests, ShowerPlaces, WakeShower
  <2> QED BY <1>25, <1>a, <2>1
      DEF ShowerTests, OutsideShower, sinkVars, sourceVars
<1>26. CASE ShowerTakes
  <2>1. ring' \in RingType
    <3>1. ring.first + 1 \in Nat /\ ring.first \in 0 .. SinkSize - 1
      BY DEF RingType
    <3> DEFINE first == (ring.first + 1) % SinkSize
               left == [ring.frames EXCEPT ![ring.first] = ring.swap]
               current == ring.frames[ring.first]
               r1 == [ring EXCEPT !.current = current]
               r2 == [r1 EXCEPT !.frames = left]
               r3 == [r2 EXCEPT !.swap = None]
               r4 == [r3 EXCEPT !.first = first]
               r5 == [r4 EXCEPT !.used = ring.used - 1]
    <3>2. /\ first \in 0 .. SinkSize - 1
          /\ left \in [0 .. SinkSize - 1 -> Buffers \cup {None}]
          /\ current \in Buffers \cup {None}
      BY <3>1, NextInRing DEF RingType
    <3>3. ring.used > 0 => r5 \in RingType
      <4>1. r1 \in RingType
        BY <3>2, RingField
      <4>2. r2 \in RingType
        BY <3>2, <4>1, RingField
      <4>3. r3 \in RingType
        BY <4>2, RingField
      <4>4. r4 \in RingType
        BY <3>2, <4>3, RingField
      <4>5. ring.used > 0 => ring.used - 1 \in Nat
        BY DEF RingType
      <4> QED BY <4>4, <4>5, RingField
    <3>4. \/ UNCHANGED ring
          \/ ring.used > 0 /\ ring' = r5
      BY <1>26 DEF ShowerTakes
    <3> QED BY <3>3, <3>4
  <2>2. shower' \in ShowerPlaces
    BY <1>26 DEF ShowerTakes, ShowerPlaces, WakeShower
  <2> QED BY <1>26, <1>a, <2>1, <2>2
      DEF ShowerTakes, OutsideShower, sinkVars, sourceVars
<1>27. CASE ShowerGivesBack
  <2>1. ring' \in RingType
    BY <1>27 DEF ShowerGivesBack, RingType
  <2>2. player' \in PlayerType
    BY <1>27 DEF ShowerGivesBack, PlayerType, Places, Goes, Woken
  <2>3. shower' \in ShowerPlaces
    BY <1>27 DEF ShowerGivesBack, ShowerPlaces, WakeShower
  <2> QED BY <1>27, <1>a, <2>1, <2>2, <2>3
      DEF ShowerGivesBack, OutsideShower, sinkVars, sourceVars
<1>28. CASE ShowerSleeps
  <2>1. shower' \in ShowerPlaces
    BY <1>28 DEF ShowerSleeps, ShowerPlaces, WakeShower
  <2>2. slept' \in [reader : BOOLEAN, shower : BOOLEAN]
    BY <1>28 DEF ShowerSleeps
  <2> QED BY <1>28, <1>a, <2>1, <2>2
      DEF ShowerSleeps, OutsideShower, sinkVars, sourceVars
<1>29. ASSUME NEW position \in 0 .. FileLength + 1, UserSeeks(position)
      PROVE  TypeInv'
  <2>1. want' \in WantType
    BY <1>29 DEF UserSeeks, WantType, PlayerType
  <2>2. inputs' \in Nat /\ timeouts' \in Nat /\ faults' \in Nat
    BY <1>29 DEF UserSeeks
  <2> QED BY <1>29, <1>a, <2>1, <2>2
      DEF UserSeeks, sourceVars, sinkVars, history
<1>30. CASE UNCHANGED vars
  BY <1>30 DEF vars, sourceVars, playerVars, sinkVars, history
<1> QED BY <1>1, <1>2, <1>3, <1>4, <1>5, <1>6, <1>7, <1>8, <1>9, <1>10, <1>11, <1>12, <1>13, <1>14, <1>15, <1>16, <1>17, <1>18, <1>19, <1>20, <1>21, <1>22, <1>23, <1>24, <1>25, <1>26, <1>27, <1>28, <1>29, <1>30
     DEF PlayerNext, Reader, User, PlayerSteps, Close, Shower

-----------------------------------------------------------------------------
(* The invariants of the source and of the sink.                           *)

\* A frame that is ready has data, also while the player waits to take it
SourceInv ==
  /\ \A s \in Slots : frames[s] # None => data[s] # None
  /\ reader.ok => reader.at = "done" /\ data[ReaderSlot] # None
  /\ player.at \in {"accept", "acceptwait"} /\ ~raced => data[SlotOf(client)] # None

\* The frame that is not in the ring
Spare == IF ring.current = None THEN ring.swap ELSE ring.current

\* Every frame is in one place, and the one being written is the next that
\* will wait
SinkInv ==
  /\ ring.used <= SinkSize
  /\ \A i \in 0 .. SinkSize - 1 : ring.frames[i] \in Buffers /\ ring.frames[i] # Spare
  /\ \A i, j \in 0 .. SinkSize - 1 : ring.frames[i] = ring.frames[j] => i = j
  /\ Spare \in Buffers
  /\ ring.current # None <=> shower = "show"
  /\ ring.swap = None <=> shower = "show"
  /\ player.at \in {"send", "sent", "complete"} => ring.used < SinkSize
  /\ player.at = "send" => ring.write = (ring.first + ring.used) % SinkSize

\* The invariant of the source holds, and every step keeps it.
LEMMA SourceInit == PlayerInit => SourceInv
  BY DEF PlayerInit, SourceInv, Idle, InLoop

LEMMA SourceStep == TypeInv /\ SourceInv /\ [PlayerNext]_vars => SourceInv'
<1> SUFFICES ASSUME TypeInv, SourceInv, [PlayerNext]_vars PROVE SourceInv'
  OBVIOUS
<1> USE PlayerAssumption DEF None
<1>t. /\ frames \in [Slots -> Nat \cup {None}] /\ data \in [Slots -> Nat \cup {None}]
      /\ ReaderSlot \in Slots /\ SlotOf(client) \in Slots
      /\ reader.position \in Nat /\ client \in Nat
  <2>1. reader.position \in Nat /\ client \in Nat
    BY DEF TypeInv, ReaderType
  <2> QED BY <2>1, SlotInRange DEF TypeInv, ReaderSlot
<1>1. CASE ReaderTests
  BY <1>1 DEF ReaderTests, OutsideReader, SourceInv, ReaderSlot, SlotOf
<1>2. CASE ReaderIsFull
  <2>1. player'.at \in {"accept", "acceptwait"} => player'.at = player.at
    BY <1>2 DEF ReaderIsFull, TypeInv, PlayerType, Woken
  <2> QED BY <1>2, <2>1 DEF ReaderIsFull, OutsideReader, SourceInv, ReaderSlot, SlotOf
<1>3. CASE ReaderChooses
  BY <1>3 DEF ReaderChooses, OutsideReader, SourceInv, SlotOf
<1>4. CASE ReaderSeekFails
  BY <1>4 DEF ReaderSeekFails, OutsideReader, SourceInv, ReaderSlot, SlotOf
<1>5. CASE ReaderClears
  <2>1. \A s \in Slots : frames'[s] # None => data'[s] # None
    BY <1>5, <1>t DEF ReaderClears, SourceInv
  <2>2. ~reader'.ok
    BY <1>5 DEF ReaderClears, SourceInv, TypeInv, ReaderType
  <2>3. player.at \in {"accept", "acceptwait"} /\ ~raced' =>
          ~raced /\ data'[SlotOf(client)] = data[SlotOf(client)]
    BY <1>5, <1>t DEF ReaderClears
  <2> QED BY <1>5, <2>1, <2>2, <2>3
      DEF ReaderClears, OutsideReader, SourceInv, SlotOf
<1>6. CASE ReaderReads
  <2>1. \A s \in Slots : data[s] # None => data'[s] # None
    BY <1>6, <1>t DEF ReaderReads
  <2>2. data'[ReaderSlot] # None /\ reader'.at = "done" /\ ReaderSlot' = ReaderSlot
    BY <1>6, <1>t DEF ReaderReads, ReaderSlot, SlotOf, TypeInv, ReaderType
  <2> QED BY <1>6, <1>t, <2>1, <2>2 DEF ReaderReads, OutsideReader, SourceInv, SlotOf
<1>7. CASE ReaderFails
  <2>1. ~reader'.ok
    BY <1>7 DEF ReaderFails, SourceInv, TypeInv, ReaderType
  <2> QED BY <1>7, <2>1 DEF ReaderFails, OutsideReader, SourceInv, SlotOf
<1>8. CASE ReaderDone
  <2>1. player'.at \in {"accept", "acceptwait"} => player'.at = player.at
    BY <1>8 DEF ReaderDone, TypeInv, PlayerType, Woken
  <2>2. \A s \in Slots : frames'[s] # None => data[s] # None
    BY <1>8, <1>t DEF ReaderDone, SourceInv
  <2> QED BY <1>8, <2>1, <2>2 DEF ReaderDone, OutsideReader, SourceInv, SlotOf, Idle
<1>9. CASE UserToggles
  BY <1>9 DEF UserToggles, sourceVars, SourceInv, ReaderSlot, SlotOf
<1>10. CASE \E position \in 0 .. FileLength + 1 : UserSeeks(position)
  BY <1>10 DEF UserSeeks, sourceVars, SourceInv, ReaderSlot, SlotOf
<1>11. CASE PlayerDecides
  <2>1. player'.at \notin {"accept", "acceptwait"}
    BY <1>11 DEF PlayerDecides, TypeInv, PlayerType
  <2> QED BY <1>11, <2>1 DEF PlayerDecides, sourceVars, SourceInv, ReaderSlot, SlotOf
<1>12. CASE SeekTries
  <2>1. player'.at \notin {"accept", "acceptwait"}
    BY <1>12 DEF SeekTries, TypeInv, PlayerType
  <2>2. reader'.ok = reader.ok /\ reader'.position = reader.position
        /\ (reader.at = "done" => reader'.at = "done")
    BY <1>12 DEF SeekTries, WaitsForFrame, WakeReader, TypeInv, ReaderType
  <2> QED BY <1>12, <2>1, <2>2
      DEF SeekTries, OutsideCall, SourceInv, ReaderSlot, SlotOf
<1>13. CASE SeekFails
  <2>1. player'.at \notin {"accept", "acceptwait"}
    BY <1>13 DEF SeekFails, Goes, TypeInv, PlayerType
  <2> QED BY <1>13, <2>1 DEF SeekFails, sourceVars, SourceInv, ReaderSlot, SlotOf
<1>14. CASE ReadTries
  <2>1. player'.at \in {"accept", "acceptwait"} => IsReady(client)
    BY <1>14 DEF ReadTries, WaitsForFrame, Goes, TypeInv, PlayerType
  <2>2. reader'.ok = reader.ok /\ reader'.position = reader.position
        /\ (reader.at = "done" => reader'.at = "done")
    BY <1>14 DEF ReadTries, WaitsForFrame, WakeReader, TypeInv, ReaderType
  <2>3. IsReady(client) => data[SlotOf(client)] # None
    BY <1>t DEF IsReady, SourceInv
  <2> QED BY <1>14, <2>1, <2>2, <2>3
      DEF ReadTries, OutsideCall, SourceInv, ReaderSlot, SlotOf
<1>15. CASE ReadFails
  <2>1. player'.at \notin {"accept", "acceptwait"}
    <3>1. CASE IsEOF(client)
      BY <1>15, <3>1 DEF ReadFails, Goes, TypeInv, PlayerType
    <3>2. CASE ~IsEOF(client)
      <4>1. player' = [player EXCEPT !.at = "cancel", !.refresh = player.play]
        BY <1>15, <3>2 DEF ReadFails
      <4>2. [player EXCEPT !.at = "cancel", !.refresh = player.play].at = "cancel"
        BY DEF TypeInv, PlayerType
      <4> QED BY <4>1, <4>2
    <3> QED BY <3>1, <3>2
  <2> QED BY <1>15, <2>1
      DEF ReadFails, sourceVars, history, SourceInv, ReaderSlot, SlotOf
<1>16. CASE Cancels
  <2>1. player'.at \notin {"accept", "acceptwait"}
    BY <1>16 DEF Cancels, Goes, TypeInv, PlayerType
  <2> QED BY <1>16, <2>1
      DEF Cancels, sourceVars, history, SourceInv, ReaderSlot, SlotOf
<1>17. CASE Accepts
  <2>1. player.at = "accept"
    BY <1>17 DEF Accepts
  <2> QED BY <1>17, <2>1 DEF Accepts, sourceVars, history, SourceInv, ReaderSlot, SlotOf
<1>18. CASE Sends
  <2>1. player'.at \notin {"accept", "acceptwait"}
    BY <1>18 DEF Sends, Goes, InLoop, TypeInv, PlayerType
  <2> QED BY <1>18, <2>1
      DEF Sends, sourceVars, history, SourceInv, ReaderSlot, SlotOf
<1>19. CASE Completes
  <2>1. player'.at \notin {"accept", "acceptwait"}
    BY <1>19 DEF Completes, Goes, InLoop, TypeInv, PlayerType
  <2> QED BY <1>19, <2>1
      DEF Completes, sourceVars, history, SourceInv, ReaderSlot, SlotOf
<1>20. CASE Updates
  <2>1. player'.at \notin {"accept", "acceptwait"}
    BY <1>20 DEF Updates, Goes, InLoop, TypeInv, PlayerType
  <2> QED BY <1>20, <2>1
      DEF Updates, sourceVars, history, SourceInv, ReaderSlot, SlotOf
<1>21. CASE TimesOut
  <2>1. player'.at \notin {"accept", "acceptwait"}
    BY <1>21 DEF TimesOut, Goes, InLoop, TypeInv, PlayerType
  <2> QED BY <1>21, <2>1
      DEF TimesOut, sourceVars, history, SourceInv, ReaderSlot, SlotOf
<1>22. CASE Taken
  <2>1. player'.at \notin {"accept", "acceptwait"}
    BY <1>22 DEF Taken, Goes, TypeInv, PlayerType
  <2>2. reader'.ok = reader.ok /\ reader'.position = reader.position
        /\ (reader.at = "done" => reader'.at = "done")
    BY <1>22 DEF Taken, WakeReader, TypeInv, ReaderType
  <2> QED BY <1>22, <2>1, <2>2 DEF Taken, SourceInv, ReaderSlot, SlotOf
<1>23. CASE CloseBegins
  <2>1. player'.at \notin {"accept", "acceptwait"}
    BY <1>23 DEF CloseBegins, Goes, TypeInv, PlayerType
  <2>2. reader'.ok = reader.ok /\ reader'.position = reader.position
        /\ (reader.at = "done" => reader'.at = "done")
    BY <1>23 DEF CloseBegins, WakeReader, TypeInv, ReaderType
  <2> QED BY <1>23, <2>1, <2>2
      DEF CloseBegins, OutsideClose, history, SourceInv, ReaderSlot, SlotOf
<1>24. CASE CloseWakes
  <2>1. player'.at \notin {"accept", "acceptwait"}
    BY <1>24 DEF CloseWakes, Goes, TypeInv, PlayerType
  <2>2. reader'.ok = reader.ok /\ reader'.position = reader.position
        /\ (reader.at = "done" => reader'.at = "done")
    BY <1>24 DEF CloseWakes, WakeReader, TypeInv, ReaderType
  <2> QED BY <1>24, <2>1, <2>2
      DEF CloseWakes, OutsideClose, history, SourceInv, ReaderSlot, SlotOf
<1>25. CASE Closed
  <2>1. player'.at \notin {"accept", "acceptwait"}
    BY <1>25 DEF Closed, Goes, TypeInv, PlayerType
  <2>2. reader'.ok = reader.ok /\ reader'.position = reader.position
        /\ (reader.at = "done" => reader'.at = "done")
    BY <1>25 DEF Closed, WakeReader, TypeInv, ReaderType
  <2> QED BY <1>25, <2>1, <2>2
      DEF Closed, OutsideClose, history, SourceInv, ReaderSlot, SlotOf
<1>26. CASE ShowerTests
  BY <1>26 DEF ShowerTests, OutsideShower, sourceVars, SourceInv, ReaderSlot, SlotOf
<1>27. CASE ShowerTakes
  BY <1>27 DEF ShowerTakes, OutsideShower, sourceVars, SourceInv, ReaderSlot, SlotOf
<1>28. CASE ShowerSleeps
  BY <1>28 DEF ShowerSleeps, OutsideShower, sourceVars, SourceInv, ReaderSlot, SlotOf
<1>29. CASE ShowerGivesBack
  <2>1. player'.at \in {"accept", "acceptwait"} => player.at \in {"accept", "acceptwait"}
    BY <1>29 DEF ShowerGivesBack, TypeInv, PlayerType
  <2> QED BY <1>29, <2>1
      DEF ShowerGivesBack, OutsideShower, sourceVars, SourceInv, ReaderSlot, SlotOf
<1>30. CASE UNCHANGED vars
  BY <1>30 DEF vars, sourceVars, playerVars, history, SourceInv, ReaderSlot, SlotOf
<1> QED BY <1>1, <1>2, <1>3, <1>4, <1>5, <1>6, <1>7, <1>8, <1>9, <1>10, <1>11,
          <1>12, <1>13, <1>14, <1>15, <1>16, <1>17, <1>18, <1>19,
          <1>20, <1>21, <1>22, <1>23, <1>24, <1>25, <1>26, <1>27,
          <1>28, <1>29, <1>30
     DEF PlayerNext, Reader, User, PlayerSteps, Close, Shower

\* Once a frame has been cleared while it was taken, that is not forgotten.
LEMMA RacedForGood == raced /\ [PlayerNext]_vars => raced'
<1> SUFFICES ASSUME raced, [PlayerNext]_vars PROVE raced'
  OBVIOUS
<1>1. CASE Reader
  BY <1>1 DEF Reader, ReaderTests, ReaderIsFull, ReaderChooses, ReaderSeekFails,
     ReaderClears, ReaderReads, ReaderFails, ReaderDone
<1>2. CASE User
  BY <1>2 DEF User, UserToggles, UserSeeks
<1>3. CASE PlayerDecides \/ SeekTries \/ SeekFails \/ ReadTries \/ ReadFails
  BY <1>3 DEF PlayerDecides, SeekTries, SeekFails, ReadTries, ReadFails,
     OutsideCall, history
<1>4. CASE Accepts \/ Sends \/ Taken \/ Completes \/ Cancels \/ Updates
  BY <1>4 DEF Accepts, Sends, Taken, Completes, Cancels, Updates, history
<1>5. CASE TimesOut \/ Close
  BY <1>5 DEF TimesOut, Close, CloseBegins, CloseWakes, Closed, OutsideClose,
     history
<1>6. CASE Shower
  BY <1>6 DEF Shower, ShowerTests, ShowerTakes, ShowerGivesBack, ShowerSleeps,
     OutsideShower
<1>7. CASE UNCHANGED vars
  BY <1>7 DEF vars, history
<1> QED BY <1>1, <1>2, <1>3, <1>4, <1>5, <1>6, <1>7 DEF PlayerNext, PlayerSteps

\* What the ring is when the sink's thread has taken a frame
LEMMA RingTaken ==
  TypeInv /\ ShowerTakes /\ ring.used > 0 =>
    /\ ring'.current = ring.frames[ring.first] /\ ring'.swap = None
    /\ ring'.frames = [ring.frames EXCEPT ![ring.first] = ring.swap]
    /\ ring'.first = (ring.first + 1) % SinkSize
    /\ ring'.used = ring.used - 1 /\ ring'.write = ring.write
    /\ ring'.drop = ring.drop
<1> SUFFICES ASSUME TypeInv, ShowerTakes, ring.used > 0
             PROVE  /\ ring'.current = ring.frames[ring.first] /\ ring'.swap = None
                    /\ ring'.frames = [ring.frames EXCEPT ![ring.first] = ring.swap]
                    /\ ring'.first = (ring.first + 1) % SinkSize
                    /\ ring'.used = ring.used - 1 /\ ring'.write = ring.write
                    /\ ring'.drop = ring.drop
  OBVIOUS
<1> DEFINE current == ring.frames[ring.first]
           left == [ring.frames EXCEPT ![ring.first] = ring.swap]
           first == (ring.first + 1) % SinkSize
           used == ring.used - 1
           r1 == [ring EXCEPT !.current = current]
           r2 == [r1 EXCEPT !.frames = left]
           r3 == [r2 EXCEPT !.swap = None]
           r4 == [r3 EXCEPT !.first = first]
           r5 == [r4 EXCEPT !.used = used]
<1>1. ring' = r5
  BY DEF ShowerTakes
<1>2. ring \in RingType
  BY DEF TypeInv
<1> HIDE DEF current, left, first, used
<1>3. /\ r5.current = current /\ r5.swap = None /\ r5.frames = left
      /\ r5.first = first /\ r5.used = used /\ r5.write = ring.write
      /\ r5.drop = ring.drop
  BY <1>2 DEF RingType
<1> QED BY <1>1, <1>3 DEF current, left, first, used

\* The invariant of the sink holds at first, and every step keeps it unless a
\* slot is cleared while the client takes its frame.
LEMMA SinkInit == PlayerInit => SinkInv
  BY PlayerAssumption DEF PlayerInit, SinkInv, Spare, Buffers, None, InLoop

LEMMA SinkStep ==
  TypeInv /\ SourceInv /\ (~raced => SinkInv) /\ [PlayerNext]_vars /\ ~raced' =>
    ~raced /\ SinkInv'
<1> SUFFICES ASSUME TypeInv, SourceInv, ~raced => SinkInv, [PlayerNext]_vars, ~raced'
             PROVE  ~raced /\ SinkInv'
  OBVIOUS
<1>1. ~raced /\ SinkInv
  BY RacedForGood DEF TypeInv
<1> SUFFICES SinkInv'
  BY <1>1
<1>2. SinkSize \in Nat /\ SinkSize >= 2 /\ None \notin Buffers
  BY PlayerAssumption DEF Buffers, None
<1>t. /\ ring \in RingType /\ player \in PlayerType /\ shower \in ShowerPlaces
      /\ ring.first \in 0 .. SinkSize - 1 /\ ring.used \in 0 .. SinkSize
  BY <1>1 DEF TypeInv, RingType, SinkInv
<1> DEFINE Busy == {"send", "sent", "complete"}
\* Most steps leave the ring alone, and the player away from it
<1>3. ASSUME ring' = ring, shower' = "show" <=> shower = "show",
             player'.at \in Busy => player.at \in Busy \/ ring.used < SinkSize,
             player'.at = "send" => player.at = "send"
      PROVE  SinkInv'
  BY <1>1, <1>3 DEF SinkInv, Spare
<1>4. CASE Reader
  <2>1. ring' = ring /\ shower' = shower
    BY <1>4 DEF Reader, ReaderTests, ReaderIsFull, ReaderChooses, ReaderSeekFails,
       ReaderClears, ReaderReads, ReaderFails, ReaderDone, OutsideReader, sinkVars
  <2>2. player'.at = player.at \/ player'.at \in {"seek", "read"}
    BY <1>4, <1>t DEF Reader, ReaderTests, ReaderIsFull, ReaderChooses,
       ReaderSeekFails, ReaderClears, ReaderReads, ReaderFails, ReaderDone,
       PlayerType, Woken
  <2> QED BY <1>3, <2>1, <2>2
<1>5. CASE User
  BY <1>3, <1>5 DEF User, UserToggles, UserSeeks, sinkVars
<1>6. CASE PlayerDecides \/ SeekTries \/ SeekFails \/ ReadTries \/ ReadFails
  <2>1. ring' = ring /\ shower' = shower
    BY <1>6 DEF PlayerDecides, SeekTries, SeekFails, ReadTries, ReadFails,
       OutsideCall, sinkVars
  <2>2. player'.at \notin Busy
    <3>1. CASE PlayerDecides
      BY <1>t, <3>1 DEF PlayerDecides, PlayerType
    <3>2. CASE SeekTries
      BY <1>t, <3>2 DEF SeekTries, PlayerType
    <3>3. CASE SeekFails
      BY <1>t, <3>3 DEF SeekFails, PlayerType, Goes
    <3>4. CASE ReadTries
      BY <1>t, <3>4 DEF ReadTries, PlayerType, Goes
    <3>5. CASE ReadFails /\ IsEOF(client)
      BY <1>t, <3>5 DEF ReadFails, PlayerType, Goes
    <3>6. CASE ReadFails /\ ~IsEOF(client)
      <4>1. player' = [player EXCEPT !.at = "cancel", !.refresh = player.play]
        BY <3>6 DEF ReadFails
      <4>2. [player EXCEPT !.at = "cancel", !.refresh = player.play].at = "cancel"
        BY <1>t DEF PlayerType
      <4> QED BY <4>1, <4>2
    <3> QED BY <1>6, <3>1, <3>2, <3>3, <3>4, <3>5, <3>6
  <2> QED BY <1>3, <2>1, <2>2
<1>7. CASE Accepts
  <2>1. data[SlotOf(client)] # None
    BY <1>1, <1>7 DEF SourceInv, Accepts
  <2>2. CASE ring.used < SinkSize
    <3>1. /\ ring' = [ring EXCEPT !.write = (ring.first + ring.used) % SinkSize]
          /\ shower' = shower
      BY <1>7, <2>1, <2>2, <1>t, <1>2 DEF Accepts
    <3>2. /\ ring'.first = ring.first /\ ring'.used = ring.used
          /\ ring'.frames = ring.frames /\ Spare' = Spare
          /\ ring'.current = ring.current /\ ring'.swap = ring.swap
          /\ ring'.write = (ring.first + ring.used) % SinkSize
      BY <1>t, <3>1 DEF RingType, Spare
    <3> QED BY <1>1, <2>2, <3>1, <3>2 DEF SinkInv
  <2>3. CASE ~(ring.used < SinkSize) /\ ~ring.drop
    <3>1. ring' = ring /\ shower' = shower /\ player'.at = "acceptwait"
      BY <1>7, <2>1, <2>3, <1>t, <1>2 DEF Accepts, Goes, PlayerType
    <3> QED BY <1>3, <3>1
  <2>4. CASE ~(ring.used < SinkSize) /\ ring.drop
    <3>1. ring.used = SinkSize
      BY <1>t, <1>2, <2>4
    <3>2. shower' = shower /\ player' = [player EXCEPT !.at = "send"]
      BY <1>7, <2>1, <2>4, <1>t, <1>2 DEF Accepts, Goes
    <3>3. /\ ring'.first = (ring.first + 1) % SinkSize /\ ring'.used = ring.used - 1
          /\ ring'.frames = ring.frames /\ Spare' = Spare
          /\ ring'.current = ring.current /\ ring'.swap = ring.swap
          /\ ring'.write = (ring.first + ring.used) % SinkSize
      BY <1>7, <2>1, <2>4, <1>t, <1>2 DEF Accepts, RingType, Spare
    <3>4. (((ring.first + 1) % SinkSize) + (SinkSize - 1)) % SinkSize
            = (ring.first + SinkSize) % SinkSize
      <4>1. SinkSize - 1 \in 0 .. SinkSize - 1 /\ (SinkSize - 1) + 1 = SinkSize
        BY <1>2
      <4>2. (((ring.first + 1) % SinkSize) + (SinkSize - 1)) % SinkSize
              = (ring.first + ((SinkSize - 1) + 1)) % SinkSize
        BY <1>t, <4>1, NextPlace
      <4> QED BY <4>1, <4>2
    <3> QED BY <1>1, <1>2, <3>1, <3>2, <3>3, <3>4 DEF SinkInv
  <2> QED BY <2>2, <2>3, <2>4
<1>8. CASE Sends
  <2>1. ring' = ring /\ shower' = shower /\ player'.at = "sent"
    BY <1>8, <1>t DEF Sends, Goes, PlayerType
  <2>2. player.at = "send"
    BY <1>8 DEF Sends
  <2> QED BY <1>3, <2>1, <2>2
<1>9. CASE Taken
  <2>1. ring' = ring /\ shower' = shower /\ player'.at = "complete"
    BY <1>9, <1>t DEF Taken, Goes, PlayerType, sinkVars
  <2>2. player.at = "sent"
    BY <1>9 DEF Taken
  <2> QED BY <1>3, <2>1, <2>2
<1>10. CASE Completes
  <2>1. player.at = "complete"
    BY <1>10 DEF Completes
  <2>2. player'.at = "update"
    <3>1. player' = [player EXCEPT !.at = "update", !.last = player.position,
                                   !.refresh = FALSE]
      BY <1>10 DEF Completes
    <3>2. [player EXCEPT !.at = "update", !.last = player.position,
                         !.refresh = FALSE].at = "update"
      BY <1>t DEF PlayerType
    <3> QED BY <3>1, <3>2
  <2>3. ring' = [ring EXCEPT !.used = @ + 1]
    BY <1>10 DEF Completes
  <2>4. /\ ring'.used = ring.used + 1 /\ ring'.frames = ring.frames
        /\ ring'.current = ring.current /\ ring'.swap = ring.swap /\ Spare' = Spare
    BY <1>t, <2>3 DEF RingType, Spare
  <2>5. shower' = "show" <=> shower = "show"
    BY <1>10 DEF Completes, WakeShower
  <2> QED BY <1>1, <1>2, <1>t, <2>1, <2>2, <2>4, <2>5 DEF SinkInv
<1>11. CASE Cancels \/ Updates \/ TimesOut \/ Close
  <2>1. ring' = ring /\ (shower' = "show" <=> shower = "show")
    BY <1>11 DEF Cancels, Updates, TimesOut, Close, CloseBegins, CloseWakes,
       Closed, OutsideClose, WakeShower, sinkVars
  <2>2. player'.at \notin Busy
    BY <1>11, <1>t DEF Cancels, Updates, TimesOut, Close, CloseBegins,
       CloseWakes, Closed, Goes, InLoop, PlayerType
  <2> QED BY <1>3, <2>1, <2>2
<1>12. CASE ShowerTests
  BY <1>3, <1>12 DEF ShowerTests
<1>13. CASE ShowerSleeps
  BY <1>3, <1>13 DEF ShowerSleeps
<1>14. CASE ShowerTakes
  <2>1. shower = "take" /\ player' = player
    BY <1>14 DEF ShowerTakes
  <2>2. CASE ring.used > 0
    <3>1. shower' = "show"
      BY <1>14, <2>2 DEF ShowerTakes
    <3>2. /\ ring'.current = ring.frames[ring.first] /\ ring'.swap = None
          /\ ring'.frames = [ring.frames EXCEPT ![ring.first] = ring.swap]
          /\ ring'.first = (ring.first + 1) % SinkSize
          /\ ring'.used = ring.used - 1 /\ ring'.write = ring.write
      BY RingTaken, <1>14, <2>2 DEF TypeInv
    <3>3. ring.current = None /\ Spare = ring.swap /\ Spare \in Buffers
      BY <1>1, <2>1 DEF SinkInv, Spare
    <3>4. Spare' = ring.frames[ring.first] /\ ring'.current # None
      BY <1>1, <1>2, <1>t, <3>2 DEF SinkInv, Spare
    <3>5. /\ ring.frames \in [0 .. SinkSize - 1 -> Buffers \cup {None}]
          /\ \A i \in 0 .. SinkSize - 1 :
               ring'.frames[i] = IF i = ring.first THEN ring.swap ELSE ring.frames[i]
      BY <1>t, <3>2 DEF RingType
    <3>6. /\ \A i \in 0 .. SinkSize - 1 :
               ring'.frames[i] \in Buffers /\ ring'.frames[i] # Spare'
          /\ \A i, j \in 0 .. SinkSize - 1 :
               ring'.frames[i] = ring'.frames[j] => i = j
          /\ Spare' \in Buffers
      BY <1>1, <1>t, <3>3, <3>4, <3>5 DEF SinkInv
    <3>7. ring'.first + ring'.used \in Nat
          /\ (ring'.first + ring'.used) % SinkSize = (ring.first + ring.used) % SinkSize
      <4>1. ring.used - 1 \in 0 .. SinkSize - 1 /\ (ring.used - 1) + 1 = ring.used
        BY <1>t, <1>2, <2>2
      <4>2. (((ring.first + 1) % SinkSize) + (ring.used - 1)) % SinkSize
              = (ring.first + ((ring.used - 1) + 1)) % SinkSize
        BY <1>t, <4>1, NextPlace
      <4>3. (ring.first + 1) % SinkSize \in 0 .. SinkSize - 1
        BY <1>t, NextInRing
      <4> QED BY <3>2, <4>1, <4>2, <4>3
    <3> QED BY <1>1, <1>t, <1>2, <2>1, <3>1, <3>2, <3>4, <3>6, <3>7 DEF SinkInv
  <2>3. CASE ~(ring.used > 0)
    BY <1>3, <1>14, <2>1, <2>3 DEF ShowerTakes
  <2> QED BY <2>2, <2>3
<1>15. CASE ShowerGivesBack
  <2>1. /\ shower = "show" /\ shower' = "test"
        /\ ring' = [ring EXCEPT !.swap = ring.current, !.current = None]
    BY <1>15 DEF ShowerGivesBack
  <2>2. /\ ring'.swap = ring.current /\ ring'.current = None
        /\ ring'.first = ring.first /\ ring'.used = ring.used
        /\ ring'.write = ring.write /\ ring'.frames = ring.frames
    BY <1>t, <2>1 DEF RingType
  <2>3. Spare' = Spare /\ ring.current # None
    BY <1>1, <2>1, <2>2 DEF SinkInv, Spare
  <2>4. player'.at = player.at \/ player'.at \notin Busy
    BY <1>15, <1>t DEF ShowerGivesBack, PlayerType
  <2> QED BY <1>1, <2>1, <2>2, <2>3, <2>4 DEF SinkInv
<1>16. CASE UNCHANGED vars
  BY <1>3, <1>16 DEF vars, sinkVars, playerVars
<1> QED BY <1>4, <1>5, <1>6, <1>7, <1>8, <1>9, <1>10, <1>11, <1>12, <1>13,
           <1>14, <1>15, <1>16 DEF PlayerNext, PlayerSteps, Shower

-----------------------------------------------------------------------------
(* The theorems.                                                           *)

PlayerInv == TypeInv /\ SourceInv /\ (~raced => SinkInv)

LEMMA PlayerInvStep == PlayerInv /\ [PlayerNext]_vars => PlayerInv'
  BY TypeStep, SourceStep, SinkStep, RacedForGood DEF PlayerInv, TypeInv

LEMMA PlayerInvAlways == PlayerSpec => []PlayerInv
<1>1. PlayerInit => PlayerInv
  BY TypeInit, SourceInit, SinkInit DEF PlayerInv
<1> QED BY <1>1, PlayerInvStep, PTL DEF PlayerSpec

(***************************************************************************)
(* The types hold in every state, and the sink holds no more frames than   *)
(* it has room for, unless a slot of the source was cleared while the      *)
(* client took its frame (read_thread against bms_accept_stream_frame).    *)
(***************************************************************************)
THEOREM PlayerTypeCorrect == PlayerSpec => []PlayerTypeOK
<1>1. PlayerInv => PlayerTypeOK
  <2> SUFFICES ASSUME PlayerInv PROVE PlayerTypeOK
    OBVIOUS
  <2>1. raced \/ ring.used <= SinkSize
    BY DEF PlayerInv, SinkInv, TypeInv
  <2> QED BY <2>1 DEF PlayerInv, TypeInv, PlayerTypeOK, ReaderType, WantType,
             PlayerType, RingType, ShowerPlaces
<1> QED BY <1>1, PlayerInvAlways, PTL

\* The frames that wait, as a sequence
WaitingFacts ==
  /\ Waiting \in Seq(Frames) /\ Len(Waiting) = ring.used
  /\ DOMAIN Waiting = 1 .. ring.used
  /\ \A i \in 1 .. ring.used :
       /\ (ring.first + i - 1) % SinkSize \in 0 .. SinkSize - 1
       /\ ring.frames[(ring.first + i - 1) % SinkSize] \in Buffers
       /\ Waiting[i] = buffers[ring.frames[(ring.first + i - 1) % SinkSize]]

LEMMA WaitingIs == TypeInv /\ SinkInv => WaitingFacts
<1> SUFFICES ASSUME TypeInv, SinkInv PROVE WaitingFacts
  OBVIOUS
<1>t. /\ ring.first \in 0 .. SinkSize - 1 /\ ring.used \in Nat
      /\ buffers \in [Buffers -> Frames] /\ SinkSize \in Nat
  BY PlayerAssumption DEF TypeInv, RingType
<1>1. ASSUME NEW i \in 1 .. ring.used
      PROVE  /\ (ring.first + i - 1) % SinkSize \in 0 .. SinkSize - 1
             /\ ring.frames[(ring.first + i - 1) % SinkSize] \in Buffers
  <2>1. ring.first + i - 1 \in Nat
    BY <1>t
  <2>2. (ring.first + i - 1) % SinkSize \in 0 .. SinkSize - 1
    BY <2>1, NextInRing
  <2> QED BY <2>2 DEF SinkInv
<1> DEFINE element(i) == buffers[ring.frames[(ring.first + i - 1) % SinkSize]]
<1>2. \A i \in 1 .. ring.used : element(i) \in Frames
  BY <1>1, <1>t
<1>3. Waiting = [i \in 1 .. ring.used |-> element(i)]
  BY DEF Waiting
<1> HIDE DEF element
<1>4. Waiting \in Seq(Frames) /\ Len(Waiting) = ring.used
  BY <1>2, <1>3, <1>t
<1>5. \A i \in 1 .. ring.used : Waiting[i] = element(i)
  BY <1>3
<1> QED BY <1>1, <1>3, <1>4, <1>5 DEF element, WaitingFacts

\* A step that leaves the ring's places and the frames in them alone changes
\* nothing of the queue.
LEMMA QueueStays ==
  ASSUME ring'.frames = ring.frames, ring'.first = ring.first,
         ring'.used = ring.used, ring'.current = ring.current,
         ring'.drop = ring.drop, buffers' = buffers
  PROVE  UNCHANGED Queue!queueVars
<1>1. Waiting' = Waiting
  BY DEF Waiting
<1>2. Showing' = Showing
  BY DEF Showing
<1> QED BY <1>1, <1>2 DEF Queue!queueVars

LEMMA WaitingIsNext == TypeInv' /\ SinkInv' => WaitingFacts'
  BY WaitingIs, PTL

\* Writing a frame changes no frame that waits or is shown.
LEMMA SendsUnseen ==
  ASSUME TypeInv, SinkInv, Sends
  PROVE  UNCHANGED Queue!queueVars
<1>t. /\ ring.first \in 0 .. SinkSize - 1 /\ ring.used \in Nat
      /\ buffers \in [Buffers -> Frames] /\ SinkSize \in Nat /\ ring.used < SinkSize
      /\ ring.write = (ring.first + ring.used) % SinkSize
  BY PlayerAssumption DEF TypeInv, RingType, SinkInv, Sends
<1>1. ring' = ring /\ \E frame : buffers' = [buffers EXCEPT ![ring.frames[ring.write]] = frame]
  BY DEF Sends
<1>2. \A b \in Buffers : b # ring.frames[ring.write] => buffers'[b] = buffers[b]
  BY <1>1, <1>t
<1>3. ASSUME NEW i \in 1 .. ring.used
      PROVE  (ring.first + i - 1) % SinkSize # ring.write
  <2>1. /\ ring.first + i - 1 \in 0 .. 2 * SinkSize - 1
        /\ ring.first + ring.used \in 0 .. 2 * SinkSize - 1
    BY <1>t
  <2>2. /\ (ring.first + i - 1) % SinkSize =
              IF ring.first + i - 1 < SinkSize THEN ring.first + i - 1
              ELSE ring.first + i - 1 - SinkSize
    BY <1>t, <2>1, SinkPlace
  <2>3. (ring.first + ring.used) % SinkSize =
              IF ring.first + ring.used < SinkSize THEN ring.first + ring.used
              ELSE ring.first + ring.used - SinkSize
    BY <1>t, <2>1, SinkPlace
  <2> QED BY <1>t, <2>2, <2>3
<1>4. ASSUME NEW i \in 1 .. ring.used
      PROVE  buffers'[ring.frames[(ring.first + i - 1) % SinkSize]]
               = buffers[ring.frames[(ring.first + i - 1) % SinkSize]]
  <2>1. ring.write \in 0 .. SinkSize - 1
    BY DEF TypeInv, RingType
  <2>2. /\ (ring.first + i - 1) % SinkSize \in 0 .. SinkSize - 1
        /\ ring.frames[(ring.first + i - 1) % SinkSize] \in Buffers
    BY WaitingIs DEF WaitingFacts
  <2>3. ring.frames[(ring.first + i - 1) % SinkSize] # ring.frames[ring.write]
    BY <1>3, <2>1, <2>2 DEF SinkInv
  <2> QED BY <1>2, <2>2, <2>3
<1>5. Waiting' = Waiting
  BY <1>1, <1>4 DEF Waiting
<1>6. Showing' = Showing
  <2>1. CASE ring.current = None
    BY <1>1, <2>1 DEF Showing
  <2>2. CASE ring.current # None
    <3>1. ring.current \in Buffers /\ ring.current # ring.frames[ring.write]
      BY <2>2 DEF SinkInv, Spare, TypeInv, RingType
    <3> QED BY <1>1, <1>2, <2>2, <3>1 DEF Showing
  <2> QED BY <2>1, <2>2
<1> QED BY <1>1, <1>5, <1>6 DEF Queue!queueVars

\* A frame that is complete is put at the end of the queue.
LEMMA CompletesPuts ==
  ASSUME TypeInv, SinkInv, Completes, TypeInv', SinkInv'
  PROVE  Queue!Put
<1>1. ring.used < SinkSize
  BY DEF Completes, SinkInv
<1>2. ring' = [ring EXCEPT !.used = ring.used + 1] /\ buffers' = buffers
  BY DEF Completes
<1>3. /\ ring'.frames = ring.frames /\ ring'.first = ring.first
      /\ ring'.used = ring.used + 1 /\ ring'.current = ring.current
      /\ ring'.drop = ring.drop /\ ring.used \in Nat
  BY <1>2 DEF TypeInv, RingType
<1>4. /\ Waiting \in Seq(Frames) /\ Len(Waiting) = ring.used
      /\ DOMAIN Waiting = 1 .. ring.used
      /\ \A i \in 1 .. ring.used :
           Waiting[i] = buffers[ring.frames[(ring.first + i - 1) % SinkSize]]
  BY WaitingIs DEF WaitingFacts
<1>5. /\ Waiting' \in Seq(Frames) /\ Len(Waiting') = ring'.used
      /\ \A i \in 1 .. ring'.used :
           Waiting'[i] = buffers'[ring'.frames[(ring'.first + i - 1) % SinkSize]]
  BY WaitingIsNext DEF WaitingFacts
<1>6. SubSeq(Waiting', 1, Len(Waiting)) = Waiting
  <2> DEFINE part == SubSeq(Waiting', 1, ring.used)
  <2>1. part = [i \in 1 .. ring.used |-> Waiting'[i]]
    BY <1>3, <1>5
  <2>2. \A i \in 1 .. ring.used : Waiting'[i] = Waiting[i]
    BY <1>2, <1>3, <1>4, <1>5
  <2>3. Waiting = [i \in 1 .. ring.used |-> Waiting[i]]
    BY <1>4
  <2>4. part = Waiting
    BY <2>1, <2>2, <2>3
  <2> QED BY <1>4, <2>4
<1>7. Showing' = Showing
  BY <1>2, <1>3 DEF Showing
<1> QED BY <1>1, <1>3, <1>4, <1>5, <1>6, <1>7 DEF Queue!Put

\* When the first frame leaves the ring, the rest of the queue stays.
LEMMA TailLeft ==
  ASSUME TypeInv, SinkInv, TypeInv', SinkInv', ring.used > 0, buffers' = buffers,
         ring'.first = (ring.first + 1) % SinkSize, ring'.used = ring.used - 1,
         \A i \in 0 .. SinkSize - 1 :
           i # ring.first => ring'.frames[i] = ring.frames[i]
  PROVE  Waiting' = Tail(Waiting)
<1>t. /\ ring.first \in 0 .. SinkSize - 1 /\ ring.used \in 1 .. SinkSize
      /\ SinkSize \in Nat /\ SinkSize >= 2
  BY PlayerAssumption DEF TypeInv, RingType, SinkInv
<1>1. WaitingFacts /\ WaitingFacts'
  BY WaitingIs, WaitingIsNext
<1>2. ASSUME NEW i \in 1 .. ring.used - 1
      PROVE  Waiting'[i] = Waiting[i + 1]
  <2>1. i - 1 \in 0 .. SinkSize - 1 /\ (i - 1) + 1 = i /\ i + 1 \in 1 .. ring.used
    BY <1>t
  <2>2. (ring'.first + i - 1) % SinkSize = (ring.first + (i + 1) - 1) % SinkSize
    <3>1. (((ring.first + 1) % SinkSize) + (i - 1)) % SinkSize
            = (ring.first + ((i - 1) + 1)) % SinkSize
      BY <1>t, <2>1, NextPlace
    <3>2. (ring.first + 1) % SinkSize \in Nat
      BY <1>t, NextInRing
    <3> QED BY <1>t, <2>1, <3>1, <3>2
  <2>3. (ring.first + (i + 1) - 1) % SinkSize # ring.first
    <3>1. ring.first + i \in 0 .. 2 * SinkSize - 1 /\ ring.first + (i + 1) - 1 = ring.first + i
      BY <1>t
    <3>2. (ring.first + i) % SinkSize =
            IF ring.first + i < SinkSize THEN ring.first + i
            ELSE ring.first + i - SinkSize
      BY <1>t, <3>1, SinkPlace
    <3> QED BY <1>t, <3>1, <3>2
  <2>4. Waiting[i + 1] = buffers[ring.frames[(ring.first + (i + 1) - 1) % SinkSize]]
        /\ (ring.first + (i + 1) - 1) % SinkSize \in 0 .. SinkSize - 1
    BY <1>1, <2>1 DEF WaitingFacts
  <2>5. Waiting'[i] = buffers'[ring'.frames[(ring'.first + i - 1) % SinkSize]]
    BY <1>1 DEF WaitingFacts
  <2> QED BY <2>2, <2>3, <2>4, <2>5
<1>3. /\ Waiting \in Seq(Frames) /\ Waiting' \in Seq(Frames) /\ Waiting # <<>>
      /\ Len(Waiting) = ring.used /\ Len(Waiting') = ring.used - 1
  BY <1>1, <1>t DEF WaitingFacts
<1>4. /\ Tail(Waiting) \in Seq(Frames) /\ Len(Tail(Waiting)) = ring.used - 1
      /\ \A i \in 1 .. ring.used - 1 : Tail(Waiting)[i] = Waiting[i + 1]
  BY <1>3, HeadTailProperties
<1>5. \A i \in 1 .. ring.used - 1 : Waiting'[i] = Tail(Waiting)[i]
  BY <1>2, <1>4
<1> QED BY <1>3, <1>4, <1>5, SeqEqual

\* The sink's thread shows the first frame of the queue.
LEMMA TakesShows ==
  ASSUME TypeInv, SinkInv, TypeInv', SinkInv', ShowerTakes
  PROVE  [Queue!QueueNext]_(Queue!queueVars)
<1>1. CASE ring.used > 0
  <2>1. /\ ring'.current = ring.frames[ring.first]
        /\ ring'.frames = [ring.frames EXCEPT ![ring.first] = ring.swap]
        /\ ring'.first = (ring.first + 1) % SinkSize
        /\ ring'.used = ring.used - 1 /\ ring'.drop = ring.drop
        /\ buffers' = buffers
    BY <1>1, RingTaken DEF ShowerTakes
  <2>2. \A i \in 0 .. SinkSize - 1 : i # ring.first => ring'.frames[i] = ring.frames[i]
    BY <2>1 DEF TypeInv, RingType
  <2>3. Waiting' = Tail(Waiting)
    BY <1>1, <2>1, <2>2, TailLeft
  <2>4. WaitingFacts /\ ring.first \in 0 .. SinkSize - 1 /\ SinkSize \in Nat
        /\ ring.used \in Nat
    BY WaitingIs, PlayerAssumption DEF TypeInv, RingType
  <2>5. Waiting # <<>> /\ Head(Waiting) = buffers[ring.frames[ring.first]]
    <3>1. Waiting[1] = buffers[ring.frames[(ring.first + 1 - 1) % SinkSize]]
      BY <1>1, <2>4 DEF WaitingFacts
    <3>2. (ring.first + 1 - 1) % SinkSize = ring.first
      <4>1. ring.first + 1 - 1 = ring.first /\ ring.first \in 0 .. 2 * SinkSize - 1
        BY <2>4
      <4>2. ring.first % SinkSize = ring.first
        BY <2>4, <4>1, SinkPlace
      <4> QED BY <4>1, <4>2
    <3>3. Waiting \in Seq(Frames) /\ Len(Waiting) = ring.used
      BY <2>4 DEF WaitingFacts
    <3>4. Waiting # <<>> /\ Head(Waiting) = Waiting[1]
      BY <1>1, <2>4, <3>3
    <3> QED BY <3>1, <3>2, <3>4
  <2>6. Showing = Nothing
    BY DEF SinkInv, ShowerTakes, Showing
  <2>7. Showing' = buffers[ring.frames[ring.first]]
    <3>1. ring.frames[ring.first] \in Buffers
      BY <2>4 DEF SinkInv
    <3>2. ring.frames[ring.first] # None
      BY <3>1, PlayerAssumption DEF Buffers, None
    <3> QED BY <2>1, <3>2 DEF Showing
  <2>8. Queue!Show
    BY <2>1, <2>3, <2>5, <2>6, <2>7 DEF Queue!Show
  <2> QED BY <2>8 DEF Queue!QueueNext
<1>2. CASE ~(ring.used > 0)
  BY <1>2, QueueStays DEF ShowerTakes
<1> QED BY <1>1, <1>2

\* The sink's thread gives back a frame that has been shown.
LEMMA GivesBackShown ==
  ASSUME TypeInv, SinkInv, ShowerGivesBack
  PROVE  [Queue!QueueNext]_(Queue!queueVars)
<1>1. /\ ring'.frames = ring.frames /\ ring'.first = ring.first
      /\ ring'.used = ring.used /\ ring'.current = None
      /\ ring'.drop = ring.drop /\ buffers' = buffers
  BY DEF ShowerGivesBack, TypeInv, RingType
<1>2. Waiting' = Waiting
  BY <1>1 DEF Waiting
<1>3. Showing' = Nothing
  BY <1>1 DEF Showing
<1>4. CASE Showing = Nothing
  BY <1>1, <1>2, <1>3, <1>4 DEF Queue!queueVars
<1>5. CASE Showing # Nothing
  BY <1>1, <1>2, <1>3, <1>5 DEF Queue!QueueNext, Queue!Shown
<1> QED BY <1>4, <1>5

\* Room is made for a frame by the loss of the oldest one.
LEMMA AcceptsDrops ==
  ASSUME TypeInv, SinkInv, TypeInv', SinkInv', Accepts
  PROVE  [Queue!QueueNext]_(Queue!queueVars)
<1>t. /\ ring.first \in 0 .. SinkSize - 1 /\ ring.used \in 0 .. SinkSize
      /\ SinkSize \in Nat /\ SinkSize >= 2 /\ buffers' = buffers
  BY PlayerAssumption DEF TypeInv, RingType, SinkInv, Accepts
<1>1. CASE /\ ring.used >= SinkSize /\ ring.drop
           /\ ring' = [ring EXCEPT !.first = (@ + 1) % SinkSize, !.used = @ - 1,
                                   !.write = (ring.first + ring.used) % SinkSize]
  <2>1. /\ ring'.frames = ring.frames /\ ring'.first = (ring.first + 1) % SinkSize
        /\ ring'.used = ring.used - 1 /\ ring'.current = ring.current
        /\ ring'.drop = ring.drop
    BY <1>1 DEF TypeInv, RingType
  <2>2. ring.used = SinkSize /\ Len(Waiting) = ring.used
    BY <1>1, <1>t, WaitingIs DEF WaitingFacts
  <2>3. Waiting' = Tail(Waiting)
    BY <1>t, <2>1, <2>2, TailLeft
  <2>4. Showing' = Showing
    BY <1>t, <2>1 DEF Showing
  <2>5. Queue!Drop
    BY <1>1, <2>1, <2>2, <2>3, <2>4 DEF Queue!Drop
  <2> QED BY <2>5 DEF Queue!QueueNext
<1>2. CASE \/ ring' = ring
           \/ ring' = [ring EXCEPT !.write = (ring.first + ring.used) % SinkSize]
  <2>1. /\ ring'.frames = ring.frames /\ ring'.first = ring.first
        /\ ring'.used = ring.used /\ ring'.current = ring.current
        /\ ring'.drop = ring.drop
    BY <1>2 DEF TypeInv, RingType
  <2> QED BY <1>t, <2>1, QueueStays
<1> QED BY <1>1, <1>2 DEF Accepts

\* No other step is seen in the queue.
LEMMA OthersUnseen ==
  ASSUME [PlayerNext]_vars, ~Accepts, ~Sends, ~Completes, ~ShowerTakes,
         ~ShowerGivesBack
  PROVE  UNCHANGED Queue!queueVars
<1>1. ring' = ring /\ buffers' = buffers
  <2>1. CASE Reader
    BY <2>1 DEF Reader, ReaderTests, ReaderIsFull, ReaderChooses, ReaderSeekFails,
       ReaderClears, ReaderReads, ReaderFails, ReaderDone, OutsideReader, sinkVars
  <2>2. CASE User
    BY <2>2 DEF User, UserToggles, UserSeeks, sinkVars
  <2>3. CASE PlayerSteps
    BY <2>3 DEF PlayerSteps, PlayerDecides, SeekTries, SeekFails, ReadTries,
       ReadFails, Taken, Cancels, Updates, OutsideCall, sinkVars
  <2>4. CASE TimesOut \/ Close
    BY <2>4 DEF TimesOut, Close, CloseBegins, CloseWakes, Closed, OutsideClose,
       sinkVars
  <2>5. CASE Shower
    BY <2>5 DEF Shower, ShowerTests, ShowerSleeps
  <2>6. CASE UNCHANGED vars
    BY <2>6 DEF vars, sinkVars
  <2> QED BY <2>1, <2>2, <2>3, <2>4, <2>5, <2>6 DEF PlayerNext
<1> QED BY <1>1, QueueStays

(***************************************************************************)
(* The buffered sink implements the queue of FrameQueue, for every size of *)
(* the sink and in both drop modes, until a frame of the source is cleared *)
(* while it is being taken (buffered_media_sink.c, read_thread and the     *)
(* functions of the stream's listener).                                    *)
(***************************************************************************)
THEOREM SinkImplementsQueue == PlayerSpec => SinkIsQueue
<1>1. PlayerInit => Queue!QueueInit
  <2> SUFFICES ASSUME PlayerInit PROVE Queue!QueueInit
    OBVIOUS
  <2>1. ring.used = 0 /\ ring.current = None /\ ring.drop \in BOOLEAN
    BY PlayerAssumption DEF PlayerInit
  <2>2. Waiting = <<>>
    BY <2>1 DEF Waiting
  <2>3. Showing = Nothing
    BY <2>1 DEF Showing
  <2> QED BY <2>1, <2>2, <2>3 DEF Queue!QueueInit
<1>2. PlayerInv /\ PlayerInv' /\ [PlayerNext]_vars =>
        [Queue!QueueNext \/ raced']_(Queue!queueVars)
  <2> SUFFICES ASSUME PlayerInv, PlayerInv', [PlayerNext]_vars, ~raced'
               PROVE  [Queue!QueueNext]_(Queue!queueVars)
    OBVIOUS
  <2>1. TypeInv /\ SinkInv /\ TypeInv' /\ SinkInv'
    BY RacedForGood DEF PlayerInv
  <2>2. CASE Accepts
    BY <2>1, <2>2, AcceptsDrops
  <2>3. CASE Sends
    BY <2>1, <2>3, SendsUnseen
  <2>4. CASE Completes
    BY <2>1, <2>4, CompletesPuts DEF Queue!QueueNext
  <2>5. CASE ShowerTakes
    BY <2>1, <2>5, TakesShows
  <2>6. CASE ShowerGivesBack
    BY <2>1, <2>6, GivesBackShown
  <2> QED BY <2>2, <2>3, <2>4, <2>5, <2>6, OthersUnseen
<1> QED BY <1>1, <1>2, PlayerInvAlways, PTL DEF PlayerSpec, SinkIsQueue

-----------------------------------------------------------------------------
(* Frames and their labels.                                                *)

\* A slot that is ready holds the data of its frame.  What the read thread
\* works on is not ready, and lies before the end of the source.
SlotsInv ==
  /\ \A s \in Slots : frames[s] # None => frames[s] = data[s]
  /\ reader.at = "read" \/ reader.ok => frames[ReaderSlot] = None
  /\ reader.ok => reader.at = "done" /\ data[ReaderSlot] = reader.position
  /\ reader.at \in {"clear", "read"} => ~reader.eof /\ ~IsEOF(reader.position)
  /\ reader.eof => reader.at = "done" /\ ~IsEOF(reader.position)

\* A frame that the client takes is ready until it has been taken
Taking == {"accept", "acceptwait", "send"}
TakenInv == player.at \in Taking /\ ~raced => IsReady(client)

\* The source is where the player goes on without a seek, or beyond its end
\* where nothing can be read
Follows(position) == position = player.last + 1 \/ IsEOF(position)

\* Where the source is, as seen from each place of the player, unless a call
\* timed out or a frame that was sought could not be read
PlaceInv ==
  /\ player.at = "seek" => (waiting.client <=> player.waits > 0)
  /\ player.at = "seekwait" => waiting.client /\ player.waits > 0
  /\ waiting.client => player.at \in {"seek", "seekwait", "read", "readwait"}
  /\ player.at \in {"loop", "cancel", "update"} => Follows(client)
  /\ player.at = "seek" /\ player.waits = 0 => Follows(client)
  /\ player.at = "seek" /\ player.waits > 0 => Follows(player.orig)
  /\ player.at \in {"seekwait", "seekeof", "seekfailed"} => Follows(player.orig)
  /\ player.at = "seekeof" => IsEOF(client)
  /\ player.at \in {"read", "readwait"} => client = player.position \/ IsEOF(client)
  /\ player.at \in {"read", "readwait", "readeof", "readfailed"} /\ ~player.seeks =>
       Follows(client)
  /\ player.at \in Taking \cup {"sent"} => client = player.position
  /\ player.at = "complete" => client = player.position + 1

SyncInv ==
  /\ player.at \in {"seek", "seekwait"} => player.seeks
  /\ ~adrift => PlaceInv

\* What was sent to the sink has its label
LabelsInv == \A b \in Buffers : ~buffers[b].odd => buffers[b].label = buffers[b].data

LabelInv == SlotsInv /\ TakenInv /\ SyncInv /\ (~raced => LabelsInv)

\* The end of the source, once it is known, only comes nearer.
LEMMA EndStays ==
  ASSUME TypeInv, SlotsInv, [PlayerNext]_vars, NEW p \in Nat, IsEOF(p)
  PROVE  IsEOF(p)'
<1>1. eof' = eof \/ (ReaderDone /\ reader.eof /\ eof' = reader.position)
  <2>1. CASE Reader
    BY <2>1 DEF Reader, ReaderTests, ReaderIsFull, ReaderChooses, ReaderSeekFails,
       ReaderClears, ReaderReads, ReaderFails, ReaderDone
  <2>2. CASE User \/ Shower
    BY <2>2 DEF User, UserToggles, UserSeeks, sourceVars, Shower, ShowerTests,
       ShowerTakes, ShowerGivesBack, ShowerSleeps, OutsideShower
  <2>3. CASE PlayerSteps
    BY <2>3 DEF PlayerSteps, PlayerDecides, SeekTries, SeekFails, ReadTries,
       ReadFails, Accepts, Sends, Taken, Completes, Cancels, Updates,
       OutsideCall, sourceVars
  <2>4. CASE TimesOut \/ Close
    BY <2>4 DEF TimesOut, Close, CloseBegins, CloseWakes, Closed, OutsideClose,
       sourceVars
  <2>5. CASE UNCHANGED vars
    BY <2>5 DEF vars, sourceVars
  <2> QED BY <2>1, <2>2, <2>3, <2>4, <2>5 DEF PlayerNext
<1>2. reader.position \in Nat /\ eof \in Nat \cup {-1}
  BY DEF TypeInv, ReaderType, None
<1> QED BY <1>1, <1>2 DEF SlotsInv, IsEOF

\* The slots: only the read thread touches them.
LEMMA SlotsInit == PlayerInit => SlotsInv
  BY DEF PlayerInit, SlotsInv, Idle

LEMMA SlotsStep == TypeInv /\ SlotsInv /\ [PlayerNext]_vars => SlotsInv'
<1> SUFFICES ASSUME TypeInv, SlotsInv, [PlayerNext]_vars PROVE SlotsInv'
  OBVIOUS
<1>t. /\ frames \in [Slots -> Nat \cup {-1}] /\ data \in [Slots -> Nat \cup {-1}]
      /\ ReaderSlot \in Slots /\ reader \in ReaderType
      /\ reader.position \in Nat /\ eof \in Nat \cup {-1}
  <2>1. reader \in ReaderType /\ reader.position \in Nat
    BY DEF TypeInv, ReaderType
  <2> QED BY <2>1, SlotInRange DEF TypeInv, ReaderSlot, None
<1>q. ASSUME UNCHANGED <<frames, data, eof>>,
             \/ reader' = reader
             \/ /\ reader'.position = reader.position
                /\ reader'.ok = reader.ok /\ reader'.eof = reader.eof
                /\ reader.at \notin {"clear", "read", "done"}
                /\ reader'.at \notin {"clear", "read", "done"}
      PROVE  SlotsInv'
  <2>1. CASE reader' = reader
    BY <1>q, <2>1 DEF SlotsInv, ReaderSlot, IsEOF, SlotOf
  <2>2. CASE reader' # reader
    <3>1. ~reader.ok /\ ~reader.eof
      BY <1>q, <2>2 DEF SlotsInv
    <3> QED BY <1>q, <2>2, <3>1 DEF SlotsInv, ReaderSlot, IsEOF, SlotOf
  <2> QED BY <2>1, <2>2
<1>w. /\ \/ WakeReader = reader
         \/ /\ WakeReader.position = reader.position
            /\ WakeReader.ok = reader.ok /\ WakeReader.eof = reader.eof
            /\ reader.at \notin {"clear", "read", "done"}
            /\ WakeReader.at \notin {"clear", "read", "done"}
  BY <1>t DEF WakeReader, ReaderType
<1>1. CASE ReaderTests \/ ReaderIsFull
  BY <1>1, <1>t, <1>q DEF ReaderTests, ReaderIsFull, ReaderType
<1>2. CASE ReaderChooses
  <2> DEFINE position == IF IsReady(client) THEN last + 1 ELSE client
  <2>1. /\ reader'.at \in {"done", "clear"} /\ ~reader'.ok /\ ~reader'.eof
        /\ reader'.at = "clear" => ~IsEOF(reader'.position)
        /\ UNCHANGED <<frames, data, eof>>
    BY <1>2 DEF ReaderChooses
  <2> QED BY <2>1 DEF SlotsInv, IsEOF
<1>3. CASE ReaderSeekFails
  <2>1. /\ reader'.at = "done" /\ reader'.ok = reader.ok
        /\ reader'.eof = reader.eof /\ reader.at = "clear"
        /\ UNCHANGED <<frames, data, eof>>
    BY <1>3, <1>t DEF ReaderSeekFails, ReaderType
  <2>2. ~reader.ok /\ ~reader.eof
    BY <2>1 DEF SlotsInv
  <2> QED BY <2>1, <2>2 DEF SlotsInv, IsEOF
<1>4. CASE ReaderClears
  <2>1. /\ reader'.at = "read" /\ reader'.position = reader.position
        /\ reader'.ok = reader.ok /\ reader'.eof = reader.eof
        /\ reader.at = "clear" /\ UNCHANGED eof
        /\ frames' = [frames EXCEPT ![ReaderSlot] = None]
        /\ data' = [data EXCEPT ![ReaderSlot] = None]
    BY <1>4, <1>t DEF ReaderClears, ReaderType
  <2>2. ~reader.ok /\ ~reader.eof /\ ~IsEOF(reader.position)
    BY <2>1 DEF SlotsInv
  <2>3. ReaderSlot' = ReaderSlot /\ ~IsEOF(reader.position)'
    BY <2>1, <2>2 DEF ReaderSlot, SlotOf, IsEOF
  <2>4. /\ \A s \in Slots : frames'[s] # None => frames'[s] = data'[s]
        /\ frames'[ReaderSlot] = None
    BY <1>t, <2>1 DEF SlotsInv
  <2> QED BY <2>1, <2>2, <2>3, <2>4 DEF SlotsInv
<1>5. CASE ReaderReads
  <2>1. /\ reader'.at = "done" /\ reader'.position = reader.position
        /\ reader'.ok /\ reader'.eof = reader.eof
        /\ reader.at = "read" /\ UNCHANGED <<eof, frames>>
        /\ data' = [data EXCEPT ![ReaderSlot] = reader.position]
    BY <1>5, <1>t DEF ReaderReads, OutsideReader, ReaderType
  <2>2. ~reader.eof /\ frames[ReaderSlot] = None
    BY <2>1 DEF SlotsInv
  <2>3. ReaderSlot' = ReaderSlot
    BY <2>1 DEF ReaderSlot, SlotOf
  <2>4. /\ \A s \in Slots : frames'[s] # None => frames'[s] = data'[s]
        /\ data'[ReaderSlot] = reader.position
    BY <1>t, <2>1, <2>2 DEF SlotsInv
  <2> QED BY <2>1, <2>2, <2>3, <2>4 DEF SlotsInv
<1>6. CASE ReaderFails
  <2>1. /\ reader'.at = "done" /\ reader'.position = reader.position
        /\ reader'.ok = reader.ok /\ reader.at = "read"
        /\ UNCHANGED <<eof, frames, data>>
    BY <1>6, <1>t DEF ReaderFails, OutsideReader, ReaderType
  <2>2. ~reader.ok /\ ~IsEOF(reader.position)
    BY <2>1 DEF SlotsInv
  <2>3. ~IsEOF(reader.position)'
    BY <2>1, <2>2 DEF IsEOF
  <2> QED BY <2>1, <2>2, <2>3 DEF SlotsInv
<1>7. CASE ReaderDone
  <2>1. /\ reader'.at = "test" /\ ~reader'.ok /\ ~reader'.eof /\ UNCHANGED data
        /\ IF reader.ok THEN frames' = [frames EXCEPT ![ReaderSlot] = reader.position]
           ELSE UNCHANGED frames
    BY <1>7 DEF ReaderDone, Idle
  <2>2. \A s \in Slots : frames'[s] # None => frames'[s] = data'[s]
    BY <1>t, <2>1 DEF SlotsInv
  <2> QED BY <2>1, <2>2 DEF SlotsInv
<1>8. CASE User \/ Shower
  BY <1>8, <1>q DEF User, UserToggles, UserSeeks, sourceVars, Shower, ShowerTests,
     ShowerTakes, ShowerGivesBack, ShowerSleeps, OutsideShower
<1>9. CASE PlayerDecides \/ SeekFails \/ ReadFails \/ Accepts \/ Sends
           \/ Completes \/ Cancels \/ Updates \/ TimesOut
  BY <1>9, <1>q DEF PlayerDecides, SeekFails, ReadFails, Accepts, Sends,
     Completes, Cancels, Updates, TimesOut, sourceVars
<1>10. CASE SeekTries \/ ReadTries \/ Taken \/ Close
  <2>1. (reader' = reader \/ reader' = WakeReader) /\ UNCHANGED <<frames, data, eof>>
    BY <1>10 DEF SeekTries, ReadTries, WaitsForFrame, OutsideCall, Taken, Close,
       CloseBegins, CloseWakes, Closed, OutsideClose
  <2> QED BY <1>q, <1>w, <2>1
<1>11. CASE UNCHANGED vars
  BY <1>11, <1>q DEF vars, sourceVars
<1> QED BY <1>1, <1>2, <1>3, <1>4, <1>5, <1>6, <1>7, <1>8, <1>9, <1>10, <1>11
     DEF PlayerNext, Reader, PlayerSteps

\* The frame that is being taken stays ready, or the race is on record.
LEMMA TakenInit == PlayerInit => TakenInv
  BY DEF PlayerInit, TakenInv, Taking, InLoop

LEMMA TakenStep ==
  TypeInv /\ SlotsInv /\ TakenInv /\ [PlayerNext]_vars => TakenInv'
<1> SUFFICES ASSUME TypeInv, SlotsInv, TakenInv, [PlayerNext]_vars PROVE TakenInv'
  OBVIOUS
<1>t. /\ frames \in [Slots -> Nat \cup {-1}] /\ player \in PlayerType
      /\ ReaderSlot \in Slots /\ reader \in ReaderType
      /\ reader.position \in Nat /\ client \in Nat
  <2>1. reader \in ReaderType /\ reader.position \in Nat
    BY DEF TypeInv, ReaderType
  <2> QED BY <2>1, SlotInRange DEF TypeInv, ReaderSlot, None
<1>q. ASSUME UNCHANGED <<frames, client>>, raced => raced',
             player'.at \in Taking => player.at \in Taking
      PROVE  TakenInv'
  BY <1>q DEF TakenInv, IsReady, SlotOf
<1>g. \A place \in Places : [player EXCEPT !.at = place].at = place
  BY <1>t DEF PlayerType
<1>w. [player EXCEPT !.at = Woken].at \in Taking => player.at \in Taking
  BY <1>t DEF PlayerType, Woken, Taking
<1>1. CASE ReaderTests \/ ReaderChooses \/ ReaderSeekFails \/ ReaderReads \/ ReaderFails
  BY <1>1, <1>q DEF ReaderTests, ReaderChooses, ReaderSeekFails, ReaderReads,
     ReaderFails, OutsideReader
<1>2. CASE ReaderIsFull
  BY <1>2, <1>q, <1>w DEF ReaderIsFull, OutsideReader
<1>3. CASE ReaderClears
  <2> SUFFICES ASSUME player'.at \in Taking, ~raced' PROVE IsReady(client)'
    BY DEF TakenInv
  <2>1. /\ player' = player /\ client' = client
        /\ frames' = [frames EXCEPT ![ReaderSlot] = None]
        /\ ~raced /\ ReaderSlot # SlotOf(client)
    BY <1>3 DEF ReaderClears, OutsideReader, Taking
  <2>2. IsReady(client)
    BY <2>1 DEF TakenInv
  <2> QED BY <1>t, <2>1, <2>2, SlotInRange DEF IsReady, SlotOf
<1>4. CASE ReaderDone
  <2> SUFFICES ASSUME player'.at \in Taking, ~raced' PROVE IsReady(client)'
    BY DEF TakenInv
  <2>1. /\ player.at \in Taking /\ ~raced /\ client' = client
        /\ IF reader.ok THEN frames' = [frames EXCEPT ![ReaderSlot] = reader.position]
           ELSE UNCHANGED frames
    BY <1>4, <1>w DEF ReaderDone, OutsideReader
  <2>2. IsReady(client) /\ frames[SlotOf(client)] = client
    BY <2>1 DEF TakenInv, IsReady
  <2>3. reader.ok => ReaderSlot # SlotOf(client)
    BY <1>t, <2>2 DEF SlotsInv, None
  <2>4. frames'[SlotOf(client)] = frames[SlotOf(client)]
    BY <1>t, <2>1, <2>3, SlotInRange
  <2> QED BY <2>1, <2>2, <2>4 DEF IsReady, SlotOf
<1>5. CASE User
  BY <1>5, <1>q DEF User, UserToggles, UserSeeks, sourceVars
<1>6. CASE PlayerDecides \/ SeekTries \/ SeekFails \/ TimesOut \/ Updates
  <2>1. player'.at \notin Taking
    <3>1. CASE PlayerDecides
      BY <1>t, <3>1 DEF PlayerDecides, PlayerType, Taking
    <3>2. CASE SeekTries
      BY <1>t, <3>2 DEF SeekTries, PlayerType, Taking
    <3>3. CASE SeekFails \/ Updates
      <4>1. player' = [player EXCEPT !.at = "update"] \/ player'.at = "loop"
        BY <3>3 DEF SeekFails, Updates, Goes, InLoop
      <4> QED BY <1>t, <4>1 DEF PlayerType, Taking
    <3>4. CASE TimesOut
      BY <1>t, <3>4 DEF TimesOut, Goes, PlayerType, Taking
    <3> QED BY <1>6, <3>1, <3>2, <3>3, <3>4
  <2> QED BY <2>1 DEF TakenInv
<1>7. CASE ReadTries
  <2>1. player'.at \in Taking => IsReady(client)
    BY <1>7, <1>t, <1>g DEF ReadTries, WaitsForFrame, Goes, Taking, Places, PlayerType
  <2>2. UNCHANGED <<frames, client>>
    BY <1>7 DEF ReadTries, OutsideCall
  <2> QED BY <2>1, <2>2 DEF TakenInv, IsReady, SlotOf
<1>8. CASE ReadFails \/ Taken \/ Completes \/ Cancels \/ Close
  <2>1. player'.at \notin Taking
    <3>1. CASE ReadFails
      <4>1. player' = [player EXCEPT !.at = "cancel"]
            \/ player' = [player EXCEPT !.at = "cancel", !.refresh = player.play]
        BY <3>1 DEF ReadFails, Goes
      <4> QED BY <1>t, <4>1 DEF PlayerType, Taking
    <3>2. CASE Completes
      BY <1>t, <3>2 DEF Completes, PlayerType, Taking
    <3>3. CASE Taken \/ Cancels \/ Close
      BY <1>g, <3>3 DEF Taken, Cancels, Close, CloseBegins, CloseWakes, Closed,
         Goes, Taking, Places
    <3> QED BY <1>8, <3>1, <3>2, <3>3
  <2> QED BY <2>1 DEF TakenInv
<1>9. CASE Accepts \/ Sends
  <2>1. player.at \in Taking /\ UNCHANGED <<frames, client, raced>>
    BY <1>9 DEF Accepts, Sends, sourceVars, history, Taking
  <2> QED BY <1>q, <2>1
<1>10. CASE Shower
  <2>1. UNCHANGED <<frames, client, raced>>
    BY <1>10 DEF Shower, ShowerTests, ShowerTakes, ShowerGivesBack, ShowerSleeps,
       OutsideShower, sourceVars
  <2>2. player' = player \/ player.at = "acceptwait"
    BY <1>10 DEF Shower, ShowerTests, ShowerTakes, ShowerGivesBack, ShowerSleeps
  <2> QED BY <1>q, <2>1, <2>2 DEF Taking
<1>11. CASE UNCHANGED vars
  BY <1>11, <1>q DEF vars, sourceVars, playerVars, history
<1> QED BY <1>1, <1>2, <1>3, <1>4, <1>5, <1>6, <1>7, <1>8, <1>9, <1>10, <1>11
     DEF PlayerNext, Reader, PlayerSteps

\* What is sent is the frame of its label.
LEMMA LabelsInit == PlayerInit => LabelsInv
  BY DEF PlayerInit, LabelsInv, Nothing

LEMMA LabelsStep ==
  /\ TypeInv /\ SlotsInv /\ TakenInv /\ SyncInv
  /\ ~raced => LabelsInv
  /\ [PlayerNext]_vars
  /\ ~raced'
  => LabelsInv'
<1> SUFFICES ASSUME TypeInv, SlotsInv, TakenInv, SyncInv, ~raced => LabelsInv,
                    [PlayerNext]_vars, ~raced'
             PROVE  LabelsInv'
  OBVIOUS
<1>1. ~raced /\ LabelsInv
  BY RacedForGood DEF TypeInv
<1>2. CASE Sends
  <2>1. /\ player.at = "send"
        /\ buffers' = [buffers EXCEPT ![ring.frames[ring.write]] =
             [label |-> player.position, odd |-> adrift, data |-> data[SlotOf(client)]]]
    BY <1>1, <1>2 DEF Sends
  <2>2. ~adrift => client = player.position
    BY <2>1 DEF SyncInv, PlaceInv, Taking
  <2>3. frames[SlotOf(client)] = client /\ client # None /\ SlotOf(client) \in Slots
    <3>1. IsReady(client)
      BY <1>1, <2>1 DEF TakenInv, Taking
    <3>2. client \in Nat
      BY DEF TypeInv
    <3> QED BY <3>1, <3>2, SlotInRange DEF IsReady, None
  <2>4. data[SlotOf(client)] = client
    BY <2>3 DEF SlotsInv
  <2>5. buffers \in [Buffers -> Frames]
    BY DEF TypeInv
  <2> DEFINE sent == [label |-> player.position, odd |-> adrift,
                      data |-> data[SlotOf(client)]]
  <2>6. ~sent.odd => sent.label = sent.data
    BY <2>2, <2>4
  <2> HIDE DEF sent
  <2>7. \A b \in Buffers : buffers'[b] = buffers[b] \/ buffers'[b] = sent
    BY <2>1, <2>5 DEF sent
  <2> QED BY <1>1, <2>6, <2>7 DEF LabelsInv
<1>3. CASE ~Sends
  <2>1. UNCHANGED buffers
    <3>1. CASE Reader \/ User
      BY <3>1 DEF Reader, ReaderTests, ReaderIsFull, ReaderChooses, ReaderSeekFails,
         ReaderClears, ReaderReads, ReaderFails, ReaderDone, OutsideReader, User,
         UserToggles, UserSeeks, sinkVars
    <3>2. CASE PlayerSteps
      BY <1>3, <3>2 DEF PlayerSteps, PlayerDecides, SeekTries, SeekFails, ReadTries,
         ReadFails, Accepts, Taken, Completes, Cancels, Updates, OutsideCall, sinkVars
    <3>3. CASE TimesOut \/ Close
      BY <3>3 DEF TimesOut, Close, CloseBegins, CloseWakes, Closed, OutsideClose,
         sinkVars
    <3>4. CASE Shower
      BY <3>4 DEF Shower, ShowerTests, ShowerTakes, ShowerGivesBack, ShowerSleeps
    <3>5. CASE UNCHANGED vars
      BY <3>5 DEF vars, sinkVars
    <3> QED BY <3>1, <3>2, <3>3, <3>4, <3>5 DEF PlayerNext
  <2> QED BY <1>1, <2>1 DEF LabelsInv
<1> QED BY <1>2, <1>3

\* Where the source is: from the first frame on, the player and the source
\* go on together.
LEMMA SyncInit == PlayerInit => SyncInv
  BY DEF PlayerInit, SyncInv, PlaceInv, InLoop, Taking, Follows

\* A step that leaves the locals of the player and the place of the source
\* alone, and at most wakes the player, keeps them together.
LEMMA SyncQuiet ==
  ASSUME TypeInv, SlotsInv, SyncInv, [PlayerNext]_vars,
         UNCHANGED <<client, adrift>>, waiting'.client = waiting.client,
         \/ player' = player
         \/ waiting.client /\ player' = [player EXCEPT !.at = Woken]
         \/ player.at = "acceptwait" /\ player' = [player EXCEPT !.at = "accept"]
  PROVE  SyncInv'
<1>t. player \in PlayerType
  BY DEF TypeInv
<1>1. /\ player'.last = player.last /\ player'.position = player.position
      /\ player'.seeks = player.seeks /\ player'.waits = player.waits
      /\ player'.orig = player.orig
  BY <1>t DEF PlayerType
<1>2. \/ player'.at = player.at
      \/ waiting.client /\ player.at = "seekwait" /\ player'.at = "seek"
      \/ waiting.client /\ player.at = "readwait" /\ player'.at = "read"
      \/ player.at = "acceptwait" /\ player'.at = "accept"
  BY <1>t DEF PlayerType, Woken
<1>3. \A p \in Nat : Follows(p) => Follows(p)'
  <2> TAKE p \in Nat
  <2>1. IsEOF(p) => IsEOF(p)'
    BY EndStays
  <2> QED BY <1>1, <2>1 DEF Follows
<1>4. IsEOF(client) => IsEOF(client)'
  <2>1. client \in Nat /\ client' = client
    BY DEF TypeInv
  <2>2. IsEOF(client) => eof' >= 0 /\ client >= eof'
    BY <2>1, EndStays DEF IsEOF
  <2> QED BY <2>1, <2>2 DEF IsEOF
<1>5. /\ Follows(client) => Follows(client)'
      /\ Follows(player.orig) => Follows(player.orig)'
  <2>1. client \in Nat /\ client' = client /\ player.orig \in Nat
    BY <1>t DEF TypeInv, PlayerType
  <2> QED BY <1>1, <1>3, <2>1 DEF Follows, IsEOF
<1>6. (player.at \in {"seek", "seekwait"} => player.seeks)'
  BY <1>1, <1>2 DEF SyncInv
<1>7. ASSUME ~adrift PROVE PlaceInv'
  <2>1. PlaceInv
    BY <1>7 DEF SyncInv
  <2>2. CASE player'.at = player.at
    BY <1>1, <1>4, <1>5, <2>1, <2>2 DEF PlaceInv, Taking
  <2>3. CASE waiting.client /\ player.at = "seekwait" /\ player'.at = "seek"
    BY <1>1, <1>4, <1>5, <2>1, <2>3 DEF PlaceInv, Taking
  <2>4. CASE waiting.client /\ player.at = "readwait" /\ player'.at = "read"
    BY <1>1, <1>4, <1>5, <2>1, <2>4 DEF PlaceInv, Taking
  <2>5. CASE player.at = "acceptwait" /\ player'.at = "accept"
    BY <1>1, <1>4, <1>5, <2>1, <2>5 DEF PlaceInv, Taking
  <2> QED BY <1>2, <2>2, <2>3, <2>4, <2>5
<1> QED BY <1>6, <1>7 DEF SyncInv

\* Every step of the player keeps them together, until a call times out or a
\* frame that was sought cannot be read.
LEMMA SyncStep == TypeInv /\ SlotsInv /\ SyncInv /\ [PlayerNext]_vars => SyncInv'
<1> SUFFICES ASSUME TypeInv, SlotsInv, SyncInv, [PlayerNext]_vars PROVE SyncInv'
  OBVIOUS
<1>t. /\ player \in PlayerType /\ client \in Nat /\ eof \in Nat \cup {-1}
      /\ waiting \in [reader : BOOLEAN, client : BOOLEAN] /\ adrift \in BOOLEAN
  BY DEF TypeInv, None
<1>g. \A place \in Places :
        LET to == [player EXCEPT !.at = place]
        IN  /\ to.at = place /\ to.last = player.last
            /\ to.position = player.position /\ to.seeks = player.seeks
            /\ to.waits = player.waits /\ to.orig = player.orig
  BY <1>t DEF PlayerType
<1>1. CASE Reader
  <2>1. UNCHANGED <<client, adrift>> /\ waiting'.client = waiting.client
    BY <1>1, <1>t DEF Reader, ReaderTests, ReaderIsFull, ReaderChooses,
       ReaderSeekFails, ReaderClears, ReaderReads, ReaderFails, ReaderDone,
       OutsideReader
  <2>2. \/ player' = player
        \/ waiting.client /\ player' = [player EXCEPT !.at = Woken]
    BY <1>1 DEF Reader, ReaderTests, ReaderIsFull, ReaderChooses,
       ReaderSeekFails, ReaderClears, ReaderReads, ReaderFails, ReaderDone
  <2> QED BY <2>1, <2>2, SyncQuiet
<1>2. CASE User \/ Shower \/ UNCHANGED vars
  <2>1. UNCHANGED <<client, adrift, waiting>>
    BY <1>2 DEF User, UserToggles, UserSeeks, Shower, ShowerTests, ShowerTakes,
       ShowerGivesBack, ShowerSleeps, OutsideShower, vars, history
  <2>2. \/ player' = player
        \/ player.at = "acceptwait" /\ player' = [player EXCEPT !.at = "accept"]
    BY <1>2 DEF User, UserToggles, UserSeeks, Shower, ShowerTests, ShowerTakes,
       ShowerGivesBack, ShowerSleeps, vars, playerVars
  <2> QED BY <2>1, <2>2, SyncQuiet
<1>3. CASE PlayerDecides
  <2>1. /\ player.at = "loop" /\ UNCHANGED <<client, adrift, waiting, eof>>
    BY <1>3 DEF PlayerDecides, sourceVars, history
  <2>2. /\ player'.at = IF Position = player.last + 1 THEN "read" ELSE "seek"
        /\ player'.seeks = (Position # player.last + 1)
        /\ player'.position = Position /\ player'.waits = 0
        /\ player'.last = player.last
    BY <1>3, <1>t DEF PlayerDecides, PlayerType
  <2>3. ASSUME ~adrift PROVE PlaceInv'
    <3>1. ~waiting.client /\ Follows(client)
      BY <2>1, <2>3 DEF SyncInv, PlaceInv
    <3>2. Follows(client)'
      BY <2>1, <2>2, <3>1 DEF Follows, IsEOF
    <3>3. CASE Position = player.last + 1
      <4>1. client = Position \/ IsEOF(client)'
        BY <2>1, <3>1, <3>3 DEF Follows, IsEOF
      <4> QED BY <2>1, <2>2, <3>1, <3>2, <3>3, <4>1 DEF PlaceInv, Taking
    <3>4. CASE Position # player.last + 1
      BY <2>1, <2>2, <3>1, <3>2, <3>4 DEF PlaceInv, Taking
    <3> QED BY <3>3, <3>4
  <2> QED BY <2>1, <2>2, <2>3 DEF SyncInv
<1>4. CASE SeekTries
  <2> DEFINE orig == IF waiting.client THEN player.orig ELSE client
  <2>1. player.at = "seek" /\ client' = player.position /\ UNCHANGED eof
        /\ player.seeks /\ player.waits \in 0 .. 2
    BY <1>4, <1>t DEF SeekTries, OutsideCall, SyncInv, PlayerType
  <2>2. \/ /\ IsEOF(player.position) /\ UNCHANGED adrift
           /\ player' = [player EXCEPT !.at = "seekeof", !.orig = orig]
           /\ waiting' = [waiting EXCEPT !.client = FALSE]
        \/ /\ player' = [player EXCEPT !.at = "read", !.waits = 0]
           /\ waiting' = [waiting EXCEPT !.client = FALSE]
        \/ /\ player' = [player EXCEPT !.at = "seekwait", !.orig = orig,
                                       !.waits = @ + 1]
           /\ waiting' = [waiting EXCEPT !.client = TRUE] /\ UNCHANGED adrift
        \/ /\ player' = [player EXCEPT !.at = "seekfailed", !.orig = orig]
           /\ waiting' = [waiting EXCEPT !.client = FALSE] /\ UNCHANGED adrift
    BY <1>4 DEF SeekTries, WaitsForFrame
  <2>3. ~adrift => Follows(orig)
    BY <2>1 DEF SyncInv, PlaceInv
  <2> HIDE DEF orig
  <2>4. CASE /\ IsEOF(player.position) /\ UNCHANGED adrift
             /\ player' = [player EXCEPT !.at = "seekeof", !.orig = orig]
             /\ waiting' = [waiting EXCEPT !.client = FALSE]
    <3>1. /\ player'.at = "seekeof" /\ player'.orig = orig
          /\ player'.last = player.last /\ ~waiting'.client /\ IsEOF(client)'
      BY <1>t, <2>1, <2>4 DEF PlayerType, IsEOF
    <3>2. ~adrift => Follows(player.orig)'
      BY <2>1, <2>3, <3>1 DEF Follows, IsEOF
    <3> QED BY <2>4, <3>1, <3>2 DEF SyncInv, PlaceInv, Taking
  <2>5. CASE /\ player' = [player EXCEPT !.at = "read", !.waits = 0]
             /\ waiting' = [waiting EXCEPT !.client = FALSE]
    <3>1. /\ player'.at = "read" /\ player'.seeks
          /\ player'.position = player.position /\ ~waiting'.client
      BY <1>t, <2>1, <2>5 DEF PlayerType
    <3> QED BY <2>1, <3>1 DEF SyncInv, PlaceInv, Taking
  <2>6. CASE /\ player' = [player EXCEPT !.at = "seekwait", !.orig = orig,
                                         !.waits = @ + 1]
             /\ waiting' = [waiting EXCEPT !.client = TRUE] /\ UNCHANGED adrift
    <3>1. /\ player'.at = "seekwait" /\ player'.orig = orig /\ player'.seeks
          /\ player'.last = player.last /\ waiting'.client
          /\ player'.waits > 0
      BY <1>t, <2>1, <2>6 DEF PlayerType
    <3>2. ~adrift => Follows(player.orig)'
      BY <2>1, <2>3, <3>1 DEF Follows, IsEOF
    <3> QED BY <2>6, <3>1, <3>2 DEF SyncInv, PlaceInv, Taking
  <2>7. CASE /\ player' = [player EXCEPT !.at = "seekfailed", !.orig = orig]
             /\ waiting' = [waiting EXCEPT !.client = FALSE] /\ UNCHANGED adrift
    <3>1. /\ player'.at = "seekfailed" /\ player'.orig = orig
          /\ player'.last = player.last /\ ~waiting'.client
      BY <1>t, <2>1, <2>7 DEF PlayerType
    <3>2. ~adrift => Follows(player.orig)'
      BY <2>1, <2>3, <3>1 DEF Follows, IsEOF
    <3> QED BY <2>7, <3>1, <3>2 DEF SyncInv, PlaceInv, Taking
  <2> QED BY <2>2, <2>4, <2>5, <2>6, <2>7
<1>5. CASE SeekFails
  <2>1. /\ player.at \in {"seekeof", "seekfailed"} /\ UNCHANGED <<eof, waiting, adrift>>
        /\ client' = IF player.at = "seekfailed" \/ client > eof
                     THEN player.orig ELSE client
        /\ player' = [player EXCEPT !.at = "update"]
    BY <1>5 DEF SeekFails, Goes, sourceVars, history
  <2>2. player'.at = "update" /\ player'.last = player.last
    BY <1>t, <2>1 DEF PlayerType
  <2>3. ASSUME ~adrift PROVE PlaceInv'
    <3>1. ~waiting.client /\ Follows(client')
      BY <2>1, <2>3 DEF SyncInv, PlaceInv, Follows
    <3>2. Follows(client)'
      BY <2>1, <2>2, <3>1 DEF Follows, IsEOF
    <3> QED BY <2>1, <2>2, <3>1, <3>2 DEF PlaceInv, Taking
  <2> QED BY <2>1, <2>2, <2>3 DEF SyncInv
<1>6. CASE ReadTries
  <2>1. player.at = "read" /\ UNCHANGED <<client, eof, adrift>>
    BY <1>6 DEF ReadTries, WaitsForFrame, OutsideCall
  <2>2. /\ player'.last = player.last /\ player'.position = player.position
        /\ player'.seeks = player.seeks
        /\ \/ player'.at \in {"readeof", "readfailed"} /\ ~waiting'.client
           \/ player'.at = "accept" /\ ~waiting'.client /\ ~IsEOF(client)
           \/ player'.at = "readwait"
    BY <1>6, <1>t DEF ReadTries, WaitsForFrame, Goes, PlayerType
  <2>3. ASSUME ~adrift PROVE PlaceInv'
    <3>1. /\ client = player.position \/ IsEOF(client)
          /\ ~player.seeks => Follows(client)
      BY <2>1, <2>3 DEF SyncInv, PlaceInv
    <3>2. /\ IsEOF(client)' <=> IsEOF(client)
          /\ Follows(client)' <=> Follows(client)
      BY <2>1, <2>2 DEF Follows, IsEOF
    <3> QED BY <2>1, <2>2, <3>1, <3>2 DEF PlaceInv, Taking
  <2> QED BY <2>1, <2>2, <2>3 DEF SyncInv
<1>7. CASE ReadFails
  <2>1. /\ player.at \in {"readeof", "readfailed"} /\ UNCHANGED <<client, eof, waiting>>
        /\ adrift' = (adrift \/ player.seeks)
    BY <1>7 DEF ReadFails, sourceVars
  <2>2. player'.at = "cancel" /\ player'.last = player.last
    <3>1. player' = [player EXCEPT !.at = "cancel"]
          \/ player' = [player EXCEPT !.at = "cancel", !.refresh = player.play]
      BY <1>7 DEF ReadFails, Goes
    <3> QED BY <1>t, <3>1 DEF PlayerType
  <2>3. ASSUME ~adrift' PROVE PlaceInv'
    <3>1. ~waiting.client /\ Follows(client)
      BY <2>1, <2>3 DEF SyncInv, PlaceInv
    <3>2. Follows(client)'
      BY <2>1, <2>2, <3>1 DEF Follows, IsEOF
    <3> QED BY <2>1, <2>2, <3>1, <3>2 DEF PlaceInv, Taking
  <2> QED BY <2>2, <2>3 DEF SyncInv
<1>8. CASE Accepts \/ Sends
  <2>1. /\ player.at \in {"accept", "send"} /\ UNCHANGED <<client, waiting, eof, adrift>>
        /\ \E place \in {"sent", "send", "acceptwait"} :
             player' = [player EXCEPT !.at = place]
    BY <1>8 DEF Accepts, Sends, Goes, sourceVars, history
  <2>2. /\ player'.at \in {"sent", "send", "acceptwait"}
        /\ player'.position = player.position
    BY <1>g, <2>1 DEF Places
  <2>3. ASSUME ~adrift PROVE PlaceInv'
    <3>1. ~waiting.client /\ client = player.position
      BY <2>1, <2>3 DEF SyncInv, PlaceInv, Taking
    <3> QED BY <2>1, <2>2, <3>1 DEF PlaceInv, Taking
  <2> QED BY <2>1, <2>2, <2>3 DEF SyncInv
<1>9. CASE Taken
  <2>1. /\ player.at = "sent" /\ UNCHANGED <<waiting, eof, adrift>>
        /\ client' = client + 1 /\ player' = [player EXCEPT !.at = "complete"]
    BY <1>9 DEF Taken, Goes
  <2>2. player'.at = "complete" /\ player'.position = player.position
    BY <1>t, <2>1 DEF PlayerType
  <2>3. ASSUME ~adrift PROVE PlaceInv'
    <3>1. ~waiting.client /\ client = player.position
      BY <2>1, <2>3 DEF SyncInv, PlaceInv, Taking
    <3> QED BY <1>t, <2>1, <2>2, <3>1 DEF PlaceInv, Taking
  <2> QED BY <2>1, <2>2, <2>3 DEF SyncInv
<1>10. CASE Completes
  <2>1. /\ player.at = "complete" /\ UNCHANGED <<client, waiting, eof, adrift>>
    BY <1>10 DEF Completes, sourceVars, history
  <2>2. player'.at = "update" /\ player'.last = player.position
    BY <1>10, <1>t DEF Completes, PlayerType
  <2>3. ASSUME ~adrift PROVE PlaceInv'
    <3>1. ~waiting.client /\ client = player.position + 1
      BY <2>1, <2>3 DEF SyncInv, PlaceInv, Taking
    <3>2. Follows(client)'
      BY <2>1, <2>2, <3>1 DEF Follows
    <3> QED BY <2>1, <2>2, <3>1, <3>2 DEF PlaceInv, Taking
  <2> QED BY <2>1, <2>2, <2>3 DEF SyncInv
<1>11. CASE Cancels \/ Updates
  <2>1. /\ player.at \in {"cancel", "update"}
        /\ UNCHANGED <<client, waiting, eof, adrift>>
    BY <1>11 DEF Cancels, Updates, sourceVars, history
  <2>2. player'.at \in {"update", "loop"} /\ player'.last = player.last
    BY <1>11, <1>t DEF Cancels, Updates, Goes, InLoop, PlayerType
  <2>3. ASSUME ~adrift PROVE PlaceInv'
    <3>1. ~waiting.client /\ Follows(client)
      BY <2>1, <2>3 DEF SyncInv, PlaceInv
    <3>2. Follows(client)'
      BY <2>1, <2>2, <3>1 DEF Follows, IsEOF
    <3> QED BY <2>1, <2>2, <3>1, <3>2 DEF PlaceInv, Taking
  <2> QED BY <2>1, <2>2, <2>3 DEF SyncInv
<1>12. CASE TimesOut
  <2>1. adrift' /\ player'.at \in {"update", "cancel"}
    BY <1>12, <1>t DEF TimesOut, Goes, PlayerType
  <2> QED BY <2>1 DEF SyncInv
<1>13. CASE Close
  <2> DEFINE Closing == {"wakesource", "joinsource", "wakesink", "joinsink", "closed"}
  <2>1. /\ player.at \in Closing \cup {"loop"} /\ UNCHANGED <<waiting, adrift>>
        /\ \E place \in Closing : player' = [player EXCEPT !.at = place]
    BY <1>13 DEF Close, CloseBegins, CloseWakes, Closed, Goes, OutsideClose, history
  <2>2. player'.at \in Closing
    BY <1>g, <2>1 DEF Places
  <2>3. ASSUME ~adrift PROVE PlaceInv'
    <3>1. ~waiting.client
      BY <2>1, <2>3 DEF SyncInv, PlaceInv
    <3> QED BY <2>1, <2>2, <3>1 DEF PlaceInv, Taking
  <2> QED BY <2>1, <2>2, <2>3 DEF SyncInv
<1> QED BY <1>1, <1>2, <1>3, <1>4, <1>5, <1>6, <1>7, <1>8, <1>9, <1>10, <1>11,
           <1>12, <1>13 DEF PlayerNext, PlayerSteps

LEMMA LabelInvStep ==
  TypeInv /\ LabelInv /\ [PlayerNext]_vars => LabelInv'
<1>1. TypeInv /\ [PlayerNext]_vars /\ ~raced' => ~raced
  BY RacedForGood DEF TypeInv
<1> QED BY <1>1, SlotsStep, TakenStep, SyncStep, LabelsStep DEF LabelInv

(***************************************************************************)
(* What the sink shows is labelled with the position it has in the source, *)
(* for sources and buffers of any size and any number of requests and      *)
(* failures: bmsrc_seek and bmsrc_read_frame leave clientPosition where    *)
(* the player goes on, unless a call times out or the frame that was       *)
(* sought cannot be read.                                                  *)
(***************************************************************************)
THEOREM LabelsAreTrue == PlayerSpec => []ShownAsLabelled
<1>1. PlayerInit => TypeInv /\ LabelInv
  BY TypeInit, SlotsInit, TakenInit, SyncInit, LabelsInit DEF LabelInv
<1>2. TypeInv /\ LabelInv /\ [PlayerNext]_vars => (TypeInv /\ LabelInv)'
  BY TypeStep, LabelInvStep
<1>3. TypeInv /\ LabelInv => ShownAsLabelled
  <2> SUFFICES ASSUME TypeInv, LabelInv, ~raced, ring.current # None, ~Showing.odd
               PROVE  Showing.label = Showing.data
    BY DEF ShownAsLabelled, Showing
  <2>1. ring.current \in Buffers
    BY DEF TypeInv, RingType
  <2> QED BY <2>1 DEF LabelInv, LabelsInv, Showing
<1> QED BY <1>1, <1>2, <1>3, PTL DEF PlayerSpec
=============================================================================
