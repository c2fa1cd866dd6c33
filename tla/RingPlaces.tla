----------------------------- MODULE RingPlaces -----------------------------
(***************************************************************************)
(* Places in a ring: the frames of the capture rings and the positions of  *)
(* the player's buffers have the place that is their number modulo the     *)
(* number of elements.  The facts about it that the proofs need.           *)
(***************************************************************************)
EXTENDS Integers, TLAPS

\* Two numbers less than a ring apart never have the same place.
LEMMA ModDistinct ==
  ASSUME NEW R \in Nat \ {0}, NEW f \in Int, NEW g \in Int, f < g, g < f + R
  PROVE  f % R # g % R
<1> SUFFICES ASSUME f % R = g % R PROVE FALSE
  OBVIOUS
<1> DEFINE p == f \div R
           q == g \div R
<1>1. p \in Int /\ q \in Int
  OBVIOUS
<1>2. f = R * p + (f % R) /\ g = R * q + (g % R)
  OBVIOUS
<1>3. f % R \in Int /\ g % R \in Int
  OBVIOUS
<1> HIDE DEF p, q
<1>4. g - f = R * q - R * p
  BY <1>1, <1>2, <1>3
<1>5. R * q - R * p = R * (q - p)
  BY <1>1
<1>6. CASE q - p <= 0
  <2>1. R * (q - p) <= 0
    BY <1>6, <1>1
  <2> QED BY <2>1, <1>4, <1>5
<1>7. CASE q - p >= 1
  <2>1. R * (q - p) >= R
    BY <1>7, <1>1
  <2> QED BY <2>1, <1>4, <1>5
<1> QED BY <1>6, <1>7, <1>1

\* Once around the ring, the place of a number is the number, or the number
\* less the size of the ring.
LEMMA ModOnce ==
  ASSUME NEW R \in Nat \ {0}, NEW x \in 0 .. 2 * R - 1
  PROVE  x % R = IF x < R THEN x ELSE x - R
<1> DEFINE q == x \div R
<1>1. q \in Int /\ x = R * q + (x % R) /\ x % R \in 0 .. R - 1
  OBVIOUS
<1> HIDE DEF q
<1>2. CASE q <= -1
  <2>1. R * q <= -R
    BY <1>1, <1>2
  <2> QED BY <1>1, <2>1
<1>3. CASE q = 0
  BY <1>1, <1>3
<1>4. CASE q = 1
  BY <1>1, <1>4
<1>5. CASE q >= 2
  <2>1. R * q >= 2 * R
    BY <1>1, <1>5
  <2> QED BY <1>1, <2>1
<1> QED BY <1>1, <1>2, <1>3, <1>4, <1>5
=============================================================================
