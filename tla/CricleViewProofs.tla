-------------------------- MODULE CricleViewProofs --------------------------
(***************************************************************************)
(* Proofs about the wheel of cells, for every number of cells, every width  *)
(* of a slot and any fingers on it.                                         *)
(*                                                                         *)
(* The arithmetic comes first: what the remainder on the circle does when   *)
(* angles are added.  The invariant then ties the two pictures of the wheel *)
(* (where the cells believe to be, and where they are) to what was last     *)
(* done to it: a wheel that snapped, or that nobody ever turned, stands on  *)
(* the slots of its index.                                                  *)
(***************************************************************************)
EXTENDS CricleView, TLAPS

-----------------------------------------------------------------------------
\* A remainder and its quotient.
LEMMA DivMod ==
    ASSUME NEW n \in Nat \ {0}, NEW a \in Int
    PROVE  /\ a \div n \in Int /\ a % n \in 0 .. n - 1
           /\ a = n * (a \div n) + (a % n)
BY SMT

\* A multiple of a positive number is at least that number.
LEMMA AtLeastOnce ==
    ASSUME NEW n \in Nat \ {0}, NEW k \in Int, k >= 1
    PROVE  n * k >= n
<1>1. n * k - n = n * (k - 1)
  OBVIOUS
<1>2. k - 1 \in Nat /\ n \in Nat
  OBVIOUS
<1>3. n * (k - 1) >= 0
  BY <1>2
<1> QED  BY <1>1, <1>3

\* Two remainders that differ by a multiple are equal.
LEMMA LessThanOnce ==
    ASSUME NEW n \in Nat \ {0}, NEW k \in Int, NEW x \in 0 .. n - 1, NEW y \in 0 .. n - 1,
           n * k = x - y
    PROVE  k = 0
<1>1. ASSUME k >= 1 PROVE FALSE
  BY <1>1, AtLeastOnce
<1>2. ASSUME k <= -1 PROVE FALSE
  <2>1. -k \in Int /\ -k >= 1 /\ n * (-k) = y - x
    BY <1>2
  <2>2. n * (-k) >= n
    BY <2>1, AtLeastOnce
  <2> QED  BY <2>1, <2>2
<1> QED  BY <1>1, <1>2

\* A remainder is the only number of its kind below the divisor.
LEMMA ModUnique ==
    \A n \in Nat \ {0} : \A a, q, r \in Int :
        0 <= r /\ r < n /\ a = n * q + r => a % n = r
<1> SUFFICES ASSUME NEW n \in Nat \ {0}, NEW a \in Int, NEW q \in Int, NEW r \in Int,
                    0 <= r, r < n, a = n * q + r
             PROVE  a % n = r
  OBVIOUS
<1>1. /\ a \div n \in Int /\ a % n \in 0 .. n - 1
      /\ a = n * (a \div n) + (a % n)
  BY DivMod
<1>2. n * (q - (a \div n)) = (a % n) - r /\ q - (a \div n) \in Int
  BY <1>1
<1>3. q - (a \div n) = 0
  BY <1>1, <1>2, LessThanOnce
<1> QED  BY <1>1, <1>3

\* Numbers that differ by a multiple have the same remainder, and only they.
LEMMA Congruent ==
    \A n \in Nat \ {0} : \A a, b \in Int :
        a % n = b % n <=> \E k \in Int : a = b + n * k
<1> SUFFICES ASSUME NEW n \in Nat \ {0}, NEW a \in Int, NEW b \in Int
             PROVE  a % n = b % n <=> \E k \in Int : a = b + n * k
  OBVIOUS
<1>1. /\ b \div n \in Int /\ a \div n \in Int
      /\ b = n * (b \div n) + (b % n) /\ a = n * (a \div n) + (a % n)
      /\ b % n \in Int /\ 0 <= b % n /\ b % n < n
  BY DivMod
<1>2. ASSUME a % n = b % n PROVE \E k \in Int : a = b + n * k
  <2>1. a = b + n * ((a \div n) - (b \div n)) /\ (a \div n) - (b \div n) \in Int
    BY <1>1, <1>2
  <2> QED  BY <2>1
<1>3. ASSUME NEW k \in Int, a = b + n * k PROVE a % n = b % n
  <2>1. a = n * (k + (b \div n)) + (b % n) /\ k + (b \div n) \in Int
    BY <1>1, <1>3
  <2> QED  BY <1>1, <2>1, ModUnique
<1> QED  BY <1>2, <1>3

-----------------------------------------------------------------------------
\* The circle has at least one position, and slots lie on it.
LEMMA CircleFacts ==
    /\ Elements \in Nat \ {0} /\ Unit \in Nat \ {0} /\ Circle \in Nat \ {0}
    /\ 0 \in Cell /\ 0 \in Angle
    /\ \A i \in Cell : Slot(i) \in Angle
<1>1. Elements \in Nat \ {0} /\ Unit \in Nat \ {0}
  BY WheelAssumption
<1>2. Circle \in Int /\ Elements * Unit >= Elements
  BY <1>1, AtLeastOnce DEF Circle
<1>3. Circle \in Nat \ {0}
  BY <1>1, <1>2 DEF Circle
<1>4. ASSUME NEW i \in Cell PROVE Slot(i) \in Angle
  <2>1. i \in Nat /\ Elements - i \in Int /\ Elements - i >= 1
    BY <1>1, <1>4 DEF Cell
  <2>2. i * Unit \in Nat /\ Unit * (Elements - i) >= Unit
    BY <1>1, <2>1, AtLeastOnce
  <2>3. Unit * (Elements - i) = Circle - i * Unit
    BY <1>1, <2>1 DEF Circle
  <2> QED  BY <1>1, <1>3, <2>2, <2>3 DEF Angle, Slot
<1> QED  BY <1>1, <1>3, <1>4 DEF Cell, Angle

\* What is rigid, with the turns written out.
LEMMA RigidTurns ==
    ASSUME NEW f
    PROVE  Rigid(f) <=> /\ f \in [Cell -> Angle]
                        /\ \A c, d \in Cell : \E k \in Int : f[c] - f[d] = c * Unit - d * Unit + Circle * k
<1> SUFFICES ASSUME f \in [Cell -> Angle], NEW c \in Cell, NEW d \in Cell
             PROVE  (f[c] - f[d]) % Circle = (Slot(c) - Slot(d)) % Circle
                    <=> \E k \in Int : f[c] - f[d] = c * Unit - d * Unit + Circle * k
  BY DEF Rigid
<1>1. f[c] - f[d] \in Int /\ c * Unit - d * Unit \in Int /\ Circle \in Nat \ {0}
  BY CircleFacts DEF Angle, Cell
<1>2. (f[c] - f[d]) % Circle = (c * Unit - d * Unit) % Circle
      <=> \E k \in Int : f[c] - f[d] = (c * Unit - d * Unit) + Circle * k
  BY <1>1, Congruent
<1>3. Slot(c) - Slot(d) = c * Unit - d * Unit
  BY DEF Slot
<1> QED  BY <1>2, <1>3

\* Where cell c stands when the wheel is on the slots of index n.
LEMMA SlotTurn ==
    ASSUME NEW n \in Int, NEW c \in Cell
    PROVE  /\ TurnedTo(n)[c] \in Angle
           /\ \E k \in Int : TurnedTo(n)[c] = (c - n) * Unit + Circle * k
<1>1. c \in Int /\ c - n \in Int /\ Elements \in Nat \ {0} /\ Unit \in Nat \ {0}
  BY CircleFacts DEF Cell
<1>2. /\ (c - n) \div Elements \in Int /\ (c - n) % Elements \in Cell
      /\ c - n = Elements * ((c - n) \div Elements) + ((c - n) % Elements)
  BY <1>1, DivMod DEF Cell
<1>3. TurnedTo(n)[c] = Slot((c - n) % Elements)
  BY DEF TurnedTo
<1> DEFINE q == (c - n) \div Elements
           r == (c - n) % Elements
<1>4. r \in Int /\ q \in Int /\ c - n = Elements * q + r
  BY <1>1, <1>2 DEF Cell
<1> HIDE DEF q, r
<1>5. r * Unit = (c - n) * Unit + (Elements * Unit) * (-q)
  <2>1. (c - n) * Unit = (Elements * q + r) * Unit
    BY <1>4
  <2> QED  BY <1>1, <1>4, <2>1
<1>6. TurnedTo(n)[c] = (c - n) * Unit + Circle * (-q) /\ -q \in Int
  BY <1>3, <1>4, <1>5 DEF Slot, Circle, r
<1> QED  BY <1>2, <1>3, <1>6, CircleFacts

\* The slots of any index make a wheel.
LEMMA SlotsAreRigid == \A n \in Int : Rigid(TurnedTo(n))
<1> SUFFICES ASSUME NEW n \in Int PROVE Rigid(TurnedTo(n))
  OBVIOUS
<1>1. ASSUME NEW c \in Cell
      PROVE  /\ TurnedTo(n)[c] \in Angle
             /\ \E k \in Int : TurnedTo(n)[c] = (c - n) * Unit + Circle * k
  BY SlotTurn
<1>2. TurnedTo(n) \in [Cell -> Angle]
  BY <1>1 DEF TurnedTo
<1>3. ASSUME NEW c \in Cell, NEW d \in Cell
      PROVE  \E k \in Int : TurnedTo(n)[c] - TurnedTo(n)[d] = c * Unit - d * Unit + Circle * k
  <2>1. PICK i \in Int : TurnedTo(n)[c] = (c - n) * Unit + Circle * i
    BY <1>1
  <2>2. PICK j \in Int : TurnedTo(n)[d] = (d - n) * Unit + Circle * j
    BY <1>1
  <2>3. c \in Int /\ d \in Int /\ Unit \in Int /\ Circle \in Int
    BY CircleFacts DEF Cell
  <2>4. TurnedTo(n)[c] - TurnedTo(n)[d] = c * Unit - d * Unit + Circle * (i - j) /\ i - j \in Int
    BY <2>1, <2>2, <2>3
  <2> QED  BY <2>4
<1> QED  BY <1>2, <1>3, RigidTurns

\* A wheel turned by any amount is a wheel.
LEMMA TurningIsRigid ==
    ASSUME NEW f, Rigid(f), NEW x \in Int
    PROVE  Rigid([d \in Cell |-> (f[d] + x) % Circle])
<1> DEFINE g == [d \in Cell |-> (f[d] + x) % Circle]
<1>1. /\ f \in [Cell -> Angle]
      /\ \A c, d \in Cell : \E k \in Int : f[c] - f[d] = c * Unit - d * Unit + Circle * k
  BY RigidTurns
<1>2. ASSUME NEW c \in Cell
      PROVE  g[c] \in Angle /\ \E k \in Int : g[c] = f[c] + x + Circle * k
  <2>1. f[c] + x \in Int /\ Circle \in Nat \ {0}
    BY <1>1, CircleFacts DEF Angle
  <2>2. /\ (f[c] + x) \div Circle \in Int /\ (f[c] + x) % Circle \in Angle
        /\ f[c] + x = Circle * ((f[c] + x) \div Circle) + ((f[c] + x) % Circle)
    BY <2>1, DivMod DEF Angle
  <2> DEFINE q == (f[c] + x) \div Circle
             r == (f[c] + x) % Circle
  <2>3. q \in Int /\ r \in Int /\ f[c] + x = Circle * q + r /\ g[c] = r
    BY <2>2 DEF Angle
  <2> HIDE DEF q, r, g
  <2>4. g[c] = f[c] + x + Circle * (-q) /\ -q \in Int
    BY <2>1, <2>3
  <2>5. g[c] \in Angle
    BY <2>2, <2>3 DEF r
  <2> QED  BY <2>4, <2>5
<1>3. g \in [Cell -> Angle]
  BY <1>2
<1> HIDE DEF g
<1>4. ASSUME NEW c \in Cell, NEW d \in Cell
      PROVE  \E k \in Int : g[c] - g[d] = c * Unit - d * Unit + Circle * k
  <2>1. PICK i \in Int : g[c] = f[c] + x + Circle * i
    BY <1>2
  <2>2. PICK j \in Int : g[d] = f[d] + x + Circle * j
    BY <1>2
  <2>3. PICK k \in Int : f[c] - f[d] = c * Unit - d * Unit + Circle * k
    BY <1>1
  <2>4. c \in Int /\ d \in Int /\ Unit \in Int /\ Circle \in Int /\ f[c] \in Int /\ f[d] \in Int
    <3>1. f[c] \in Angle /\ f[d] \in Angle
      BY <1>1
    <3>2. Unit \in Nat \ {0} /\ Circle \in Nat \ {0}
      BY CircleFacts
    <3> QED  BY <3>1, <3>2 DEF Cell, Angle
  <2>5. g[c] - g[d] = (f[c] - f[d]) + (Circle * i - Circle * j)
    BY <2>1, <2>2, <2>4
  <2>6. Circle * (k + i - j) = Circle * k + (Circle * i - Circle * j)
    BY <2>4
  <2>7. /\ g[c] - g[d] = c * Unit - d * Unit + Circle * (k + i - j)
        /\ k + i - j \in Int
    BY <2>3, <2>4, <2>5, <2>6
  <2> QED  BY <2>7
<1> QED  BY <1>3, <1>4, RigidTurns DEF g

-----------------------------------------------------------------------------
\* The slots that cell 0 has passed, and what is left of the way to the next.
LEMMA PassedSlots ==
    ASSUME angle \in [Cell -> Angle]
    PROVE  /\ Passed \in Cell /\ Beyond \in 0 .. Unit - 1
           /\ angle[0] = Unit * Passed + Beyond
<1>1. angle[0] \in Int /\ 0 <= angle[0] /\ angle[0] < Elements * Unit
  BY CircleFacts DEF Angle, Circle
<1>2. Elements \in Nat \ {0} /\ Unit \in Nat \ {0}
  BY CircleFacts
<1>3. /\ Passed \in Int /\ Beyond \in 0 .. Unit - 1
      /\ angle[0] = Unit * Passed + Beyond
  BY <1>1, <1>2, DivMod DEF Passed, Beyond
<1>4. Beyond \in Int /\ 0 <= Beyond /\ Beyond < Unit
  BY <1>2, <1>3
<1>5. ASSUME Passed <= -1 PROVE FALSE
  <2>1. Unit * (-Passed) >= Unit /\ Unit * (-Passed) = -(Unit * Passed)
    BY <1>2, <1>3, <1>5, AtLeastOnce
  <2> QED  BY <1>1, <1>2, <1>3, <1>4, <2>1
<1>6. ASSUME Passed >= Elements PROVE FALSE
  <2>1. Passed - Elements \in Nat /\ Unit \in Nat
    BY <1>2, <1>3, <1>6
  <2>2. Unit * (Passed - Elements) >= 0
    BY <2>1
  <2>3. Unit * (Passed - Elements) = Unit * Passed - Elements * Unit
    BY <1>2, <1>3
  <2> QED  BY <1>1, <1>2, <1>3, <1>4, <2>2, <2>3
<1> QED  BY <1>2, <1>3, <1>5, <1>6 DEF Cell

\* The index a snap chooses is a cell's, or the number of cells for cell 0.
LEMMA SnapIndexRange ==
    ASSUME angle \in [Cell -> Angle], NEW back \in BOOLEAN
    PROVE  SnapIndex(back) \in 0 .. Elements
<1>1. Passed \in Int /\ 0 <= Passed /\ Passed < Elements /\ Elements \in Nat \ {0}
  BY PassedSlots, CircleFacts DEF Cell
<1>2. (Elements - (Passed + 1)) % Elements \in 0 .. Elements - 1
  <2>1. Elements - (Passed + 1) \in Int
    BY <1>1
  <2> QED  BY <1>1, <2>1, DivMod
<1> QED  BY <1>1, <1>2 DEF SnapIndex

\* The point under a finger that moves stays as far from its cell as it was.
LEMMA MovesAlong ==
    ASSUME NEW a \in Int, NEW p \in Int, NEW d \in Int
    PROVE  Near(p, (a + p - d) % Circle) <=> Near(d, a)
<1>1. Circle \in Nat \ {0} /\ a + p - d \in Int
  BY CircleFacts
<1>2. PICK q \in Int : a + p - d = Circle * q + ((a + p - d) % Circle)
  BY <1>1, DivMod
<1>3. PICK r \in Int : r = (a + p - d) % Circle
  <2>1. (a + p - d) % Circle \in 0 .. Circle - 1
    BY <1>1, DivMod
  <2> QED  BY <1>1, <2>1
<1>4. a + p - d = Circle * q + r
  BY <1>2, <1>3
<1>5. PICK x \in Int, y \in Int : x = p - r /\ y = d - a
  OBVIOUS
<1>6. x = y + Circle * q
  BY <1>1, <1>4, <1>5
<1>7. x % Circle = y % Circle
  BY <1>1, <1>6, Congruent
<1> QED  BY <1>3, <1>5, <1>7 DEF Near

-----------------------------------------------------------------------------
\* The values of the variables.
WheelType ==
    /\ angle \in [Cell -> Angle] /\ place \in [Cell -> Angle]
    /\ drag \in Angle
    /\ index \in 0 .. Elements
    /\ dragAnimation \in BOOLEAN /\ running \in BOOLEAN /\ late \in BOOLEAN
    /\ cut \in BOOLEAN /\ alone \in BOOLEAN
    /\ fingers \subseteq Touched

\* A wheel that snapped and was not taken up again, and one that nobody ever
\* turned, believe to be on the slots of their index, and are there as soon as
\* no animation is attached.
StandsOnSlots ==
    dragAnimation \/ (fingers = {} /\ ~cut) =>
        /\ angle = TurnedTo(index)
        /\ ~running => place = angle

\* The single finger on a wheel that was at rest: no report is under way that
\* could move the cells, and they are where they believe to be.
HeldAtRest ==
    alone =>
        /\ \A c, d \in fingers : c = d
        /\ fingers # {} => ~running /\ ~late /\ place = angle

WheelInv == WheelType /\ RigidWheel /\ StandsOnSlots /\ HeldAtRest /\ FollowsFinger

\* At the start every cell is on the slot of its own number.
LEMMA WheelStarts == Init => WheelInv
<1> SUFFICES ASSUME Init PROVE WheelInv
  OBVIOUS
<1>1. ASSUME NEW c \in Cell PROVE Slot((c - 0) % Elements) = Slot(c)
  <2>1. c \in Int /\ 0 <= c /\ c < Elements /\ Elements \in Nat \ {0} /\ c - 0 = Elements * 0 + c /\ c - 0 \in Int
    BY CircleFacts DEF Cell
  <2>2. (c - 0) % Elements = c
    BY <2>1, ModUnique
  <2> QED  BY <2>2
<1>2. angle = TurnedTo(0) /\ place = angle
  BY <1>1 DEF Init, TurnedTo
<1>3. WheelType
  <2>1. angle \in [Cell -> Angle]
    BY CircleFacts DEF Init
  <2>2. 0 \in Angle /\ 0 \in 0 .. Elements
    BY CircleFacts
  <2> QED  BY <2>1, <2>2 DEF WheelType, Init
<1>4. RigidWheel
  BY <1>2, SlotsAreRigid DEF RigidWheel
<1> QED  BY <1>2, <1>3, <1>4 DEF Init, WheelInv, StandsOnSlots, HeldAtRest, FollowsFinger

\* Every step of a finger or of an animation keeps the invariant.
LEMMA WheelStep == WheelInv /\ [Next]_wheelVars => WheelInv'
<1> SUFFICES ASSUME WheelInv, [Next]_wheelVars PROVE WheelInv'
  OBVIOUS
<1> USE DEF WheelInv
<1>1. ASSUME NEW c \in Touched, Began(c) PROVE WheelInv'
  <2>1. WheelType' /\ RigidWheel'
    BY <1>1 DEF Began, animations, WheelType, RigidWheel, Rigid
  <2>2. fingers' # {} /\ dragAnimation' = FALSE
    BY <1>1 DEF Began
  <2>3. StandsOnSlots'
    BY <2>2 DEF StandsOnSlots
  <2>4. alone' => fingers' = {c} /\ ~running' /\ ~late' /\ place' = angle'
    BY <1>1 DEF Began, animations, StandsOnSlots
  <2>5. HeldAtRest'
    BY <2>4 DEF HeldAtRest
  <2>6. FollowsFinger'
    BY <1>1, <2>4 DEF FollowsFinger, Began
  <2> QED  BY <2>1, <2>3, <2>5, <2>6
<1>2. ASSUME NEW c \in Touched, Ended(c), ~dragAnimation PROVE WheelInv'
  <2>1. /\ index' = SnapIndex(SnapsBack) /\ angle' = TurnedTo(index')
        /\ dragAnimation' = TRUE /\ running' = TRUE /\ late' = (late \/ running) /\ cut' = FALSE
        /\ fingers' = fingers \ {c} /\ c \in fingers
        /\ UNCHANGED <<place, drag, alone>>
    BY <1>2 DEF Ended, ReviseCirclePoint
  <2>2. index' \in 0 .. Elements
    <3>1. SnapsBack \in BOOLEAN /\ angle \in [Cell -> Angle]
      BY DEF SnapsBack, WheelType
    <3> QED  BY <2>1, <3>1, SnapIndexRange
  <2>3. index' \in Int
    BY <2>2, CircleFacts
  <2>4. RigidWheel'
    <3>1. Rigid(angle')
      BY <2>1, <2>3, SlotsAreRigid
    <3> QED  BY <2>1, <3>1 DEF RigidWheel, Rigid
  <2>5. WheelType'
    <3>1. angle' \in [Cell -> Angle]
      BY <2>4 DEF RigidWheel, Rigid
    <3> QED  BY <2>1, <2>2, <3>1 DEF WheelType
  <2>6. StandsOnSlots'
    BY <2>1 DEF StandsOnSlots, TurnedTo
  <2>7. alone' => fingers' = {}
    BY <2>1 DEF HeldAtRest
  <2> QED  BY <2>4, <2>5, <2>6, <2>7 DEF HeldAtRest, FollowsFinger
<1>3. ASSUME NEW c \in Touched, Ended(c), dragAnimation PROVE WheelInv'
  <2>1. /\ fingers' = fingers \ {c} /\ c \in fingers
        /\ UNCHANGED <<angle, place, drag, dragAnimation, index, running, late, cut, alone>>
    BY <1>3 DEF Ended, animations
  <2> QED  BY <1>3, <2>1
       DEF WheelType, RigidWheel, Rigid, StandsOnSlots, TurnedTo, HeldAtRest, FollowsFinger
<1>4. ASSUME NEW c \in Touched, Cancelled(c) PROVE WheelInv'
  <2>1. /\ fingers' = fingers \ {c} /\ c \in fingers /\ cut' = (cut \/ ~dragAnimation)
        /\ UNCHANGED <<angle, place, drag, dragAnimation, index, running, late, alone>>
    BY <1>4 DEF Cancelled, animations
  <2> QED  BY <2>1
       DEF WheelType, RigidWheel, Rigid, StandsOnSlots, TurnedTo, HeldAtRest, FollowsFinger
<1>5. CASE Moved
  <2>1. PICK p \in Angle :
            /\ angle' = [d \in Cell |-> (angle[d] + p - drag) % Circle]
            /\ drag' = p
    BY <1>5 DEF Moved
  <2>2. /\ fingers # {} /\ ~dragAnimation /\ place' = angle'
        /\ UNCHANGED <<dragAnimation, index, running, late, fingers, cut, alone>>
    BY <1>5 DEF Moved, animations
  <2>3. p \in Int /\ drag \in Int /\ p - drag \in Int
    BY CircleFacts DEF WheelType, Angle
  <2>4. ASSUME NEW d \in Cell PROVE angle[d] + p - drag = angle[d] + (p - drag) /\ angle[d] \in Int
    <3>1. angle[d] \in Angle
      BY DEF WheelType
    <3> QED  BY <2>3, <3>1, CircleFacts DEF Angle
  <2>5. angle' = [d \in Cell |-> (angle[d] + (p - drag)) % Circle]
    BY <2>1, <2>4
  <2>6. Rigid(angle')
    BY <2>3, <2>5, TurningIsRigid DEF RigidWheel
  <2>7. RigidWheel'
    BY <2>2, <2>6 DEF RigidWheel, Rigid
  <2>8. WheelType'
    BY <2>1, <2>2, <2>7 DEF WheelType, RigidWheel, Rigid
  <2>9. StandsOnSlots'
    BY <2>2 DEF StandsOnSlots
  <2>10. HeldAtRest'
    BY <2>2 DEF HeldAtRest
  <2>11. ASSUME alone', NEW c \in fingers' PROVE Near(drag', place'[c])
    <3>1. c \in Cell /\ c \in fingers /\ place = angle
      BY <2>2, <2>11, WheelAssumption DEF HeldAtRest, WheelType, Cell
    <3>2. Near(drag, angle[c])
      BY <2>2, <2>11, <3>1 DEF FollowsFinger
    <3>3. place'[c] = (angle[c] + p - drag) % Circle /\ drag' = p
      BY <2>1, <2>2, <3>1
    <3> QED  BY <2>3, <2>4, <3>1, <3>2, <3>3, MovesAlong
  <2> QED  BY <2>7, <2>8, <2>9, <2>10, <2>11 DEF FollowsFinger
<1>6. CASE AnimationEnds \/ LateStop
  <2>1. /\ place' = TurnedTo(index) /\ running' = FALSE /\ late' \in BOOLEAN
        /\ running \/ late
        /\ UNCHANGED <<angle, drag, dragAnimation, index, fingers, cut, alone>>
    BY <1>6 DEF AnimationEnds, LateStop, AnimationDidStop, WheelType
  <2>2. index \in Int
    BY CircleFacts DEF WheelType
  <2>3. RigidWheel'
    <3>1. Rigid(place')
      BY <2>1, <2>2, SlotsAreRigid
    <3> QED  BY <2>1, <3>1 DEF RigidWheel, Rigid
  <2>4. WheelType'
    BY <2>1, <2>3 DEF WheelType, RigidWheel, Rigid
  <2>5. StandsOnSlots'
    BY <2>1 DEF StandsOnSlots, TurnedTo
  <2>6. alone => fingers = {}
    BY <2>1 DEF HeldAtRest
  <2> QED  BY <2>1, <2>3, <2>4, <2>5, <2>6 DEF HeldAtRest, FollowsFinger
<1>7. CASE UNCHANGED wheelVars
  BY <1>7 DEF wheelVars, animations, WheelType, RigidWheel, Rigid, StandsOnSlots, TurnedTo,
              HeldAtRest, FollowsFinger
<1> QED  BY <1>1, <1>2, <1>3, <1>4, <1>5, <1>6, <1>7 DEF Next

\* The invariant of the wheel, which the other theorems use.
THEOREM WheelInvariant == Spec => []WheelInv
BY WheelStarts, WheelStep, PTL DEF Spec

\* However many fingers pull, whichever of them leaves or is cancelled and
\* whenever animations report, also late and for a snap that was overtaken, the
\* cells stay a wheel, and one finger that took hold of it at rest keeps its
\* cell under it (cellDidMoved:withLocation:, animationDidStop:).
THEOREM StaysAWheel == Spec => []TurnsAsHeld
<1>1. WheelInv => TurnsAsHeld
  BY DEF WheelInv, TurnsAsHeld
<1> QED  BY <1>1, WheelInvariant, PTL

\* A wheel that nobody holds and whose last pan was not cancelled stands on its
\* slots, and is where it believes to be when no animation is attached, even
\* if stale reports came in while it was turned (animationDidStop: places all
\* cells by _current_index).
THEOREM RestsOnSlots == Spec => []LetGoOnSlots
<1>1. ASSUME WheelInv PROVE LetGoOnSlots
  <2>1. ASSUME fingers = {}, ~cut, NEW c \in Cell PROVE angle[c] % Unit = 0
    <3>1. angle[c] = Slot((c - index) % Elements)
      BY <1>1, <2>1 DEF WheelInv, StandsOnSlots, TurnedTo
    <3>2. c - index \in Int /\ Elements \in Nat \ {0} /\ Unit \in Nat \ {0}
      BY <1>1, CircleFacts DEF WheelInv, WheelType, Cell
    <3>3. (c - index) % Elements \in Int
      BY <3>2, DivMod
    <3>4. PICK i \in Int : i = (c - index) % Elements
      BY <3>3
    <3>5. angle[c] \in Int /\ angle[c] = Unit * i + 0 /\ 0 < Unit
      BY <3>1, <3>2, <3>4 DEF Slot
    <3> QED  BY <3>2, <3>5, ModUnique
  <2> QED  BY <1>1, <2>1 DEF WheelInv, StandsOnSlots, LetGoOnSlots
<1> QED  BY <1>1, WheelInvariant, PTL

-----------------------------------------------------------------------------
\* Angles are whole numbers.
LEMMA AnglesAreWhole ==
    /\ \A x \in Angle : x \in Int
    /\ \A f \in [Cell -> Angle] : \A c \in Cell : f[c] \in Int
BY CircleFacts DEF Angle

\* A cell of a rigid wheel is as far beyond its slot as cell 0 is beyond its.
LEMMA CellIsBeyond ==
    ASSUME Rigid(angle), NEW c \in Cell
    PROVE  \E j \in Int : angle[c] = (c + Passed) * Unit + Beyond + Circle * j
<1>1. /\ angle \in [Cell -> Angle]
      /\ \A d, e \in Cell : \E k \in Int : angle[d] - angle[e] = d * Unit - e * Unit + Circle * k
  BY RigidTurns
<1>2. PICK k \in Int : angle[c] - angle[0] = c * Unit - 0 * Unit + Circle * k
  BY <1>1, CircleFacts
<1>3. Passed \in Int /\ Beyond \in Int /\ angle[0] = Unit * Passed + Beyond
  BY <1>1, PassedSlots, CircleFacts DEF Cell
<1>4. angle[c] \in Int /\ angle[0] \in Int
  <2>1. angle[c] \in Angle /\ angle[0] \in Angle
    BY <1>1, CircleFacts
  <2> QED  BY <2>1, CircleFacts DEF Angle
<1>5. c \in Int /\ Unit \in Int /\ Circle \in Int
  BY CircleFacts DEF Cell
<1>6. angle[c] = (c + Passed) * Unit + Beyond + Circle * k
  BY <1>2, <1>3, <1>4, <1>5
<1> QED  BY <1>6

\* A snap back turns a cell by what it is beyond its slot.
LEMMA TurnsBack ==
    ASSUME Rigid(angle), NEW c \in Cell
    PROVE  (angle[c] - TurnedTo(SnapIndex(TRUE))[c]) % Circle = Beyond
<1>1. PICK j \in Int : angle[c] = (c + Passed) * Unit + Beyond + Circle * j
  BY CellIsBeyond
<1>2. /\ Passed \in Int /\ Beyond \in Int /\ 0 <= Beyond /\ Beyond < Unit
      /\ c \in Int /\ Unit \in Int /\ Elements \in Nat \ {0} /\ Circle \in Nat \ {0}
      /\ Unit \in Nat \ {0}
  BY PassedSlots, CircleFacts DEF Cell, Rigid
<1>3. PICK n \in Int : n = Elements - Passed
  BY <1>2
<1>4. SnapIndex(TRUE) = n
  BY <1>3 DEF SnapIndex
<1>5. PICK k \in Int : TurnedTo(n)[c] = (c - n) * Unit + Circle * k
  BY SlotTurn
<1>6. (c - n) * Unit = (c + Passed) * Unit - Circle
  <2>1. c - n = c + Passed - Elements
    BY <1>2, <1>3
  <2>2. (c - n) * Unit = (c + Passed) * Unit - Elements * Unit
    BY <1>2, <2>1
  <2> QED  BY <2>2 DEF Circle
<1>7. PICK x \in Int : x = angle[c] - TurnedTo(n)[c]
  <2>1. angle[c] \in Int /\ TurnedTo(n)[c] \in Int
    BY SlotTurn, AnglesAreWhole DEF Rigid
  <2> QED  BY <2>1
<1>8. x = Circle * (1 + j - k) + Beyond
  <2>1. Circle * (1 + j - k) = Circle + Circle * j - Circle * k
    BY <1>2
  <2>2. PICK w \in Int, u \in Int, v \in Int :
            w = (c + Passed) * Unit /\ u = Circle * j /\ v = Circle * k
    BY <1>2
  <2>3. angle[c] = w + Beyond + u
    BY <1>1, <2>2
  <2>4. TurnedTo(n)[c] = w - Circle + v
    BY <1>5, <1>6, <2>2
  <2>5. x = (w + Beyond + u) - (w - Circle + v)
    BY <1>7, <2>3, <2>4
  <2> QED  BY <1>2, <2>1, <2>2, <2>5
<1>9. Circle >= Unit
  BY <1>2, AtLeastOnce DEF Circle
<1>10. 1 + j - k \in Int /\ Beyond < Circle
  BY <1>2, <1>9
<1>11. x % Circle = Beyond
  BY <1>2, <1>8, <1>10, ModUnique
<1> QED  BY <1>4, <1>7, <1>11

\* A snap on turns a cell by the rest of the way to the next slot.
LEMMA TurnsOn ==
    ASSUME Rigid(angle), NEW c \in Cell, Beyond > 0
    PROVE  (TurnedTo(SnapIndex(FALSE))[c] - angle[c]) % Circle = Unit - Beyond
<1>1. PICK j \in Int : angle[c] = (c + Passed) * Unit + Beyond + Circle * j
  BY CellIsBeyond
<1>2. /\ Passed \in Int /\ Beyond \in Int /\ 0 < Beyond /\ Beyond < Unit
      /\ c \in Int /\ Unit \in Int /\ Elements \in Nat \ {0} /\ Circle \in Nat \ {0}
      /\ Unit \in Nat \ {0}
  BY PassedSlots, CircleFacts DEF Cell, Rigid
<1>3. PICK m \in Int : Elements - (Passed + 1) = Elements * m + ((Elements - (Passed + 1)) % Elements)
  <2>1. Elements - (Passed + 1) \in Int
    BY <1>2
  <2> QED  BY <1>2, <2>1, DivMod
<1>4. PICK n \in Int : n = SnapIndex(FALSE)
  <2>1. SnapIndex(FALSE) \in 0 .. Elements
    BY SnapIndexRange DEF Rigid
  <2>2. \A i \in 0 .. Elements : i \in Int
    BY <1>2
  <2> QED  BY <2>1, <2>2
<1>5. n = Elements - Passed - 1 - Elements * m
  <2>1. n = (Elements - (Passed + 1)) % Elements
    BY <1>4 DEF SnapIndex
  <2> QED  BY <1>2, <1>3, <2>1
<1>6. PICK k \in Int : TurnedTo(n)[c] = (c - n) * Unit + Circle * k
  BY SlotTurn
<1>7. (c - n) * Unit = (c + Passed) * Unit + Unit - Circle + Circle * m
  <2>1. c - n = c + Passed + 1 - Elements + Elements * m
    BY <1>2, <1>5
  <2>2. (c - n) * Unit = (c + Passed) * Unit + Unit - Elements * Unit + (Elements * Unit) * m
    BY <1>2, <2>1
  <2> QED  BY <2>2 DEF Circle
<1>8. PICK x \in Int : x = TurnedTo(n)[c] - angle[c]
  <2>1. angle[c] \in Int /\ TurnedTo(n)[c] \in Int
    BY SlotTurn, AnglesAreWhole DEF Rigid
  <2> QED  BY <2>1
<1>9. x = Circle * (m - 1 + k - j) + (Unit - Beyond)
  <2>1. Circle * (m - 1 + k - j) = Circle * m - Circle + Circle * k - Circle * j
    BY <1>2
  <2>2. PICK w \in Int, u \in Int, v \in Int, z \in Int :
            w = (c + Passed) * Unit /\ u = Circle * j /\ v = Circle * k /\ z = Circle * m
    BY <1>2
  <2>3. angle[c] = w + Beyond + u
    BY <1>1, <2>2
  <2>4. TurnedTo(n)[c] = w + Unit - Circle + z + v
    BY <1>6, <1>7, <2>2
  <2>5. x = (w + Unit - Circle + z + v) - (w + Beyond + u)
    BY <1>8, <2>3, <2>4
  <2> QED  BY <1>2, <2>1, <2>2, <2>5
<1>10. Circle >= Unit
  BY <1>2, AtLeastOnce DEF Circle
<1>11. m - 1 + k - j \in Int /\ Unit - Beyond \in Int /\ 0 <= Unit - Beyond /\ Unit - Beyond < Circle
  BY <1>2, <1>10
<1>12. x % Circle = Unit - Beyond
  BY <1>2, <1>9, <1>11, ModUnique
<1> QED  BY <1>4, <1>8, <1>12

\* With at most six cells, and the wheel of the application has six, a snap
\* turns every cell in the direction its animation is drawn: back by less than
\* pi / Elements of a slot, or on by less than half a slot.  With more cells it
\* may turn on by more than half, since the code divides by the radians of a
\* slot before it compares with a half (WTCricleView.m, reviseCirclePoint).
THEOREM SnapsTheShortWay ==
    ASSUME Elements <= 6
    PROVE  Spec => SnapsShortWay
<1>1. ASSUME WheelInv, [Next]_wheelVars, ~dragAnimation, dragAnimation', NEW c \in Cell
      PROVE  IF SnapsBack
             THEN 10000 * Elements * ((angle[c] - angle'[c]) % Circle) < 31416 * Unit
             ELSE 2 * ((angle'[c] - angle[c]) % Circle) < Unit
  <2>1. angle' = TurnedTo(SnapIndex(SnapsBack))
    <3>1. PICK d \in Touched : Ended(d)
      BY <1>1 DEF Next, wheelVars, Began, Moved, Cancelled, AnimationEnds, LateStop, AnimationDidStop
    <3> QED  BY <1>1, <3>1 DEF Ended, ReviseCirclePoint, TurnedTo
  <2>2. Rigid(angle)
    BY <1>1 DEF WheelInv, RigidWheel
  <2>3. CASE SnapsBack
    <3>1. SnapsBack = TRUE
      BY <2>3 DEF SnapsBack
    <3>2. (angle[c] - angle'[c]) % Circle = Beyond
      BY <2>1, <2>2, <3>1, TurnsBack
    <3> QED  BY <2>3, <3>2 DEF SnapsBack
  <2>4. CASE ~SnapsBack
    <3>1. SnapsBack = FALSE
      BY <2>4 DEF SnapsBack
    <3>2. /\ Beyond \in Int /\ 0 <= Beyond /\ Beyond < Unit /\ Unit \in Nat \ {0}
          /\ Elements \in Nat \ {0}
      BY <2>2, PassedSlots, CircleFacts DEF Rigid
    <3>3. 10000 * Elements * Beyond >= 31416 * Unit
      BY <2>4, <3>2 DEF SnapsBack
    <3>4. Elements * Beyond <= 6 * Beyond
      <4>1. 6 - Elements \in Nat /\ Beyond \in Nat
        BY <3>2
      <4>2. (6 - Elements) * Beyond >= 0
        BY <4>1
      <4> QED  BY <3>2, <4>2
    <3>5. 60000 * Beyond >= 31416 * Unit
      BY <3>2, <3>3, <3>4
    <3>6. Beyond > 0 /\ 2 * (Unit - Beyond) < Unit
      BY <3>2, <3>5
    <3>7. (angle'[c] - angle[c]) % Circle = Unit - Beyond
      BY <2>1, <2>2, <3>1, <3>6, TurnsOn
    <3> QED  BY <2>4, <3>6, <3>7
  <2> QED  BY <2>3, <2>4
<1>2. WheelInv /\ [Next]_wheelVars =>
          [~dragAnimation /\ dragAnimation' =>
              \A c \in Cell :
                  IF SnapsBack
                  THEN 10000 * Elements * ((angle[c] - angle'[c]) % Circle) < 31416 * Unit
                  ELSE 2 * ((angle'[c] - angle[c]) % Circle) < Unit]_wheelVars
  BY <1>1
<1> QED  BY <1>2, WheelInvariant, PTL DEF Spec, SnapsShortWay
=============================================================================
