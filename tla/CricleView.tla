----------------------------- MODULE CricleView -----------------------------
(***************************************************************************)
(* WTCricleView.m: a wheel of cells that fingers turn and that snaps to its *)
(* slots when it is let go.  Every cell has a pan recognizer of its own, so *)
(* several fingers may hold the wheel; they share _drag_point.              *)
(*                                                                         *)
(* Angles are whole numbers, Unit of them between two slots, measured from  *)
(* _deviation_Radian.  The snap is an animation per cell: current_radian    *)
(* takes its final value at once, the centre of the cell when               *)
(* animationDidStop is called, and that may be after the wheel was grabbed  *)
(* or let go again.  Core Animation is modelled from how this code uses it. *)
(***************************************************************************)
EXTENDS Integers

CONSTANTS
    Elements,       \* Elements_Count
    Unit,           \* positions from one slot to the next
    Touched         \* bound: the cells that are ever touched

ASSUME WheelAssumption ==
    Elements \in Nat \ {0} /\ Unit \in Nat \ {0} /\ Touched \subseteq 0 .. Elements - 1

VARIABLES
    angle,          \* per cell, current_radian
    place,          \* per cell, where on the circle its centre is
    drag,           \* _drag_point
    dragAnimation,  \* _is_drag_animation
    index,          \* _current_index
    running,        \* the animations are attached to the cells
    late,           \* animations that were removed or replaced still report
    \* history, for the properties
    fingers,        \* the cells whose pan is under way
    cut,            \* a cancelled pan left the wheel where it was
    alone           \* the drag found the wheel at rest and has one finger

animations == <<running, late>>
wheelVars == <<angle, place, drag, dragAnimation, index, animations, fingers, cut, alone>>

Circle == Elements * Unit
Angle == 0 .. Circle - 1
Cell == 0 .. Elements - 1

Slot(i) == i * Unit
Near(p, q) == (p - q) % Circle \in {0, 1, Circle - 1}

Init ==
    /\ angle = [c \in Cell |-> Slot(c)]
    /\ place = angle
    /\ drag = 0
    /\ dragAnimation = FALSE
    /\ index = 0
    /\ running = FALSE
    /\ late = FALSE
    /\ fingers = {}
    /\ cut = FALSE
    /\ alone = FALSE

-----------------------------------------------------------------------------
\* The slots the cells go to when cell n is the one at slot 0.
TurnedTo(n) == [c \in Cell |-> Slot((c - n) % Elements)]

\* The number of slots cell 0 has passed, and how far it is beyond the last.
Passed == angle[0] \div Unit
Beyond == angle[0] % Unit

\* The fraction of a slot is divided by the radians of a slot, 2 pi / Elements,
\* before it is compared with a half.  This is _is_clockwise, which is set and
\* used by one snap only.
SnapsBack == 10000 * Elements * Beyond < 31416 * Unit

\* Mutant of SnapIndex: the slot is not counted on when the wheel turns on.
SnapIndexBack(back) == IF back THEN Elements - Passed ELSE (Elements - Passed) % Elements

SnapIndex(back) ==
    IF back THEN Elements - Passed ELSE (Elements - (Passed + 1)) % Elements

\* Mutant of ReviseCirclePoint: current_radian keeps its value.
ReviseForgetsRadian ==
    /\ index' = SnapIndex(SnapsBack)
    /\ dragAnimation' = TRUE
    /\ running' = TRUE
    /\ late' = (late \/ running)
    /\ cut' = FALSE
    /\ UNCHANGED angle

\* A new animation replaces the one its cell still has, which then reports.
ReviseCirclePoint ==
    /\ index' = SnapIndex(SnapsBack)
    /\ angle' = TurnedTo(index')
    /\ dragAnimation' = TRUE
    /\ running' = TRUE
    /\ late' = (late \/ running)
    /\ cut' = FALSE

-----------------------------------------------------------------------------
\* A pan starts near the cell, whose view is where its centre is whatever the
\* animation shows.
Began(c) ==
    /\ c \notin fingers
    /\ dragAnimation' = FALSE
    /\ \E p \in Angle : Near(p, place[c]) /\ drag' = p
    /\ fingers' = fingers \cup {c}
    /\ alone' = (fingers = {} /\ ~running /\ ~late /\ ~cut)
    /\ cut' = FALSE
    /\ UNCHANGED <<angle, place, index, animations>>

\* Mutant of Moved: the point is not remembered.
MovedFromStart ==
    /\ fingers # {}
    /\ ~dragAnimation
    /\ \E p \in Angle : angle' = [d \in Cell |-> (angle[d] + p - drag) % Circle]
    /\ place' = angle'
    /\ UNCHANGED <<drag, dragAnimation, index, animations, fingers, cut, alone>>

\* One of the fingers moves, and every cell turns by what the point moved.
\* While a snap is on the move is ignored.
Moved ==
    /\ fingers # {}
    /\ ~dragAnimation
    /\ \E p \in Angle :
        /\ angle' = [d \in Cell |-> (angle[d] + p - drag) % Circle]
        /\ drag' = p
    /\ place' = angle'
    /\ UNCHANGED <<dragAnimation, index, animations, fingers, cut, alone>>

\* The first finger that leaves makes the wheel snap, the others are ignored
\* until one of them begins a new pan.
Ended(c) ==
    /\ c \in fingers
    /\ fingers' = fingers \ {c}
    /\ IF ~dragAnimation
       THEN ReviseCirclePoint
       ELSE UNCHANGED <<angle, dragAnimation, index, animations, cut>>
    /\ UNCHANGED <<place, drag, alone>>

\* The recognizer was cancelled: the wheel is not told.
Cancelled(c) ==
    /\ c \in fingers
    /\ fingers' = fingers \ {c}
    /\ cut' = (cut \/ ~dragAnimation)
    /\ UNCHANGED <<angle, place, drag, dragAnimation, index, animations, alone>>

-----------------------------------------------------------------------------
\* Mutants of AnimationDidStop: only the cell that reports is put in its
\* place; no cell is.
StopsOwnCell ==
    /\ \E c \in Cell : place' = [place EXCEPT ![c] = TurnedTo(index)[c]]
    /\ running' = FALSE
    /\ UNCHANGED <<angle, drag, dragAnimation, index, fingers, cut, alone>>

StopsOnly ==
    /\ running' = FALSE
    /\ UNCHANGED <<angle, place, drag, dragAnimation, index, fingers, cut, alone>>

\* animationDidStop, which every cell's animation calls: all animations are
\* removed, and all cells are put where the last snap sent them.
AnimationDidStop ==
    /\ place' = TurnedTo(index)
    /\ running' = FALSE
    /\ UNCHANGED <<angle, drag, dragAnimation, index, fingers, cut, alone>>

\* The first animation of a snap that comes to its end; the others report, too.
AnimationEnds ==
    /\ running
    /\ late' = TRUE
    /\ AnimationDidStop

\* A removed or replaced animation reports; those it removes report later.
LateStop ==
    /\ late
    /\ late' \in {running, TRUE}
    /\ AnimationDidStop

Next ==
    \/ \E c \in Touched : Began(c) \/ Ended(c) \/ Cancelled(c)
    \/ Moved
    \/ AnimationEnds
    \/ LateStop

\* Core Animation reports the end of what it shows.  Nobody has to let go.
Fairness == WF_wheelVars(AnimationEnds \/ LateStop)

Spec == Init /\ [][Next]_wheelVars /\ Fairness

-----------------------------------------------------------------------------
\* However many fingers pull and whenever animations report, the cells stay a
\* wheel: the distance between two cells is that of their numbers, both in
\* what they remember and in where they are.
Rigid(f) ==
    /\ f \in [Cell -> Angle]
    /\ \A c, d \in Cell : (f[c] - f[d]) % Circle = (Slot(c) - Slot(d)) % Circle
RigidWheel == Rigid(angle) /\ Rigid(place)

\* A wheel that nobody holds stands on its slots, and once no animation runs
\* its cells are where they believe to be, even if stale reports came in while
\* it was turned.  The exception is a wheel whose last pan was cancelled.
LetGoOnSlots ==
    fingers = {} /\ ~cut =>
        /\ \A c \in Cell : angle[c] % Unit = 0
        /\ ~running => place = angle

\* One finger that takes hold of a wheel at rest keeps its cell under it until
\* it lets go or a second finger comes.
FollowsFinger == alone => \A c \in fingers : Near(drag, place[c])

\* A snap turns every cell in the direction the animation is drawn, by less
\* than a slot, and to the nearer side except for what lies between a half and
\* pi / Elements of a slot.
SnapsShortWay ==
    [][~dragAnimation /\ dragAnimation' =>
        \A c \in Cell :
            IF SnapsBack
            THEN 10000 * Elements * ((angle[c] - angle'[c]) % Circle) < 31416 * Unit
            ELSE 2 * ((angle'[c] - angle[c]) % Circle) < Unit]_wheelVars

\* A wheel that was let go comes to rest on its slots, unless it is taken up
\* again.
LetGoSettles ==
    fingers = {} /\ ~cut ~> fingers # {} \/ (~running /\ \A c \in Cell : place[c] = angle[c] /\ place[c] % Unit = 0)

\* The wheel turns as one piece, under the finger that holds it.
TurnsAsHeld == RigidWheel /\ FollowsFinger

\* A wheel let go snaps the short way onto its slots and rests there.
ComesToRest == SnapsShortWay /\ []LetGoOnSlots /\ LetGoSettles
=============================================================================
