--------------------------- MODULE EmotionalState ---------------------------
(***************************************************************************)
(* obz::emotional_state: two continuous coordinates snapped to a grid       *)
(* without a zero, and two callbacks that run inside the setter.  A         *)
(* callback may call any setter again, so calls of set_position nest; it    *)
(* may also throw.  Coordinates are integers, Grain of them to 1.0; a      *)
(* non-finite coordinate throws before anything changes and is left out.    *)
(***************************************************************************)
EXTENDS Integers, Sequences

CONSTANTS
    AxisMax,          \* 5: the grid is -AxisMax .. -1 and 1 .. AxisMax
    Grain,            \* units of a coordinate per 1.0, an even number
    Pleasantnesses,   \* coordinates passed to the setters
    Energies,
    Deltas,           \* amounts passed to the adjust functions
    MaxDepth          \* bound: set_position calls nested in callbacks

ASSUME GridAssumption ==
    /\ AxisMax \in 1 .. 5 /\ Grain \in Nat \ {0} /\ Grain % 2 = 0
    /\ MaxDepth \in Nat
    /\ (Pleasantnesses \cup Energies \cup Deltas) \subseteq Int

VARIABLES
    pleasantness, energy,   \* the continuous coordinates
    axes, previous,      \* current_*_axis_ and previous_*_axis_, as pairs
    moodCallback, quadrantCallback,   \* is a callback registered?
    calls,                  \* set_position calls in progress, innermost last
    side,                   \* history: sign of each axis's last non-zero value
    told                    \* history: what the mood callback knows

position == <<pleasantness, energy, axes, previous, side>>
emotionVars == <<position, moodCallback, quadrantCallback, calls, told>>

Axis == (-AxisMax .. AxisMax) \ {0}

Clamp(x, low, high) == IF x < low THEN low ELSE IF x > high THEN high ELSE x

ClampedAbove(x) == IF x > AxisMax * Grain THEN AxisMax * Grain ELSE x  \* faulty
ClampedCoordinate(x) == Clamp(x, -AxisMax * Grain, AxisMax * Grain)

\* static_cast<int>(x + 0.5) or (x - 0.5): truncation towards zero.
Rounded(x) == IF x > 0 THEN (x + Grain \div 2) \div Grain
                       ELSE -((Grain \div 2 - x) \div Grain)

Sign(x) == IF x < 0 THEN -1 ELSE 1

\* Faulty: zero keeps the side, but not the whole value.
SnappedToSide(x, before) ==
    IF Rounded(x) = 0 THEN Sign(IF x = 0 THEN before ELSE x)
                      ELSE Clamp(Rounded(x), -AxisMax, AxisMax)

SnappedAxis(x, before) ==
    LET r == Rounded(x)
    IN  CASE x = 0 -> before
          [] x # 0 /\ r = 0 -> IF x < 0 THEN -1 ELSE 1
          [] OTHER -> Clamp(r, -AxisMax, AxisMax)

\* A mood is its packed coordinates: ((x + 5) << 4) | (y + 5).
Pack(p, e) == (p + 5) * 16 + (e + 5)
PleasantnessOf(mood) == (mood \div 16) - 5
EnergyOf(mood) == (mood % 16) - 5

MoodAt(a) == Pack(a[1], a[2])
QuadrantAt(a) ==
    CASE a[1] < 0 /\ a[2] > 0 -> "high_energy_low_pleasantness"
      [] a[1] > 0 /\ a[2] > 0 -> "high_energy_high_pleasantness"
      [] a[1] < 0 /\ a[2] < 0 -> "low_energy_low_pleasantness"
      [] OTHER -> "low_energy_high_pleasantness"

\* The constructor.
EmotionInit ==
    \E x \in Pleasantnesses, y \in Energies :
        /\ pleasantness = ClampedCoordinate(x)
        /\ energy = ClampedCoordinate(y)
        /\ axes = <<SnappedAxis(pleasantness, 1), SnappedAxis(energy, 1)>>
        /\ previous = axes
        /\ side = <<Sign(x), Sign(y)>>
        /\ moodCallback = FALSE /\ quadrantCallback = FALSE
        /\ calls = <<>> /\ told = MoodAt(axes)

-----------------------------------------------------------------------------

Depth == Len(calls)
Inner == calls[Depth]
InCallback == Depth > 0 /\ Inner.at \in {"inMood", "inQuadrant"}

\* The program, or the callback that is running, may call in.
MayCall == Depth = 0 \/ InCallback

\* set_position up to its callbacks: everything is updated first, and the old
\* and new mood and quadrant are remembered in the call's locals.
SetPosition(x, y) ==
    /\ MayCall /\ Depth < MaxDepth
    /\ LET nextP == ClampedCoordinate(x)
           nextE == ClampedCoordinate(y)
           next == <<SnappedAxis(nextP, axes[1]), SnappedAxis(nextE, axes[2])>>
       IN  /\ pleasantness' = nextP /\ energy' = nextE
           /\ previous' = axes /\ axes' = next
           /\ side' = <<IF nextP = 0 THEN side[1] ELSE Sign(nextP),
                        IF nextE = 0 THEN side[2] ELSE Sign(nextE)>>
           /\ calls' = Append(calls, [from |-> axes, to |-> next,
                                      at |-> "mood"])
    /\ UNCHANGED <<moodCallback, quadrantCallback, told>>

SetPleasantness(x) == SetPosition(x, energy)
SetEnergy(y) == SetPosition(pleasantness, y)
Adjust(dx, dy) == SetPosition(pleasantness + dx, energy + dy)

MoveTo(step) == calls' = [calls EXCEPT ![Depth].at = step]
Leave == calls' = SubSeq(calls, 1, Depth - 1)

\* Faulty: the mood callback is told the mood the state has left before.
PreviousMood == MoodAt(previous)
ToldMood == MoodAt(Inner.to)

InvokeMood ==
    /\ Depth > 0 /\ Inner.at = "mood"
    /\ IF MoodAt(Inner.from) # MoodAt(Inner.to) /\ moodCallback
         THEN MoveTo("inMood") /\ told' = ToldMood
         ELSE MoveTo("quadrant") /\ UNCHANGED told
    /\ UNCHANGED <<position, moodCallback, quadrantCallback>>

InvokeQuadrant ==
    /\ Depth > 0 /\ Inner.at = "quadrant"
    /\ IF QuadrantAt(Inner.from) # QuadrantAt(Inner.to) /\ quadrantCallback
         THEN MoveTo("inQuadrant") ELSE Leave
    /\ UNCHANGED <<position, moodCallback, quadrantCallback, told>>

CallbackReturns ==
    /\ InCallback
    /\ IF Inner.at = "inMood" THEN MoveTo("quadrant") ELSE Leave
    /\ UNCHANGED <<position, moodCallback, quadrantCallback, told>>

\* The exception leaves set_position and reaches its caller; when that is a
\* callback, it goes on there or is thrown further.
CallbackThrows ==
    /\ InCallback /\ Leave
    /\ UNCHANGED <<position, moodCallback, quadrantCallback, told>>

\* Registration; not of the callback that is running, whose std::function
\* would be destroyed under it.
Running(step) == \E i \in 1 .. Depth : calls[i].at = step

OnMoodChanged(registered) ==
    /\ MayCall /\ ~Running("inMood")
    /\ moodCallback' = registered
    /\ told' = MoodAt(axes)
    /\ UNCHANGED <<position, quadrantCallback, calls>>

OnQuadrantChanged(registered) ==
    /\ MayCall /\ ~Running("inQuadrant")
    /\ quadrantCallback' = registered
    /\ UNCHANGED <<position, moodCallback, calls, told>>

EmotionNext ==
    \/ \E x \in Pleasantnesses, y \in Energies : SetPosition(x, y)
    \/ \E x \in Pleasantnesses : SetPleasantness(x)
    \/ \E y \in Energies : SetEnergy(y)
    \/ \E dx, dy \in Deltas : Adjust(dx, dy)
    \/ InvokeMood \/ InvokeQuadrant \/ CallbackReturns \/ CallbackThrows
    \/ \E registered \in BOOLEAN :
         OnMoodChanged(registered) \/ OnQuadrantChanged(registered)

EmotionSpec == EmotionInit /\ [][EmotionNext]_emotionVars

-----------------------------------------------------------------------------

Coordinate == -AxisMax * Grain .. AxisMax * Grain

\* Each variable has its type.
EmotionTypeOK ==
    /\ pleasantness \in Coordinate /\ energy \in Coordinate
    /\ axes \in Axis \X Axis /\ previous \in Axis \X Axis
    /\ moodCallback \in BOOLEAN /\ quadrantCallback \in BOOLEAN
    /\ side \in {-1, 1} \X {-1, 1}
    /\ calls \in Seq([from : Axis \X Axis, to : Axis \X Axis,
                     at : {"mood", "inMood", "quadrant", "inQuadrant"}])

Distance(x, y) == IF x < y THEN y - x ELSE x - y

\* The cached axis is a grid value nearest to the coordinate, and its sign is
\* that of the last non-zero coordinate.
Snapped ==
    /\ EmotionTypeOK
    /\ LET Follows(x, axis, s) ==
             /\ Sign(axis) = s
             /\ x # 0 => \A a \in Axis :
                           Distance(a * Grain, x) >= Distance(axis * Grain, x)
       IN  /\ Follows(pleasantness, axes[1], side[1])
           /\ Follows(energy, axes[2], side[2])

\* A cached axis always fits its coordinate, and a coordinate of exactly zero
\* keeps the whole axis value of the state before, and so the quadrant, whoever
\* sets it and wherever callbacks are nested.
AxisFollowsCoordinate ==
    /\ []Snapped
    /\ [][/\ pleasantness' = 0 => axes'[1] = axes[1]
          /\ energy' = 0 => axes'[2] = axes[2]]_emotionVars

InvokesMood == calls # <<>> /\ Inner.at = "mood" /\ Inner'.at = "inMood"

AxesOf(mood) == <<PleasantnessOf(mood), EnergyOf(mood)>>

\* The reports of the mood callback form a chain, also when callbacks nest or
\* throw: each starts at the mood the callback was told last (or found when
\* it was registered) and ends at the current mood.  The axes unpacked from
\* the moods are meant, so no two grid cells count as one mood.
MoodReportsChain ==
    [][Depth' = Depth /\ InvokesMood =>
         AxesOf(told) = Inner.from /\ AxesOf(told') = axes]_emotionVars

-----------------------------------------------------------------------------
(* The inductive invariant of the reports.                                  *)

\* All calls but the innermost are in a callback; the innermost is about to
\* report where it comes from, or everything has been reported.
Reports ==
    /\ \A k \in 1 .. Depth - 1 : calls[k].at \in {"inMood", "inQuadrant"}
    /\ IF Depth > 0 /\ Inner.at = "mood"
         THEN Inner.to = axes /\ (moodCallback => told = MoodAt(Inner.from))
         ELSE moodCallback => told = MoodAt(axes)

EmotionIInv == Snapped /\ Reports
=============================================================================
