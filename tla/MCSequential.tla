---------------------------- MODULE MCSequential ----------------------------
(***************************************************************************)
(* One run for the components that one thread uses at a time.  They share   *)
(* no state, so that it is enough to explore each of them while the others  *)
(* stay where they started.                                                *)
(***************************************************************************)
EXTENDS RingBuffer, EmotionalState, WeightedSet

\* In quarters: -6.0, -0.25, 0.0 and 1.5 for one coordinate; for the other one
\* two values on either side of the quadrant border, and zero; an adjustment
\* of -10.0 moves any coordinate to the lower end.
MCPleasantnesses == {-24, -1, 0, 6}
MCEnergies == {0, 4}
MCDeltas == {-40, 0}

Symmetry == Permutations(Values)

SequentialInit == RingInit /\ EmotionInit /\ WeightedInit

\* The emotional state has several initial states; beside the containers one
\* of them is enough.
EmotionRests == EmotionInit /\ pleasantness = 0 /\ energy = 0

SequentialNext ==
    \/ RingNext /\ EmotionRests /\ WeightedInit
         /\ UNCHANGED <<emotionVars, weightedVars>>
    \/ WeightedNext /\ EmotionRests /\ RingInit
         /\ UNCHANGED <<emotionVars, ringVars>>
    \/ EmotionNext /\ RingInit /\ WeightedInit
         /\ UNCHANGED <<ringVars, weightedVars>>

SequentialSpec ==
    SequentialInit /\ [][SequentialNext]_<<ringVars, emotionVars, weightedVars>>
=============================================================================
