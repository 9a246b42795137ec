---------------------------- MODULE WeightedSet ----------------------------
(***************************************************************************)
(* obz::weighted_set: an unordered_map from values to positive weights and  *)
(* a cached total, both unsigned with MaxWeight as the largest number.      *)
(* Several objects are modelled because copies and moves relate two of     *)
(* them.  A call that throws or returns false changes nothing, except for a *)
(* copy assignment that throws while it copies the map.                    *)
(***************************************************************************)
EXTENDS Integers, FiniteSets, Functions, FiniteSetsExt, SequencesExt

CONSTANTS
    Objects,     \* weighted_set objects
    Values,      \* values they may hold
    MaxWeight    \* numeric_limits<uint64_t>::max()

ASSUME MaxWeightAssumption == MaxWeight \in Nat \ {0}

VARIABLES
    weights,     \* weights[o]: weights_, a function from the stored values
    total,       \* total[o]: total_weight_
    drift        \* drift[o]: history, by how much a move or a copy assignment
                 \* that threw left total[o] beside the sum of the weights

weightedVars == <<weights, total, drift>>

Wrap(n) == n % (MaxWeight + 1)          \* unsigned arithmetic
Weight == 1 .. MaxWeight                \* validate_weight rejects 0
Has(o, v) == v \in DOMAIN weights[o]
Set(o, w, t) ==
    /\ weights' = [weights EXCEPT ![o] = w]
    /\ total' = [total EXCEPT ![o] = t]

WeightedInit ==
    /\ weights = [o \in Objects |-> <<>>]
    /\ total = [o \in Objects |-> 0]
    /\ drift = [o \in Objects |-> 0]

\* A value holds as many tickets as its weight; there are as many tickets as
\* the sum of the weights.
Tickets(w) == {t \in (DOMAIN w) \X Weight : t[2] <= w[t[1]]}

Unlimited(o, w) == TRUE               \* faulty: no ensure_can_add
Fits(o, w) == w <= MaxWeight - total[o]

Insert(o, v, w) ==
    /\ ~Has(o, v) /\ Fits(o, w)
    /\ Set(o, [x \in DOMAIN weights[o] \cup {v} |->
                  IF x = v THEN w ELSE weights[o][x]], Wrap(total[o] + w))
    /\ UNCHANGED drift

Erase(o, v) ==
    /\ Has(o, v)
    /\ Set(o, Restrict(weights[o], DOMAIN weights[o] \ {v}),
           Wrap(total[o] + MaxWeight + 1 - weights[o][v]))
    /\ UNCHANGED drift

SetWeight(o, v, w) ==
    /\ Has(o, v)
    /\ LET remaining == Wrap(total[o] + MaxWeight + 1 - weights[o][v])
       IN  /\ w <= MaxWeight - remaining
           /\ Set(o, [weights[o] EXCEPT ![v] = w], Wrap(remaining + w))
    /\ UNCHANGED drift

ClearAll(o) ==
    /\ Set(o, <<>>, 0)
    /\ drift' = [drift EXCEPT ![o] = 0]

\* Copy construction and copy assignment.
Copy(to, from) ==
    /\ Set(to, weights[from], total[from])
    /\ drift' = [drift EXCEPT ![to] = drift[from]]

\* The defaulted copy assignment assigns weights_ first.  Where that throws, the
\* map holds those entries that were copied before (none, after a clear), and
\* total_weight_ is not assigned any more.
CopyThrows(to, from) ==
    \E copied \in (SUBSET DOMAIN weights[from]) \ {DOMAIN weights[from]} :
        LET part == Restrict(weights[from], copied)
        IN  /\ Set(to, part, total[to])
            /\ drift' = [drift EXCEPT ![to] =
                           total[to] - Cardinality(Tickets(part))]

\* The defaulted moves: the map is left empty, the integer is only copied.
Move(to, from) ==
    /\ weights' = [weights EXCEPT ![to] = weights[from], ![from] = <<>>]
    /\ total' = [total EXCEPT ![to] = total[from]]
    /\ drift' = [drift EXCEPT ![to] = drift[from], ![from] = total[from]]

WeightedNext ==
    \E o \in Objects :
        \/ \E v \in Values, w \in Weight :
             Insert(o, v, w) \/ SetWeight(o, v, w)
        \/ \E v \in Values : Erase(o, v)
        \/ ClearAll(o)
        \/ \E from \in Objects \ {o} :
             Copy(o, from) \/ CopyThrows(o, from) \/ Move(o, from)

WeightedSpec == WeightedInit /\ [][WeightedNext]_weightedVars

\* random(): walks the entries in the map's order, which is any order, and
\* returns the first whose cumulative weight exceeds the drawn target.
Cumulative(o, order) ==
    LET sum[k \in 0 .. Len(order)] ==
          IF k = 0 THEN 0 ELSE Wrap(sum[k - 1] + weights[o][order[k]])
    IN  sum

ReachedTooEarly(target, sum) == target <= sum   \* faulty
Reached(target, sum) == target < sum

Selected(o, order, target) ==
    LET hits == {k \in 1 .. Len(order) :
                   Reached(target, Cumulative(o, order)[k])}
    IN  IF hits = {} THEN {} ELSE {order[Min(hits)]}   \* {}: logic_error

-----------------------------------------------------------------------------

SumOf(o) == Cardinality(Tickets(weights[o]))

\* Each variable has its type.
WeightedTypeOK ==
    /\ DOMAIN weights = Objects /\ DOMAIN total = Objects
    /\ \A o \in Objects : /\ DOMAIN weights[o] \subseteq Values
                          /\ IsFiniteSet(DOMAIN weights[o])
                          /\ Range(weights[o]) \subseteq Weight
                          /\ total[o] \in 0 .. MaxWeight
    /\ drift \in [Objects -> Int]

\* The class owns the invariant that total_weight() is the sum of all stored
\* weights (README of weighted_set).  A moved-from object breaks it, and so does
\* one whose copy assignment threw.
TotalIsSum == \A o \in Objects : total[o] = SumOf(o)

\* No other call does: after any sequence of calls the total of an object is the
\* sum of its weights and what was left beside it.  Nothing wraps around unless
\* a copy assignment threw and left a total below the sum.
TotalIsSumAndDrift ==
    /\ WeightedTypeOK
    /\ \A o \in Objects :
         /\ total[o] = Wrap(SumOf(o) + drift[o])
         /\ drift[o] >= 0 => total[o] = SumOf(o) + drift[o]

\* random() of a set that is not empty and whose total is not below the sum of
\* its weights: in every iteration order each value is drawn by exactly as many
\* targets as its weight, and no target falls off the end except the ones that
\* the total is too large by.  A moved-from set that is filled again has such
\* targets; a total below the sum cuts off the values at the end.
RandomIsProportional ==
    \A o \in Objects : DOMAIN weights[o] # {} /\ SumOf(o) <= total[o] =>
        \A order \in SetToSeqs(DOMAIN weights[o]) :
            LET Draws(hit) == Cardinality({t \in 0 .. Wrap(total[o] + MaxWeight) :
                                             Selected(o, order, t) = hit})
            IN  /\ \A v \in DOMAIN weights[o] : Draws({v}) = weights[o][v]
                /\ Draws({}) = total[o] - SumOf(o)
=============================================================================
