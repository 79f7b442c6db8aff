---------------------- MODULE DegradationLadderProofs ----------------------
(***************************************************************************)
(* The degradation ladder, proved for every ladder, margin and sequence of *)
(* peaks. The band needs no ordering of the rungs and nothing of the old   *)
(* state: both loops run to their exit, so one step establishes it from    *)
(* any level. Stability and hysteresis then follow from the band.          *)
(***************************************************************************)
EXTENDS DegradationLadder, TLAPS

\* What the assumptions say, in the form the leaves below use.
LEMMA ConstantsTyped ==
    ASSUME Assumptions
    PROVE  /\ \A k \in 1 .. MaxLevel : Ladder[k] \in Nat \ {0}
           /\ Margin \in Nat
           /\ Peaks \subseteq Nat
BY DEF Assumptions, LadderAssumption, MarginAssumption, PeaksAssumption

(***************************************************************************)
(* Where the two loops of _recompute_level end up: in the band of the      *)
(* level reached, from whichever level they started.                       *)
(***************************************************************************)
LEMMA RecomputeEndsInBand ==
    ASSUME Assumptions, NEW from \in Levels, NEW to \in Levels, NEW p \in Nat,
           Recompute(from, to, p)
    PROVE  /\ to > 0 => p >= Ladder[to] - Margin
           /\ to < MaxLevel => p < Ladder[to + 1]
<1>1. PICK top \in Levels : ClimbsTo(from, top, p) /\ DescendsTo(top, to, p)
  BY DEF Recompute
<1>2. to > 0 => p >= Ladder[to] - Margin
  BY <1>1 DEF DescendsTo
<1>3. ASSUME to < MaxLevel PROVE p < Ladder[to + 1]
  <2>1. CASE to = top
    BY <1>1, <1>3, <2>1 DEF ClimbsTo
  <2>2. CASE to # top
    <3>1. to + 1 \in 1 .. MaxLevel /\ to + 1 <= top
      BY <1>1, <1>3, <2>2 DEF DescendsTo, Levels, MaxLevel
    <3>2. p < Ladder[to + 1] - Margin
      BY <1>1, <3>1 DEF DescendsTo, Levels
    <3> QED BY <3>1, <3>2, ConstantsTyped
  <2> QED BY <2>1, <2>2
<1> QED BY <1>2, <1>3

(***************************************************************************)
(* A level is lost only a margin below its own rung, and gained only at    *)
(* the rung gained.                                                        *)
(***************************************************************************)
LEMMA RecomputeMovesFarEnough ==
    ASSUME Assumptions, NEW from \in Levels, NEW to \in Levels, NEW p \in Nat,
           Recompute(from, to, p)
    PROVE  /\ to < from => p < Ladder[from] - Margin
           /\ to > from => p >= Ladder[to]
<1>1. PICK top \in Levels : ClimbsTo(from, top, p) /\ DescendsTo(top, to, p)
  BY DEF Recompute
<1>2. ASSUME to < from PROVE p < Ladder[from] - Margin
  <2>1. from \in 1 .. MaxLevel /\ from <= top
    BY <1>1, <1>2 DEF ClimbsTo, Levels, MaxLevel
  <2> QED BY <1>1, <1>2, <2>1 DEF DescendsTo
<1>3. ASSUME to > from PROVE p >= Ladder[to]
  <2>1. to \in 1 .. MaxLevel /\ to <= top
    BY <1>1, <1>3 DEF DescendsTo, Levels, MaxLevel
  <2> QED BY <1>1, <1>3, <2>1 DEF ClimbsTo
<1> QED BY <1>2, <1>3

(***************************************************************************)
(* A peak the level is already in the band of leaves it where it is.       *)
(***************************************************************************)
LEMMA BandIsStable ==
    ASSUME Assumptions, NEW from \in Levels, NEW to \in Levels, NEW p \in Nat,
           Recompute(from, to, p),
           from > 0 => p >= Ladder[from] - Margin,
           from < MaxLevel => p < Ladder[from + 1]
    PROVE  to = from
<1>1. ~(to < from)
  <2> SUFFICES ASSUME to < from PROVE FALSE
    OBVIOUS
  <2>1. p < Ladder[from] - Margin
    BY RecomputeMovesFarEnough
  <2>2. from \in 1 .. MaxLevel
    BY DEF Levels, MaxLevel
  <2> QED BY <2>1, <2>2, ConstantsTyped
<1>2. ~(to > from)
  <2> SUFFICES ASSUME to > from PROVE FALSE
    OBVIOUS
  <2>1. PICK top \in Levels : ClimbsTo(from, top, p) /\ DescendsTo(top, to, p)
    BY DEF Recompute
  <2>2. from + 1 \in 1 .. MaxLevel /\ from < from + 1 /\ from + 1 <= top /\ from < MaxLevel
    BY <2>1 DEF DescendsTo, Levels, MaxLevel
  <2>3. p >= Ladder[from + 1]
    BY <2>1, <2>2 DEF ClimbsTo
  <2> QED BY <2>2, <2>3, ConstantsTyped
<1> QED BY <1>1, <1>2 DEF Levels

(***************************************************************************)
(* The types, kept as an invariant of every behaviour.                     *)
(***************************************************************************)
THEOREM TypeCorrect ==
    ASSUME Assumptions
    PROVE  Spec => []TypeOK
<1>1. Init => TypeOK
  BY DEF Init, TypeOK, Levels, MaxLevel
<1>2. TypeOK /\ [Next]_vars => TypeOK'
  BY ConstantsTyped DEF TypeOK, Next, Observe, vars
<1> QED BY <1>1, <1>2, PTL DEF Spec

(***************************************************************************)
(* The level is in the band of the peak it was computed from, for every    *)
(* ladder, ordered or not, and every margin.                               *)
(***************************************************************************)
THEOREM LevelInBand ==
    ASSUME Assumptions
    PROVE  Spec => []LevelBand
<1>1. Init => LevelBand
  BY ConstantsTyped DEF Init, LevelBand, MaxLevel
<1>2. TypeOK /\ LevelBand /\ [Next]_vars => LevelBand'
  <2> SUFFICES ASSUME TypeOK, LevelBand, [Next]_vars PROVE LevelBand'
    OBVIOUS
  <2>1. CASE Observe
    <3>1. level' \in Levels /\ peak' \in Nat /\ Recompute(level, level', peak')
      BY <2>1, ConstantsTyped DEF Observe
    <3> QED BY <3>1, RecomputeEndsInBand DEF TypeOK, LevelBand
  <2>2. CASE UNCHANGED vars
    BY <2>2 DEF vars, LevelBand
  <2> QED BY <2>1, <2>2 DEF Next
<1> QED BY <1>1, <1>2, TypeCorrect, PTL DEF Spec

(***************************************************************************)
(* An ascending ladder skips no protection: every rung the peak has        *)
(* reached is engaged.                                                     *)
(***************************************************************************)
THEOREM EveryProtectionEngaged ==
    ASSUME Assumptions, Ascending
    PROVE  Spec => []ProtectionsEngaged
<1>1. TypeOK /\ LevelBand => ProtectionsEngaged
  <2> SUFFICES ASSUME TypeOK, LevelBand,
                      NEW k \in 1 .. MaxLevel, peak >= Ladder[k], level < k
               PROVE  FALSE
    BY DEF ProtectionsEngaged, TypeOK, Levels, MaxLevel
  <2>1. level + 1 \in 1 .. MaxLevel /\ level + 1 <= k /\ level < MaxLevel
    BY DEF TypeOK, Levels, MaxLevel
  <2>2. Ladder[level + 1] <= Ladder[k]
    BY <2>1 DEF Ascending
  <2>3. peak < Ladder[level + 1]
    BY <2>1 DEF LevelBand
  <2> QED BY <2>1, <2>2, <2>3, ConstantsTyped DEF TypeOK
<1> QED BY <1>1, TypeCorrect, LevelInBand, PTL

(***************************************************************************)
(* The ladder never flaps: hysteresis for every ladder and margin.         *)
(***************************************************************************)
THEOREM LadderNeverFlaps ==
    ASSUME Assumptions
    PROVE  Spec => NoFlap
<1>1. TypeOK /\ LevelBand /\ [Next]_vars => [NoFlapStep]_vars
  <2> SUFFICES ASSUME TypeOK, LevelBand, Observe PROVE NoFlapStep
    BY DEF Next
  <2>1. /\ level \in Levels /\ level' \in Levels /\ peak' \in Nat
        /\ Recompute(level, level', peak')
    BY ConstantsTyped DEF Observe, TypeOK
  <2>2. /\ level' < level => peak' < Ladder[level] - Margin
        /\ level' > level => peak' >= Ladder[level']
    BY <2>1, RecomputeMovesFarEnough
  <2>3. ASSUME peak' = peak PROVE level' = level
    BY <2>1, <2>3, BandIsStable DEF LevelBand
  <2> QED BY <2>2, <2>3 DEF NoFlapStep
<1> QED BY <1>1, TypeCorrect, LevelInBand, PTL DEF Spec, NoFlap
=============================================================================
