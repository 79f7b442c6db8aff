------------------------- MODULE DegradationLadder -------------------------
(***************************************************************************)
(* What the degradation ladder of backend/core/resource_guard.py promises, *)
(* stated without samples, windows or means: a level 0..4 that follows one *)
(* number, the peak usage over all resources.                              *)
(*                                                                         *)
(* The two while loops of _recompute_level are stated by their result:     *)
(* which level a climb (a descent) from a given level stops at.            *)
(***************************************************************************)
EXTENDS Integers

CONSTANTS
    Ladder,    \* Ladder[k]: peak usage at which level k is entered
    Margin,    \* hysteresis: how far below Ladder[k] level k is left
    Peaks      \* the peaks the hardware may show

MaxLevel == 4
Levels == 0 .. MaxLevel

\* What the theorems ask of the constants. Nothing orders the rungs.
LadderAssumption == Ladder \in [1 .. MaxLevel -> Nat \ {0}]
MarginAssumption == Margin \in Nat
PeaksAssumption == Peaks \subseteq Nat
Assumptions == LadderAssumption /\ MarginAssumption /\ PeaksAssumption

VARIABLES
    level,     \* the guard's degradation level
    peak       \* the smoothed peak usage the level was last computed from

vars == <<level, peak>>

(***************************************************************************)
(* Escalation: climb from `from` while the next rung is reached.           *)
(***************************************************************************)
ClimbsTo(from, to, p) ==
    /\ to >= from
    /\ \A k \in 1 .. MaxLevel : (from < k /\ k <= to) => p >= Ladder[k]
    /\ to < MaxLevel => p < Ladder[to + 1]

(***************************************************************************)
(* De-escalation: descend while the peak is a margin below the rung left.  *)
(***************************************************************************)
DescendsTo(from, to, p) ==
    /\ to <= from
    /\ \A k \in 1 .. MaxLevel : (to < k /\ k <= from) => p < Ladder[k] - Margin
    /\ to > 0 => p >= Ladder[to] - Margin

Recompute(from, to, p) ==
    \E top \in Levels : ClimbsTo(from, top, p) /\ DescendsTo(top, to, p)

Init ==
    /\ level = 0
    /\ peak = 0

\* One sample is ingested: the peak is whatever the hardware says.
Observe ==
    /\ peak' \in Peaks
    /\ level' \in Levels
    /\ Recompute(level, level', peak')

Next == Observe

Spec == Init /\ [][Next]_vars

-----------------------------------------------------------------------------
TypeOK ==
    /\ level \in Levels
    /\ peak \in Nat

(***************************************************************************)
(* The level is always the right one for the peak, up to the hysteresis:   *)
(* its own rung is not a whole margin away and the next one is not reached *)
(* (resource_guard.py, the exits of both loops of _recompute_level).       *)
(***************************************************************************)
LevelBand ==
    /\ level > 0 => peak >= Ladder[level] - Margin
    /\ level < MaxLevel => peak < Ladder[level + 1]

\* The rungs are in ascending order, as settings.py's docstring says they are.
Ascending == \A j, k \in 1 .. MaxLevel : j <= k => Ladder[j] <= Ladder[k]

(***************************************************************************)
(* Every protection whose threshold is reached is engaged: no rung is      *)
(* skipped, so at the level-4 threshold new sessions are protected         *)
(* against (settings.py:95-97). True only of an ascending ladder.          *)
(***************************************************************************)
ProtectionsEngaged ==
    \A k \in 1 .. MaxLevel : peak >= Ladder[k] => level >= k

(***************************************************************************)
(* The ladder does not flap (settings.py:84-86): a level is only lost when *)
(* the peak falls the margin below that level's own rung, only gained when *)
(* the peak is at the rung gained, and a steady peak never moves it.       *)
(***************************************************************************)
NoFlapStep ==
    /\ level' < level => peak' < Ladder[level] - Margin
    /\ level' > level => peak' >= Ladder[level']
    /\ peak' = peak => level' = level
NoFlap == [][NoFlapStep]_vars
=============================================================================
