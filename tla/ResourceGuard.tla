--------------------------- MODULE ResourceGuard ---------------------------
(***************************************************************************)
(* backend/core/resource_guard.py: the sampler feeds snapshots into a      *)
(* rolling window, the level follows the smoothed peak, and acquire        *)
(* answers every heavy operation from the window and the level.            *)
(*                                                                         *)
(* Ratios are percents. A mean over n <= RollingWindow samples is kept     *)
(* exact by measuring it in units of 1/Scale percent, where every n        *)
(* divides Scale. A sampler that raises changes nothing and is a stutter.  *)
(***************************************************************************)
EXTENDS Integers, Sequences, FiniteSets, FiniteSetsExt

CONSTANTS
    Resources,      \* vram, gpu_util, ram, cpu, disk
    Absent,         \* the reading of a resource the host does not have
    Loads,          \* Loads[r]: what a sample of r may read, percents or Absent
    RollingWindow,  \* settings.rolling_window
    Scale,          \* a common multiple of 1 .. RollingWindow
    Ceiling,        \* settings.resource_ceiling, in percent
    LadderPercent,  \* settings.ladder_thresholds, in percent
    MarginPercent   \* settings.hysteresis_margin, in percent

ASSUME WindowAssumption == RollingWindow \in Nat \ {0}
ASSUME ScaleAssumption ==
    Scale \in Nat \ {0} /\ \A n \in 1 .. RollingWindow : Scale % n = 0
ASSUME LoadsAssumption == Loads \in [Resources -> SUBSET (Nat \cup {Absent})]
ASSUME ResourcesAssumption == IsFiniteSet(Resources) /\ Absent \notin Nat
ASSUME ThresholdsAssumption ==
    /\ LadderPercent \in [1 .. 4 -> Nat] /\ MarginPercent \in Nat /\ Ceiling \in Nat

VARIABLES
    window,    \* the last RollingWindow snapshots, oldest first
    level      \* the degradation level

vars == <<window, level>>

Snapshots ==
    {s \in [Resources -> UNION {Loads[r] : r \in Resources}] :
        \A r \in Resources : s[r] \in Loads[r]}

(***************************************************************************)
(* Smoothing: the mean of each resource over the window, ignoring samples  *)
(* in which it was absent; absent if it was never read.                    *)
(***************************************************************************)
Known(w, r) == {i \in DOMAIN w : w[i][r] # Absent}

Total(w, r) ==
    LET sum[n \in 0 .. Len(w)] ==
            IF n = 0 THEN 0
            ELSE sum[n - 1] + (IF n \in Known(w, r) THEN w[n][r] ELSE 0)
    IN  sum[Len(w)]

\* Mutant: a missing reading counts as 0.
SmoothedOverAll(w) ==
    [r \in Resources |->
        IF Known(w, r) = {} THEN Absent ELSE Total(w, r) * (Scale \div Len(w))]

Smoothed(w) ==
    [r \in Resources |->
        IF Known(w, r) = {} THEN Absent
        ELSE Total(w, r) * (Scale \div Cardinality(Known(w, r)))]

\* The highest known usage, 0 when nothing is known.
PeakOf(ratios) ==
    Max({0} \cup ({ratios[r] : r \in Resources} \ {Absent}))

peak == PeakOf(Smoothed(window))

Ladder == [k \in DOMAIN LadderPercent |-> LadderPercent[k] * Scale]
Margin == MarginPercent * Scale

(***************************************************************************)
(* _recompute_level: the two loops, as the level each of them exits with.  *)
(***************************************************************************)
\* Mutant: `if` for `while`, one rung per sample.
EscalateOnce(l, p) == IF l < 4 /\ p >= Ladder[l + 1] THEN l + 1 ELSE l

Escalate(l, p) ==
    CHOOSE u \in l .. 4 : /\ \A k \in l + 1 .. u : p >= Ladder[k]
                          /\ u = 4 \/ p < Ladder[u + 1]

\* Mutant: no hysteresis margin.
DeescalateAtRung(l, p) ==
    CHOOSE d \in 0 .. l : /\ \A k \in d + 1 .. l : p < Ladder[k]
                          /\ d = 0 \/ p >= Ladder[d]

\* Mutant: one rung per sample.
DeescalateOnce(l, p) == IF l > 0 /\ p < Ladder[l] - Margin THEN l - 1 ELSE l

Deescalate(l, p) ==
    CHOOSE d \in 0 .. l : /\ \A k \in d + 1 .. l : p < Ladder[k] - Margin
                          /\ d = 0 \/ p >= Ladder[d] - Margin

RecomputeLevel(l, p) == Deescalate(Escalate(l, p), p)

Init ==
    /\ window = <<>>
    /\ level = 0

\* Mutant: a deque without a maxlen.
PushForever(w, snap) == Append(w, snap)

\* deque(maxlen = RollingWindow): the oldest snapshot falls out.
Push(w, snap) ==
    IF Len(w) < RollingWindow THEN Append(w, snap) ELSE Append(Tail(w), snap)

\* One reading of the sampler: the seeding one of start or one of the loop.
Feed(snap) ==
    /\ window' = Push(window, snap)
    /\ level' = RecomputeLevel(level, PeakOf(Smoothed(window')))

Next == \E snap \in Snapshots : Feed(snap)

Spec == Init /\ [][Next]_vars

(***************************************************************************)
(* acquire: a need is the extra load per resource, how long the job has    *)
(* waited relative to the deferral budget, and whether it opens a session. *)
(***************************************************************************)
Needs == [extra : [Resources -> {0, 40}], starved : BOOLEAN, new : BOOLEAN]

Projected(need) ==
    [r \in Resources |->
        LET base == Smoothed(window)[r]
        IN  IF base = Absent THEN Absent ELSE base + need.extra[r] * Scale]

WouldCross(need) ==
    \E r \in Resources :
        LET p == Projected(need)[r] IN p # Absent /\ p >= Ceiling * Scale

\* Mutant: background work asks only the ladder, not what it would add.
ColdByLadder(l, cross, starved) ==
    IF l = 0 THEN "full" ELSE IF starved /\ ~cross THEN "degraded" ELSE "defer"

ColdAdmission(l, cross, starved) ==
    CASE l = 0 /\ ~cross                  -> "full"
      [] (l > 0 \/ cross) /\ starved /\ ~cross -> "degraded"
      [] OTHER                            -> "defer"

HotAdmission(l, cross, new) ==
    CASE l >= 4 /\ new                    -> "reject"
      [] ~(l >= 4 /\ new) /\ (l >= 2 \/ cross) -> "degraded"
      [] OTHER                            -> "full"

Acquire(need, path) ==
    IF path = "cold"
    THEN ColdAdmission(level, WouldCross(need), need.starved)
    ELSE HotAdmission(level, WouldCross(need), need.new)

-----------------------------------------------------------------------------
TypeOK ==
    /\ Len(window) <= RollingWindow
    /\ \A i \in DOMAIN window : window[i] \in Snapshots
    /\ level \in 0 .. 4

(***************************************************************************)
(* The guard implements the ladder: its level follows the smoothed peak    *)
(* and nothing else, whatever samples produced that peak.                  *)
(***************************************************************************)
Abstract == INSTANCE DegradationLadder WITH Peaks <- Nat
LadderSpec == Abstract!Spec

\* No flapping (settings.py:84-86): see DegradationLadder, here of the guard.
NoFlap == Abstract!NoFlap

\* Every protection whose threshold the smoothed peak has reached is engaged
\* (settings.py:95-97): see DegradationLadder.
ProtectionsEngaged == Abstract!ProtectionsEngaged

WindowFull == Len(window) = RollingWindow

(***************************************************************************)
(* A resource whose every reading in the window is at the level-4 rung     *)
(* engages level 4, however many samples missed it, whatever the others    *)
(* read and however the level got there: neither a missing reading nor a   *)
(* calm resource averages a saturated one away (_smoothed takes the mean   *)
(* of what was read, per resource, and peak is their maximum).             *)
(***************************************************************************)
SustainedPressureEngages ==
    (\E r \in Resources :
        /\ Known(window, r) # {}
        /\ \A i \in Known(window, r) : window[i][r] >= LadderPercent[4])
    => level = 4

(***************************************************************************)
(* A full window of readings a margin below the first rung releases every  *)
(* degradation: the ladder does not remember how high it was.              *)
(***************************************************************************)
CalmRecovers ==
    (WindowFull /\ \A r \in Resources : \A i \in DOMAIN window :
                      window[i][r] # Absent
                          => window[i][r] < LadderPercent[1] - MarginPercent)
        => level = 0

(***************************************************************************)
(* Background work yields first: in no state is a hot operation shaped or  *)
(* refused while a fresh cold one with the same estimate would be let      *)
(* through in full (the two branches of acquire, resource_guard.py:371-414)*)
(***************************************************************************)
ColdYieldsFirst ==
    \A need \in Needs :
        Acquire(need, "hot") # "full" => Acquire(need, "cold") \in {"defer", "degraded"}
                                        /\ (~need.starved => Acquire(need, "cold") = "defer")

=============================================================================
