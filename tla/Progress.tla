------------------------------- MODULE Progress -------------------------------
(***************************************************************************)
(* What a learner is told of their progress, computed from the record:     *)
(* persistence/progress.py, coldpath/gap_analysis.py, planner.py and       *)
(* feedback.py. Absent stands for a value the code leaves out.             *)
(*                                                                         *)
(* A view reads the assessments several times, every time in a transaction *)
(* of its own, while the worker and other requests store more of them. An  *)
(* operator therefore takes the rows each of its reads found; assessments  *)
(* are only ever added, so that an earlier read found the first few of     *)
(* what a later one finds.                                                 *)
(***************************************************************************)
EXTENDS LearnerRecord

CONSTANTS
    AssessmentLimit,  \* list_for_user(limit=1000)
    TrendTime,        \* skill_trend(days=30)
    MinPoints,        \* time_to_next_level(min_points=3)
    Offset,           \* of the server's clock from UTC, negative west of it
    Absent

ASSUME ProgressAssumption ==
    /\ AssessmentLimit \in Nat /\ TrendTime \in Nat
    /\ MinPoints \in 1 .. AssessmentLimit
    /\ Offset \in Int
    /\ Absent \notin Int
    /\ Absent \notin [next : Nat, needed : Nat]
    /\ Absent \notin [session : Nat, utterance : Nat, scores : Cards,
                    overall : Nat, created_at : Nat]

TargetScore == 85     \* settings.gap_target_score
FocusCount == 3

latest_for_user(rows) == IF rows = <<>> THEN Absent ELSE Last(rows)

\* list_for_user: the OLDEST up to the limit, oldest first.
Listed(rows) == First(AssessmentLimit, rows)

\* A cutoff is written in the server's time and a row is stamped in UTC. They
\* are compared as texts: the dates and times of day first, and of two equal
\* ones the text that ends in +00:00 comes before any other.
Cutoff(at, time) == at - time + Offset
Since(row, cutoff) ==
    row.created_at > cutoff \/ (row.created_at = cutoff /\ Offset = 0)
Until(row, cutoff) == row.created_at <= cutoff

\* skill_trend, of the overall score.
Trend(rows, cutoff) == Listed(Kept(rows, {i \in DOMAIN rows : Since(rows[i], cutoff)}))

-----------------------------------------------------------------------------
(* progress.py                                                             *)

\* _next_level_target: from the higher of the scored level and the floor.
NextLevelTarget(overall, floor) ==
    LET lvl == Max({level_for_overall(overall), floor}) IN
    IF lvl >= TopLevel THEN Absent
    ELSE [next |-> lvl + 1, needed |-> 100 * (Upper[lvl + 1] + 1)]

\* _linreg_slope of the overall score over time, as a fraction.
Slope(rows) ==
    LET n == Len(rows)
        x == [i \in DOMAIN rows |-> rows[i].created_at]
        y == [i \in DOMAIN rows |-> rows[i].overall]
    IN  [num |-> n * SumOf([i \in DOMAIN rows |-> x[i] * y[i]]) - SumOf(x) * SumOf(y),
         den |-> n * SumOf([i \in DOMAIN rows |-> x[i] * x[i]]) - SumOf(x) * SumOf(x)]

\* time_to_next_level: the estimate is in tenths of a unit of time.
time_to_next_level(rows, floor) ==
    IF Len(Listed(rows)) < MinPoints THEN [next |-> Absent, eta |-> Absent]
    ELSE LET overall == Last(Listed(rows)).overall
             target == NextLevelTarget(overall, floor)
             slope == Slope(Listed(rows))
         IN  IF target = Absent THEN [next |-> Absent, eta |-> Absent]
             ELSE [next |-> target.next,
                   eta |-> IF slope.den = 0 \/ slope.num <= 0 THEN Absent
                           ELSE Max({0, Rounded(10 * (target.needed - overall) * slope.den,
                                                slope.num)})]

\* overview: the level the user's row shows, the latest assessment, and then the
\* list that the target is computed from.
overview(level, before, rows) ==
    LET latest == latest_for_user(before)
        target == time_to_next_level(rows, level)
    IN  [current_level |-> level,
         latest_overall |-> IF latest = Absent THEN Absent ELSE latest.overall,
         scored_level |-> IF latest = Absent THEN Absent
                          ELSE level_for_overall(latest.overall),
         next |-> target.next,
         eta |-> target.eta]

-----------------------------------------------------------------------------
(* gap_analysis.py                                                         *)

\* current_gaps: severity in ten-thousandths, the most severe first.
MaxWeight == Max({weights[d] : d \in Dims})
Severity(d, score) ==
    Rounded(10000 * weights[d] * Max({0, TargetScore - score}), MaxWeight * TargetScore)

current_gaps(rows) ==
    LET latest == latest_for_user(rows) IN
    IF latest = Absent THEN <<>>
    ELSE LET scores == latest.scores
             ranked == SortedBy(InOrder(DOMAIN scores),
                                [d \in DOMAIN scores |-> -Severity(d, scores[d])])
         IN  [i \in DOMAIN ranked |->
                 [skill |-> ranked[i], score |-> scores[ranked[i]], rank |-> i,
                  gap |-> Max({0, TargetScore - scores[ranked[i]]}),
                  severity |-> Severity(ranked[i], scores[ranked[i]])]]

\* improvement: the last listed against the last up to the cutoff, or against
\* the first.
improvement(rows, time) ==
    LET list == Listed(rows)
        before == {i \in DOMAIN list : Until(list[i], Cutoff(now, time))}
        then == list[IF before = {} THEN 1 ELSE Max(before)].scores
        latest == Last(list).scores
    IN  IF Len(list) < 2 THEN [d \in {} |-> 0]
        ELSE [d \in DOMAIN latest \cap DOMAIN then |-> latest[d] - then[d]]

-----------------------------------------------------------------------------
(* planner.py and feedback.py                                              *)

\* The next level as the plan and the feedback ask for it, without a floor.
Goal(rows) == time_to_next_level(rows, 0).next

\* _difficulty, in hundredths: the latest assessment, and then the trend, whose
\* cutoff is written at some time in between.
Difficulty(before, rows, at) ==
    LET latest == latest_for_user(before)
        base == IF latest = Absent THEN 4000 ELSE latest.overall
        trend == Trend(rows, Cutoff(at, TrendTime))
        nudge == IF Len(trend) < 2 THEN 0
                 ELSE IF Last(trend).overall >= Head(trend).overall THEN 500 ELSE -500
    IN  Rounded(Max({0, Min({Perfect, base + nudge})}), 100)

\* Mutant: gaps ranked the wrong way round.
FocusOnTheBest(gaps) ==
    Kept(gaps, {i \in DOMAIN gaps : i > Len(gaps) - FocusCount /\ gaps[i].gap > 0})

\* The focus areas of a plan: the first gaps, if there is anything to gain.
FocusAreas(gaps) ==
    Kept(gaps, {i \in DOMAIN gaps : i <= FocusCount /\ gaps[i].gap > 0})

\* FeedbackBuilder.build, without the tips' wording: the goal, and then the
\* latest assessment.
feedback(before, rows) ==
    LET latest == latest_for_user(rows)
        scores == IF latest = Absent THEN [d \in {} |-> 0] ELSE latest.scores
        scored == SortedBy(InOrder(DOMAIN scores), [d \in DOMAIN scores |-> -scores[d]])
        n == Len(scored)
    IN  [next |-> Goal(before),
         overall |-> IF latest = Absent THEN Absent ELSE latest.overall,
         strengths |-> Kept(scored, {i \in 1 .. n : i <= 2 /\ scores[scored[i]] >= 65}),
         weaknesses |-> Reverse(Kept(scored, {i \in 1 .. n :
                                     i > n - 2 /\ scores[scored[i]] < 65}))]

-----------------------------------------------------------------------------
(* Properties, of views whose last read is made now.                       *)

\* What a read found when i assessments were stored.
Found(i) == First(i, assessments)

\* Whatever is stored between its reads, the overview names as the level to
\* reach one above the level it shows, and the score that needs is still to be
\* gained while the record fits the query; beside a score that is already there
\* it is shown only when a lower one was stored in between. The feedback, which
\* reads the other way round, names a goal that its score has reached only when
\* a higher one was stored in between. On the same rows plan and feedback name
\* no higher level than the overview, and the same unless the learner is shown
\* one above the scored one. An estimate is given only if some score rose. A
\* change since TrendTime is told only of a score stamped later than the cutoff:
\* west of UTC that is one older than TrendTime.
\* progress.py:82-168, planner.py:70, feedback.py:46-60, gap_analysis.py:72-105
TargetsAhead ==
    assessments # <<>> => \A i \in 0 .. Len(assessments) :
    LET fits == Len(assessments) <= AssessmentLimit
        list == Listed(assessments)
        latest == Last(assessments).overall
        goal == Goal(Found(i))
    IN  /\ \A level \in 0 .. TopLevel :
              \A shown \in {overview(level, Found(i), assessments)} :
              /\ shown.next # Absent =>
                    /\ shown.next \in level + 1 .. TopLevel
                    /\ fits => 100 * Upper[shown.next] >= latest
                    /\ (fits /\ i > 0 /\ shown.scored_level >= shown.next)
                          => shown.latest_overall > latest
                    /\ Goal(assessments) \in 1 .. shown.next
              /\ level <= level_for_overall(Last(list).overall)
                    => shown.next = Goal(assessments)
              /\ shown.eta # Absent =>
                    \E j, k \in DOMAIN list : j < k /\ list[j].overall < list[k].overall
        /\ (fits /\ goal # Absent /\ level_for_overall(latest) >= goal)
              => assessments[i].overall < latest
        /\ \A change \in {improvement(Found(i), TrendTime)} :
              (\E d \in DOMAIN change : change[d] # 0)
                 => Last(Listed(Found(i))).created_at > Cutoff(now, TrendTime)

\* The plan works on what is furthest behind: a dimension below the target is
\* left out only for three that are at least as pressing. What the feedback
\* calls a weakness is no less pressing than a strength of no more weight. And
\* whenever its two reads and its cutoff were made, practice is set below the
\* latest score only if of two scores in the window the later is the lower, and
\* above it only if it is not. gap_analysis.py:35-63, planner.py:67-113,
\* feedback.py:57-65
PlanServesTheWorst ==
    assessments # <<>> =>
    /\ \A gaps \in {current_gaps(assessments)}, told \in {feedback(<<>>, assessments)} :
       \A focus \in {FocusAreas(gaps)} :
       LET planned == {focus[i].skill : i \in DOMAIN focus}
           severity(d) == gaps[CHOOSE i \in DOMAIN gaps : gaps[i].skill = d].severity
       IN  /\ \A i, j \in DOMAIN gaps :
                 (gaps[i].skill \in planned /\ gaps[j].skill \notin planned)
                     => gaps[i].severity >= gaps[j].severity
           /\ \A i \in DOMAIN gaps :
                 (gaps[i].gap > 0 /\ gaps[i].skill \notin planned)
                     => Cardinality(planned) = FocusCount
           /\ \A w \in ToSet(told.weaknesses), s \in ToSet(told.strengths) :
                 weights[w] >= weights[s] => severity(w) >= severity(s)
    /\ \A i \in 1 .. Len(assessments), at \in 0 .. now :
       LET base == assessments[i].overall
           set == 100 * Difficulty(Found(i), assessments, at)
           window == {k \in DOMAIN assessments :
                         Since(assessments[k], Cutoff(at, TrendTime))}
           follow(j, k) == assessments[k].overall - assessments[j].overall
       IN  /\ set + 50 < base => \E j, k \in window : j < k /\ follow(j, k) < 0
           /\ set - 50 > base => \E j, k \in window : j < k /\ follow(j, k) >= 0

\* What a learner is told of their progress.
ReportsAgree == TargetsAhead /\ PlanServesTheWorst
=============================================================================
