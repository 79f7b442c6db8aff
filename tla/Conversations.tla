---------------------------- MODULE Conversations ----------------------------
(***************************************************************************)
(* The views on what a learner has said, computed from the record:         *)
(* coldpath/conversation.py and the activity of persistence/admin_stats.py.*)
(* Transcripts are numbers of words; corrections and notes are copied out  *)
(* of the evaluators' payloads and are left out.                           *)
(***************************************************************************)
EXTENDS Progress

CONSTANTS
    ListLimit,     \* conversations of the list (100)
    OverallLimit,  \* and of the overall analysis (200)
    HistoryTalks,  \* sessions history reads (200)
    HistoryLimit,  \* messages history stops at (500)
    Days           \* days of the activity view (365)

ASSUME ConversationsAssumption ==
    {ListLimit, OverallLimit, HistoryTalks, HistoryLimit, Days} \subseteq Nat

STRONG == 750      \* in tenths of a point, like every average
WEAK == 600

\* _mean_scores: over the assessments that have the dimension.
MeanScores(rows) ==
    LET having(d) == {i \in DOMAIN rows : d \in DOMAIN rows[i].scores} IN
    [d \in {d \in Dims : having(d) # {}} |->
        Rounded(10 * SumOf([i \in having(d) |-> rows[i].scores[d]]),
                Cardinality(having(d)))]

\* _avg of overall scores, and of averages.
AvgOverall(rows) ==
    IF rows = <<>> THEN Absent
    ELSE Rounded(SumOf([i \in DOMAIN rows |-> rows[i].overall]), 10 * Len(rows))

\* _top: the best three that are strong, the worst three that are weak. Of two
\* equals the one whose dimension comes first in dims stays first.
Strengths(dims, scores) ==
    LET sorted == SortedBy(dims, [d \in ToSet(dims) |-> -scores[d]])
    IN  First(3, Kept(sorted, {i \in DOMAIN sorted : scores[sorted[i]] >= STRONG}))
Weaknesses(dims, scores) ==
    LET sorted == SortedBy(dims, scores)
    IN  First(3, Kept(sorted, {i \in DOMAIN sorted : scores[sorted[i]] < WEAK}))

\* _recommendations: of the three lowest, those that are not strong.
Recommendations(dims, scores) ==
    LET lowest == First(3, SortedBy(dims, scores))
        low == Kept(lowest, {i \in DOMAIN lowest : scores[lowest[i]] < STRONG})
    IN  [i \in DOMAIN low |->
            [skill |-> low[i],
             priority |-> IF scores[low[i]] < WEAK THEN "high" ELSE "medium"]]

\* _duration_s: none for a session that is still open.
Duration(s) == IF sessions[s].ended_at = Open THEN 0
               ELSE sessions[s].ended_at - sessions[s].started_at

LearnerTurns(s) ==
    LET said == UtterancesOf(s)
    IN  Kept(said, {i \in DOMAIN said : utterances[said[i]].role = "learner"})

\* by_utterance: the last assessment of each utterance, among the session's.
ScoreOf(s, u) ==
    LET rows == AssessmentsOf(s)
        of == {i \in DOMAIN rows : rows[i].utterance = u}
    IN  IF of = {} THEN Absent ELSE Rounded(rows[Max(of)].overall, 10)

analyze(s) ==
    LET rows == AssessmentsOf(s)
        scores == MeanScores(rows)
        dims == InOrder(DOMAIN scores)
        learner == LearnerTurns(s)
        said == UtterancesOf(s)
    IN  [turns |-> [i \in DOMAIN said |-> [role |-> utterances[said[i]].role,
                                           overall |-> ScoreOf(s, said[i])]],
         learner_turns |-> Len(learner),
         words_spoken |-> SumOf([i \in ToSet(learner) |-> utterances[i].words]),
         assessments |-> Len(rows),
         overall |-> AvgOverall(rows),
         scores |-> scores,
         strengths |-> Strengths(dims, scores),
         weaknesses |-> Weaknesses(dims, scores),
         recommendations |-> Recommendations(dims, scores),
         pending_scoring |-> Len(learner) > Len(rows)]

\* list_for_user: reading sessions are passed over after the limit was applied.
list_for_user(limit) ==
    LET recent == RecentSessions(limit)
        talks == Kept(recent, {i \in DOMAIN recent : sessions[recent[i]].mode # "reading"})
    IN  [i \in DOMAIN talks |->
            LET s == talks[i] IN
            [session |-> s, duration |-> Duration(s),
             learner_turns |-> Len(LearnerTurns(s)),
             assessments |-> Len(AssessmentsOf(s)),
             overall |-> AvgOverall(AssessmentsOf(s)),
             scores |-> MeanScores(AssessmentsOf(s))]]

\* Mutant: a window that starts a day early.
DayEarly(i) == Day(now) - Days + i - 1

\* The i-th day of the window, today's the last.
WindowDay(i) == Day(now) - Days + i

\* The longest run of places among the first n: current grows along a run.
LongestRun(active, n) ==
    LET current[i \in 0 .. n] ==
            IF i \in active /\ i > 0 THEN current[i - 1] + 1 ELSE 0
    IN  Max({current[i] : i \in 0 .. n})

\* activity: a cell for every day of the window, over as many as 10,000
\* sessions, more than any learner has.
activity ==
    LET on(i) == {s \in DOMAIN sessions : Day(sessions[s].started_at) = WindowDay(i)}
        cells == [i \in 1 .. Days |->
                     [count |-> Cardinality(on(i)),
                      seconds |-> SumOf([s \in on(i) |-> Duration(s)])]]
        active == {i \in DOMAIN cells : cells[i].count > 0}
    IN  [cells |-> cells,
         active_days |-> Cardinality(active),
         total_sessions |-> SumOf([i \in 1 .. Days |-> cells[i].count]),
         longest_streak |-> LongestRun(active, Days)]

\* history: conversations with a turn, newest first, until there are enough
\* messages; the one that reaches the limit is kept whole.
history ==
    LET recent == RecentSessions(HistoryTalks)
        talks == Kept(recent, {i \in DOMAIN recent :
                                  /\ sessions[recent[i]].mode # "reading"
                                  /\ UtterancesOf(recent[i]) # <<>>})
        messages(n) == SumOf([i \in 1 .. n |-> Len(UtterancesOf(talks[i]))])
        full == {n \in DOMAIN talks : messages(n) >= HistoryLimit}
    IN  IF full = {} THEN talks ELSE First(Min(full), talks)

\* per_dim: dimensions in the order in which the rows of the list show them.
Appearing(talks) ==
    LET seen[n \in 0 .. Len(talks)] ==
            IF n = 0 THEN <<>>
            ELSE seen[n - 1] \o InOrder(DOMAIN talks[n].scores \ ToSet(seen[n - 1]))
    IN  seen[Len(talks)]

\* analyze_all: the rows of the list view, averaged; the trend compares the
\* older half of the scored conversations with the newer one.
analyze_all ==
    LET talks == list_for_user(OverallLimit)
        scored == Reverse(Kept(talks, {i \in DOMAIN talks : talks[i].overall # Absent}))
        half == Len(scored) \div 2
        having(d) == {i \in DOMAIN talks : d \in DOMAIN talks[i].scores}
        dims == Appearing(talks)
        scores == [d \in ToSet(dims) |->
                      Average([i \in having(d) |-> talks[i].scores[d]])]
        mean(S) == Average([i \in S |-> scored[i].overall])
        delta == mean(half + 1 .. Len(scored)) - mean(1 .. half)
    IN  [conversations |-> Len(talks),
         scored |-> Len(scored),
         learner_turns |-> SumOf([i \in DOMAIN talks |-> talks[i].learner_turns]),
         practice |-> SumOf([i \in DOMAIN talks |-> talks[i].duration]),
         overall |-> IF scored = <<>> THEN Absent ELSE mean(DOMAIN scored),
         scores |-> scores,
         strengths |-> Strengths(dims, scores),
         weaknesses |-> Weaknesses(dims, scores),
         recommendations |-> Recommendations(dims, scores),
         direction |-> IF half = 0 THEN "not enough data"
                       ELSE IF delta > 10 THEN "improving"
                       ELSE IF delta < -10 THEN "declining" ELSE "steady"]

\* admin_stats.overview, of this learner: when they were last seen.
last_active ==
    LET seen == {sessions[s].started_at : s \in DOMAIN sessions}
                \cup {assessments[a].created_at : a \in DOMAIN assessments}
    IN  IF seen = {} THEN Absent ELSE Max(seen)
ActiveWithin(time) == last_active # Absent /\ last_active >= now - time

-----------------------------------------------------------------------------
(* Properties.                                                             *)

Priorities(v, priority) ==
    LET all == v.recommendations
        of == Kept(all, {i \in DOMAIN all : all[i].priority = priority})
    IN  [i \in DOMAIN of |-> of[i].skill]

PracticeDays == DaysOf(Len(sessions))
StreakDays == StreakOf(Len(sessions))

\* Two ways to count the same days: the streak of progress.py and the longest
\* run of the activity view, the heat map and the list of conversations. The
\* stored streak is one the learner had, after the first so many of their
\* sessions; and unless a recomputation was cut short, or one read the sessions
\* while another had yet to store, it counts every session that has ended, or a
\* handler is about to store one that does.
\* progress.py:58-80, conversation.py:278-329, sessions.py:84-88
ActivityAgrees ==
    sessions # <<>> =>
    LET view == activity
        window == (Day(now) - Days + 1) .. Day(now)
        inside == {s \in DOMAIN sessions : Day(sessions[s].started_at) \in window}
        tail == {d \in PracticeDays : d > Max(PracticeDays) - StreakDays}
    IN  /\ view.total_sessions = Cardinality(inside)
        /\ view.active_days = Cardinality(PracticeDays \cap window)
        /\ PracticeDays # {} => view.longest_streak >= Cardinality(tail \cap window)
        /\ view.longest_streak <= view.active_days
        /\ streak_days = StreakOf(refreshed)
        /\ ~disturbed => \A s \in DOMAIN sessions :
              \/ sessions[s].ended_at = Open
              \/ s <= refreshed
              \/ \E h \in Handlers : \/ recompute[h].pc = "read"
                                     \/ recompute[h].pc = "store" /\ s <= recompute[h].read
        /\ view.total_sessions > 0 => ActiveWithin(Days * DayLen)

\* Read while nothing is written, the views of the conversations agree: "the two
\* can never disagree about a learner's numbers" says conversation.py:366-367 of
\* the list and the overall analysis. What is of high priority is what is called
\* weak, of one conversation and of all; of a single conversation the analysis
\* of all says what its own report says; and the history, which counts messages,
\* shows no conversation that the list, which counts sessions, leaves out.
\* conversation.py:116-183, 220-276, 331-419
ViewsAgree ==
    sessions # <<>> =>
    \A list \in {list_for_user(ListLimit)}, whole \in {analyze_all} :
    LET listed == {list[i].session : i \in DOMAIN list}
    IN  /\ \A i \in DOMAIN list :
              \A one \in {analyze(list[i].session)} :
                  Priorities(one, "high") = one.weaknesses
        /\ Priorities(whole, "high") = whole.weaknesses
        /\ \A i \in DOMAIN list :
              Len(list) = 1 /\ whole.conversations = 1 =>
                  /\ whole.overall = list[i].overall
                  /\ whole.strengths = analyze(list[i].session).strengths
        /\ whole.learner_turns <= Len(utterances)
        /\ \A i \in DOMAIN history :
              /\ sessions[history[i]].mode # "reading"
              /\ HistoryTalks <= ListLimit => history[i] \in listed
        /\ ListLimit <= OverallLimit => Len(list) <= whole.conversations
        /\ Len(sessions) <= ListLimit /\ Len(sessions) <= OverallLimit =>
              /\ listed = {s \in DOMAIN sessions : sessions[s].mode # "reading"}
              /\ whole.overall = Absent <=>
                    \A a \in DOMAIN assessments :
                        sessions[assessments[a].session].mode = "reading"

\* The views on what was said.
ConversationsAgree == ViewsAgree /\ ActivityAgrees
=============================================================================
