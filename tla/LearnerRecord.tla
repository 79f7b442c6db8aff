---------------------------- MODULE LearnerRecord ----------------------------
(***************************************************************************)
(* What is stored of one learner: the tables sessions, utterances and      *)
(* assessments of persistence/repositories.py, the level and streak of the *)
(* users row, and the handlers that write them: api/sessions.py,           *)
(* users.choose_level, the streak of api/progress.py, and what the live    *)
(* session and the scoring service write. Progress and Conversations read  *)
(* these tables.                                                           *)
(*                                                                         *)
(* A transaction is one step. Handlers run on a pool of threads, and the   *)
(* streak is read in one transaction and stored in another, with whatever  *)
(* the other handlers do in between. That scoring reads its turn, stores   *)
(* the assessment and sets the level in separate transactions is ColdPath's*)
(* subject: here it is one step. Gap snapshots, plans and reports are      *)
(* stored too, and nothing ever reads them, so they are no variables.      *)
(***************************************************************************)
EXTENDS Scoring

CONSTANTS
    DayLen,    \* units of time in a day
    Cards,     \* score cards an evaluation may produce
    Handlers,  \* threads that work on the learner's streak
    Horizon,   \* bound: the last unit of time
    MaxRows    \* bound: rows of each table

ASSUME RecordAssumption ==
    /\ DayLen \in Nat \ {0}
    /\ Horizon \in Nat
    /\ \A card \in Cards : /\ DOMAIN card \subseteq Dims
                           /\ card \in [DOMAIN card -> 0 .. 100]

VARIABLES
    now,            \* the clock
    current_level,  \* users.current_level
    level_selected, \* users.level_selected
    streak_days,    \* users.streak_days, as last stored
    recompute,      \* of each handler: where it is in recompute_and_store_streak
    sessions,       \* in the order they were started
    utterances,     \* in the order they were said
    assessments,    \* in the order they were recorded
    refreshed,      \* history: the sessions the stored streak counts
    disturbed       \* history: a recomputation was cut short, or two overlapped

streakVars == <<streak_days, recompute, refreshed, disturbed>>
recordVars == <<now, current_level, level_selected, streakVars, sessions,
                utterances, assessments>>

Open == -1          \* ended_at IS NULL
NoUtterance == 0

Day(t) == t \div DayLen

\* A handler that recomputes nothing.
Idle == [pc |-> "idle", read |-> 0, streak |-> 0]

RecordInit ==
    /\ now = 0
    /\ current_level = 0
    /\ level_selected = FALSE
    /\ streak_days = 0
    /\ recompute = [h \in Handlers |-> Idle]
    /\ refreshed = 0
    /\ disturbed = FALSE
    /\ sessions = <<>>
    /\ utterances = <<>>
    /\ assessments = <<>>

-----------------------------------------------------------------------------
(* What the repositories select.                                           *)

\* Of a session: its utterances and assessments, oldest first.
UtterancesOf(s) ==
    Kept([i \in DOMAIN utterances |-> i],
         {i \in DOMAIN utterances : utterances[i].session = s})
AssessmentsOf(s) ==
    Kept(assessments, {i \in DOMAIN assessments : assessments[i].session = s})

\* sessions.list_for_user: the newest, newest first.
RecentSessions(limit) ==
    [k \in 1 .. Min({limit, Len(sessions)}) |-> Len(sessions) + 1 - k]

\* streak_days: the run of days with a session that ends on the last such day,
\* by the first n sessions.
DaysOf(n) == {Day(sessions[s].started_at) : s \in 1 .. n}
RunOf(days) ==
    IF days = {} THEN 0
    ELSE Max({n \in 1 .. Cardinality(days) :
                 \A i \in 0 .. n - 1 : Max(days) - i \in days})
StreakOf(n) == RunOf(DaysOf(n))

-----------------------------------------------------------------------------
(* What the repositories write. The overall level is one column, and       *)
(* choosing it oneself another.                                            *)

NewSession(mode) == [mode |-> mode, started_at |-> now, ended_at |-> Open]

NewUtterance(s, role, words) == [session |-> s, role |-> role, words |-> words]

\* users.update, with a level and nothing else that is read here.
UpdateLevel(l) == current_level' = l

SetLevelSelected(chosen) == level_selected' = chosen

-----------------------------------------------------------------------------
(* Handlers.                                                               *)

\* create_session, and the session a WebSocket opens.
create_session ==
    /\ Len(sessions) < MaxRows
    /\ \E mode \in {"free", "reading"} :
          sessions' = Append(sessions, NewSession(mode))
    /\ UNCHANGED <<now, current_level, level_selected, streakVars, utterances,
                   assessments>>

\* sessions.end closes an open session and leaves a closed one as it is.
Ended(s) == IF sessions[s].ended_at = Open
            THEN [sessions EXCEPT ![s].ended_at = now] ELSE sessions

\* Over HTTP, and what a live session does on its way out; the streak is to be
\* recomputed. A live session whose process stops, or whose greeting fails, is
\* left open for ever.
end_session(h) ==
    /\ recompute[h].pc = "idle"
    /\ \E s \in DOMAIN sessions : sessions' = Ended(s)
    /\ recompute' = [recompute EXCEPT ![h].pc = "read"]
    /\ UNCHANGED <<now, current_level, level_selected, streak_days, refreshed,
                   disturbed, utterances, assessments>>

\* Asked for by itself.
recompute_streak(h) ==
    /\ recompute[h].pc = "idle"
    /\ recompute' = [recompute EXCEPT ![h].pc = "read"]
    /\ UNCHANGED <<now, current_level, level_selected, streak_days, refreshed,
                   disturbed, sessions, utterances, assessments>>

\* recompute_and_store_streak: one transaction reads the sessions.
ReadSessions(h) ==
    /\ recompute[h].pc = "read"
    /\ recompute' = [recompute EXCEPT ![h] =
            [pc |-> "store", read |-> Len(sessions), streak |-> StreakOf(Len(sessions))]]
    /\ disturbed' = (disturbed \/ \E g \in Handlers : recompute[g].pc = "store")
    /\ UNCHANGED <<now, current_level, level_selected, streak_days, refreshed,
                   sessions, utterances, assessments>>

\* Another stores the streak they make, whatever was started or stored since.
StoreStreak(h) ==
    /\ recompute[h].pc = "store"
    /\ streak_days' = recompute[h].streak
    /\ refreshed' = recompute[h].read
    /\ recompute' = [recompute EXCEPT ![h] = Idle]
    /\ UNCHANGED <<now, current_level, level_selected, disturbed, sessions,
                   utterances, assessments>>

\* A transaction fails, or the process stops: nobody tries again.
CutShort(h) ==
    /\ recompute[h].pc # "idle"
    /\ recompute' = [recompute EXCEPT ![h] = Idle]
    /\ disturbed' = TRUE
    /\ UNCHANGED <<now, current_level, level_selected, streak_days, refreshed,
                   sessions, utterances, assessments>>

\* add_utterance, on a session whether or not it has ended.
add_utterance ==
    /\ Len(utterances) < MaxRows
    /\ \E s \in DOMAIN sessions, role \in {"learner", "coach"}, words \in {0, 2} :
          utterances' = Append(utterances, NewUtterance(s, role, words))
    /\ UNCHANGED <<now, current_level, level_selected, streakVars, sessions,
                   assessments>>

\* An assessment is stored and the level follows it, up or down. Two of them
\* never carry the same timestamp.
Assess(s, u, card, overall) ==
    /\ Len(assessments) < MaxRows
    /\ assessments # <<>> => Last(assessments).created_at < now
    /\ assessments' = Append(assessments,
            [session |-> s, utterance |-> u, scores |-> card,
             overall |-> overall, created_at |-> now])
    /\ UpdateLevel(level_for_overall(overall))
    /\ UNCHANGED <<now, level_selected, streakVars, sessions, utterances>>

\* Over HTTP: any session, an utterance or none, named by the caller.
record_assessment ==
    \E s \in DOMAIN sessions, u \in {NoUtterance} \cup DOMAIN utterances, card \in Cards :
        Assess(s, u, card, compute_overall(card))

\* By the worker: a learner's utterance, in its own session.
ScoringServiceRecords ==
    \E u \in DOMAIN utterances, card \in Cards :
        /\ utterances[u].role = "learner"
        /\ Assess(utterances[u].session, u, card, weighted_overall(card))

choose_level ==
    /\ \E l \in 0 .. TopLevel : UpdateLevel(l)
    /\ SetLevelSelected(TRUE)
    /\ UNCHANGED <<now, streakVars, sessions, utterances, assessments>>

\* PATCH /users/{id}: the level alone, which does not count as choosing it.
update_user ==
    /\ \E l \in 0 .. TopLevel : UpdateLevel(l)
    /\ UNCHANGED <<now, level_selected, streakVars, sessions, utterances,
                   assessments>>

TimePasses ==
    /\ now < Horizon
    /\ now' = now + 1
    /\ UNCHANGED <<current_level, level_selected, streakVars, sessions,
                   utterances, assessments>>

RecordNext ==
    \/ create_session
    \/ \E h \in Handlers : \/ end_session(h) \/ recompute_streak(h)
                          \/ ReadSessions(h) \/ StoreStreak(h) \/ CutShort(h)
    \/ add_utterance
    \/ record_assessment
    \/ ScoringServiceRecords
    \/ choose_level
    \/ update_user
    \/ TimePasses

RecordSpec == RecordInit /\ [][RecordNext]_recordVars

RecordTypeOK ==
    /\ now \in 0 .. Horizon
    /\ current_level \in 0 .. TopLevel
    /\ level_selected \in BOOLEAN
    /\ streak_days \in 0 .. Len(sessions) /\ refreshed \in 0 .. Len(sessions)
    /\ recompute \in [Handlers -> [pc : {"idle", "read", "store"},
                                   read : 0 .. Len(sessions),
                                   streak : 0 .. Len(sessions)]]
    /\ disturbed \in BOOLEAN
    /\ \A s \in DOMAIN sessions :
          /\ sessions[s].mode \in {"free", "reading"}
          /\ sessions[s].started_at \in 0 .. now
          /\ \/ sessions[s].ended_at = Open
             \/ sessions[s].ended_at \in sessions[s].started_at .. now
    /\ \A u \in DOMAIN utterances : utterances[u].session \in DOMAIN sessions
    /\ \A a \in DOMAIN assessments :
          /\ assessments[a].session \in DOMAIN sessions
          /\ assessments[a].utterance \in {NoUtterance} \cup DOMAIN utterances
          /\ assessments[a].overall \in 0 .. Perfect
=============================================================================
