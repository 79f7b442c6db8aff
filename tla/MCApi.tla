-------------------------------- MODULE MCApi --------------------------------
(***************************************************************************)
(* The parts of the HTTP API and the button of the web client: they share  *)
(* no state, so each is explored from its own initial states while the     *)
(* others stand still. A product of them would show nothing more.          *)
(***************************************************************************)
EXTENDS Accounts, Conversations, Reading, LiveClient

CONSTANTS u1, u2, c1, h1, h2, p1, p2, r1, r2, t1, t2,
    MaxArrivals  \* bound: requests that arrive in a run of the accounts

VARIABLES
    focus,   \* the part that moves
    arrived  \* requests that have arrived

allvars == <<vars, recordVars, readingVars, clientVars, focus, arrived>>

MCKeys == Clients \X (Users \cup {None})

\* The best there is; just above the bound of a level; with strong and weak
\* dimensions; without most of them, as when evaluators are left out.
Flat(n) == [d \in Dims |-> n]
Card(d, n, rest) == [Flat(rest) EXCEPT ![d] = n]
Partial == [d \in {"pronunciation", "fluency", "coherence"} |->
               IF d = "fluency" THEN 50 ELSE 90]
ProgressCards ==
    {Flat(100), Card("confidence", 44, 39),
     [Card("grammar", 60, 80) EXCEPT !["relevance"] = 20],
     Partial}
TalkCards == {Card("grammar", 50, 78),
              [d \in {"fluency", "relevance"} |-> IF d = "fluency" THEN 59 ELSE 76]}

MCCards == ProgressCards \cup TalkCards

\* West of UTC.
MCOffset == -1

MCPassages == {<<>>, <<"a", "b", "a">>, <<"c", "a", "b">>}
MCTranscripts == UNION {[1 .. n -> {"a", "b", "c"}] : n \in 0 .. 3}

\* u1 has an account and is signed in nowhere, or from one browser.
SignedUp(sessionsOfU1) ==
    /\ ThrottleInit
    /\ profile = {u1}
    /\ cred = [u \in Users |-> IF u = u1 THEN p1 ELSE None]
    /\ rows = sessionsOfU1
    /\ req = [r \in Requests |-> Done]
    /\ writer = [u \in Users |-> IF u = u1 THEN "signup" ELSE "nobody"]

Init ==
    /\ \/ focus = "accounts" /\ AccountsInit
       \/ /\ focus = "accounts" /\ required \in BOOLEAN
          /\ SignedUp({[token |-> t1, user |-> u1, expired |-> FALSE,
                        stale |-> FALSE, straddled |-> FALSE]})
       \/ /\ focus \in {"throttle", "progress", "days", "talks", "reading",
                       "client"}
          /\ required = FALSE
          /\ SignedUp({})
    /\ arrived = 0
    /\ RecordInit
    /\ ReadingInit
    /\ ClientInit

\* Logins that fail and one at a time that succeeds, as time passes.
ThrottleNext ==
    /\ focus = "throttle"
    /\ \/ \E r \in Requests : /\ Login(r)
                              /\ req'[r].pass = p1 => req'[r].user = u1 /\ rows = {}
       \/ \E r \in Requests : Logout(r) \/ Steps(r)
       \/ Tick
    /\ UNCHANGED <<arrived, recordVars, readingVars, clientVars>>

\* Every request; nobody fails, so that nobody is locked out.
AccountsStep ==
    /\ focus = "accounts"
    /\ \/ \E r \in Requests : /\ arrived < MaxArrivals
                              /\ arrived' = arrived + 1
                              /\ Arrivals(r)
                              /\ req'[r].user # u2
                              /\ req'[r].kind \in {"login", "password"} =>
                                    cred[u1] = req'[r].pass
       \/ (\E r \in Requests : Steps(r)) /\ UNCHANGED arrived
       \/ (Restart \/ Expire) /\ UNCHANGED arrived
    /\ Tracked' = {}
    /\ UNCHANGED <<recordVars, readingVars, clientVars>>

\* One conversation, then its scores; the level is set at the end, since the
\* properties look at every level a user's row may show.
ProgressNext ==
    /\ focus = "progress"
    /\ \/ sessions = <<>> /\ create_session /\ sessions'[1].mode = "free"
       \/ utterances = <<>> /\ add_utterance /\ utterances'[1].role = "learner"
                            /\ utterances'[1].words = 2
       \/ /\ utterances # <<>>
          /\ \/ ScoringServiceRecords /\ Last(assessments').scores \in ProgressCards
             \/ /\ now = Horizon /\ current_level' = 2
                /\ choose_level \/ update_user
             \/ TimePasses
    /\ UNCHANGED <<vars, readingVars, clientVars, arrived>>

\* Sessions come and go over the days; nothing is said in them. One thread ends
\* them, the oldest first, while another recomputes the streak, until one of
\* the two disturbs the other.
DaysNext ==
    /\ focus = "days"
    /\ \/ Len(sessions) < 3 /\ create_session /\ Last(sessions').mode = "free"
       \/ /\ end_session(h1)
          /\ \A r, s \in DOMAIN sessions :
                r < s /\ sessions'[s].ended_at # Open
                    => sessions'[r].ended_at # Open
       \/ ~disturbed /\ (recompute_streak(h2) \/ CutShort(h1))
       \/ TimePasses
       \/ \E h \in Handlers : ReadSessions(h) \/ StoreStreak(h)
    /\ UNCHANGED <<vars, readingVars, clientVars, arrived>>

\* What is said and scored, in sessions that were all started first.
TalksNext ==
    /\ focus = "talks"
    /\ \/ utterances = <<>> /\ Len(sessions) < 3 /\ create_session
       \/ /\ assessments = <<>> /\ Len(utterances) < 2 /\ add_utterance
          /\ (Last(utterances').role = "learner") <=> (Last(utterances').words = 2)
       \/ /\ \/ assessments = <<>> /\ record_assessment
             \/ Len(assessments) < 2 /\ ScoringServiceRecords
          /\ Last(assessments').scores \in TalkCards
       \/ assessments # <<>> /\ Last(assessments).created_at = now /\ TimePasses
    /\ UNCHANGED <<vars, readingVars, clientVars, arrived>>

\* Any first attempt, and then flawless, silent and middling ones.
ReadingNext ==
    /\ focus = "reading"
    /\ \/ answer = Blank /\ score_attempt
       \/ /\ answer # Blank
          /\ \E ref \in Passages : \E said \in {ref, <<>>, <<"c", "a">>} :
                ScoreAttempt(ref, said, 106)
    /\ UNCHANGED <<vars, recordVars, clientVars, arrived>>

ButtonNext ==
    /\ focus = "client"
    /\ ClientNext
    /\ UNCHANGED <<vars, recordVars, readingVars, arrived>>

Next == /\ \/ ThrottleNext \/ AccountsStep \/ ProgressNext \/ DaysNext \/ TalksNext
           \/ ReadingNext \/ ButtonNext
        /\ UNCHANGED focus

\* Time passes in the part that reads the clock of the throttle.
Spec == /\ Init /\ [][Next]_allvars
        /\ WF_allvars(/\ focus = "throttle" /\ Tick
                      /\ UNCHANGED <<recordVars, readingVars, clientVars, focus, arrived>>)

\* Types of the accounts and of the record, with the keys of their tables.
TypeOK == AccountsTypeOK /\ RecordTypeOK
=============================================================================
