---------------------------- MODULE ColdPathProofs ----------------------------
(***************************************************************************)
(* Proofs about the cold path, for any number of turns and evaluators, any *)
(* bounds on requests and restarts and any set of faults.                  *)
(***************************************************************************)
EXTENDS ColdPath, WellFoundedInduction, TLAPS

Phases == {"up", "stopping", "down"}
Pressures == {"clear", "ladder", "ceiling"}
Stages == {"idle", "learner", "coach", "publish"}
Labels == {"none", "skipped", "error", "processed"}
Speakers == [stage : Stages, turn : Turns \cup {NoTurn}, id : Turns \cup {Unpersisted}]
Places == {"off", "idle", "backoff", "evaluate", "outputs", "level", "dead"}
Workers == [pc : Places, job : Jobs, next : Evaluators, got : SUBSET Evaluators,
            store : SUBSET Evaluators, level : ScoreLevels, prompt : Turns \cup {NoTurn}]
Callers == [pc : {"idle", "level"}, level : ScoreLevels]
Rows == [turn : Turns, role : {"learner", "coach"}]
Verdicts == [turn : Turns \cup {NoTurn}, level : Levels, by : Authors,
             from : SUBSET Evaluators, prompt : Turns \cup {NoTurn}]

\* TypeOK, with a name for every set of records.
Typed ==
    /\ process \in Phases
    /\ starts \in 1 .. MaxStarts
    /\ pressure \in Pressures
    /\ turn \in Speakers
    /\ bus \in Seq(Jobs)
    /\ queue \in Seq(Jobs)
    /\ worker \in Workers
    /\ request \in Callers
    /\ requests \in 0 .. MaxRequests
    /\ rows \in Seq(Rows)
    /\ outputs \subseteq Turns \X Evaluators
    /\ assessments \in Seq(Verdicts)
    /\ userLevel \in ScoreLevels
    /\ published \subseteq Turns
    /\ deferred \subseteq Turns
    /\ outcome \in [Turns -> Labels]

TurnsOf(s) == {s[i].turn : i \in DOMAIN s}
Distinct(s) == \A i, j \in DOMAIN s : i # j => s[i].turn # s[j].turn
InHands == IF InHand THEN {worker.job.turn} ELSE {}

\* A published turn that is not finished waits in one place at most, once, and
\* the turn being finalized, in a process that runs, has not been published.
Accounted ==
    /\ turn.stage # "idle" => turn.turn \in Turns \ published /\ process = "up"
    /\ TurnsOf(bus) \cup TurnsOf(queue) \cup InHands \subseteq published \ FinishedTurns
    /\ Distinct(bus) /\ Distinct(queue)
    /\ TurnsOf(bus) \cap TurnsOf(queue) = {}
    /\ InHands \cap (TurnsOf(bus) \cup TurnsOf(queue)) = {}
    /\ FinishedTurns \cup deferred \subseteq published
    /\ process # "up" => ~InHand
    /\ process = "stopping" => "stop" \in Faults

\* The payloads already stored of the job whose record() is running.
PayloadsStored ==
    worker.pc = "outputs" =>
        \A e \in worker.got \ worker.store : <<worker.job.id, e>> \in outputs

IInv == Typed /\ Accounted /\ PayloadsStored /\ AuditTrail

LEMMA TypedIsTypeOK == Typed <=> TypeOK
BY DEF Typed, TypeOK, Phases, Pressures, Stages, Labels, Speakers, Places, Workers,
       Callers, Rows, Verdicts

LEMMA JobsAre ==
    /\ NoJob \in Jobs
    /\ \A t \in Turns, id \in Turns \cup {Unpersisted} : Job(t, id) \in Jobs
    /\ \A t, id : Job(t, id).turn = t
    /\ \A j \in Jobs :
         /\ j.turn \in Turns \cup {NoTurn} /\ j.id \in Turns \cup {Unpersisted}
         /\ Older(j) \in Jobs /\ Older(j).turn = j.turn /\ Older(j).id = j.id
BY BudgetAssumption DEF Jobs, NoJob, Job, Older

LEMMA RestingWorkers ==
    /\ Off \in Workers /\ Off.pc = "off"
    /\ Idle \in Workers /\ Idle.pc = "idle"
    /\ [Off EXCEPT !.pc = "dead"] \in Workers /\ [Off EXCEPT !.pc = "dead"].pc = "dead"
<1>1. /\ 1 \in Evaluators /\ InitialLevel \in ScoreLevels
      /\ {"off", "idle", "dead"} \subseteq Places
  BY EvaluatorsAssumption DEF Evaluators, ScoreLevels, Places
<1>2. QED
  BY <1>1, JobsAre DEF Off, Idle, Workers

LEMMA WorkerFields ==
    ASSUME NEW w \in Workers
    PROVE  /\ w.pc \in Places /\ w.job \in Jobs /\ w.next \in Evaluators
           /\ w.got \in SUBSET Evaluators /\ w.store \in SUBSET Evaluators
           /\ w.level \in ScoreLevels /\ w.prompt \in Turns \cup {NoTurn}
BY DEF Workers

LEMMA BusyWorkers ==
    ASSUME NEW j \in Jobs, NEW t \in Turns \cup {NoTurn}
    PROVE  /\ [Idle EXCEPT !.pc = "backoff", !.job = j] \in Workers
           /\ [Idle EXCEPT !.pc = "backoff", !.job = j].pc = "backoff"
           /\ [Idle EXCEPT !.pc = "backoff", !.job = j].job = j
           /\ [Idle EXCEPT !.pc = "evaluate", !.job = j, !.prompt = t] \in Workers
           /\ [Idle EXCEPT !.pc = "evaluate", !.job = j, !.prompt = t].pc = "evaluate"
           /\ [Idle EXCEPT !.pc = "evaluate", !.job = j, !.prompt = t].job = j
<1>1. {"backoff", "evaluate"} \subseteq Places
  BY DEF Places
<1>2. QED
  BY <1>1, RestingWorkers DEF Workers

LEMMA WorkingWorkers ==
    ASSUME NEW w \in Workers
    PROVE  /\ \A got \in SUBSET Evaluators, n \in Evaluators :
                 [w EXCEPT !.next = n, !.got = got] \in Workers
           /\ \A got \in SUBSET Evaluators :
                 [w EXCEPT !.pc = "outputs", !.got = got, !.store = got] \in Workers
           /\ \A some \in SUBSET Evaluators : [w EXCEPT !.store = some] \in Workers
           /\ \A l \in ScoreLevels : [w EXCEPT !.pc = "level", !.level = l] \in Workers
           /\ \A j \in Jobs : [w EXCEPT !.job = j] \in Workers
<1>1. {"outputs", "level"} \subseteq Places
  BY DEF Places
<1>2. QED
  BY <1>1 DEF Workers

LEMMA SpeakersAre ==
    ASSUME NEW s \in Speakers, NEW t \in Turns
    PROVE  /\ [stage |-> "learner", turn |-> t, id |-> Unpersisted] \in Speakers
           /\ s.turn \in Turns \cup {NoTurn} /\ s.id \in Turns \cup {Unpersisted}
           /\ s.turn \in Turns => [s EXCEPT !.stage = "coach", !.id = s.turn] \in Speakers
           /\ [s EXCEPT !.stage = "publish"] \in Speakers
BY DEF Speakers, Stages

LEMMA Nobody ==
    /\ Speaking \in Speakers /\ Speaking.stage = "idle"
    /\ NoRequest \in Callers /\ NoRequest.pc = "idle"
BY DEF Speaking, Speakers, Stages, NoRequest, Callers, ScoreLevels

LEMMA LastCoachTurnIs ==
    ASSUME rows \in Seq(Rows)
    PROVE  LastCoachTurn \in Turns \cup {NoTurn}
<1>1. CASE \E i \in DOMAIN rows : LastCoachRow(i)
  <2> DEFINE i == CHOOSE i \in DOMAIN rows : LastCoachRow(i)
  <2>1. i \in DOMAIN rows
    BY <1>1
  <2>2. rows[i] \in Rows
    BY <2>1
  <2>3. rows[i].turn \in Turns
    BY <2>2 DEF Rows
  <2>4. LastCoachTurn = rows[i].turn
    BY <1>1 DEF LastCoachTurn
  <2>5. QED
    BY <2>3, <2>4
<1>2. CASE ~ \E i \in DOMAIN rows : LastCoachRow(i)
  BY <1>2 DEF LastCoachTurn
<1>3. QED
  BY <1>1, <1>2

LEMMA LeastExists ==
    ASSUME NEW S \in SUBSET Evaluators, S # {}
    PROVE  \E x \in S : \A y \in S : x <= y
<1>1. S \subseteq Nat
  BY DEF Evaluators
<1>2. PICK x \in S : \A y \in S : ~ (<<y, x>> \in OpToRel(<, Nat))
  BY <1>1, NatLessThanWellFounded, WFMin, Zenon
<1>3. ASSUME NEW y \in S PROVE x <= y
  <2>1. <<y, x>> \in Nat \X Nat /\ <<y, x>>[1] = y /\ <<y, x>>[2] = x
    BY <1>1
  <2>2. ~ (y < x)
    BY <1>2, <2>1, Zenon DEF OpToRel
  <2>3. QED
    BY <1>1, <2>2
<1>4. QED
  BY <1>3
LEMMA RowsAre ==
    ASSUME NEW t \in Turns, NEW s \in Seq(Rows)
    PROVE  /\ Append(s, [turn |-> t, role |-> "learner"]) \in Seq(Rows)
           /\ Append(s, [turn |-> t, role |-> "coach"]) \in Seq(Rows)
<1>1. /\ [turn |-> t, role |-> "learner"] \in Rows
      /\ [turn |-> t, role |-> "coach"] \in Rows
  BY DEF Rows
<1>2. QED
  BY <1>1

LEMMA VerdictsAre ==
    ASSUME NEW t \in Turns \cup {NoTurn}, NEW l \in Levels, NEW got \in SUBSET Evaluators,
           NEW p \in Turns \cup {NoTurn}, NEW s \in Seq(Verdicts)
    PROVE  /\ Append(s, [turn |-> t, level |-> l, by |-> "worker", from |-> got,
                         prompt |-> p]) \in Seq(Verdicts)
           /\ Append(s, [turn |-> t, level |-> l, by |-> "request", from |-> {},
                         prompt |-> NoTurn]) \in Seq(Verdicts)
<1>1. /\ [turn |-> t, level |-> l, by |-> "worker", from |-> got, prompt |-> p] \in Verdicts
      /\ [turn |-> t, level |-> l, by |-> "request", from |-> {}, prompt |-> NoTurn] \in Verdicts
  BY DEF Verdicts, Authors
<1>2. QED
  BY <1>1

-----------------------------------------------------------------------------
(* The turns of a queue of jobs.                                           *)

LEMMA Taken ==
    ASSUME NEW s \in Seq(Jobs), s # <<>>
    PROVE  /\ Head(s) \in Jobs /\ Tail(s) \in Seq(Jobs)
           /\ Head(s).turn \in TurnsOf(s)
<1>1. Head(s) = s[1] /\ 1 \in DOMAIN s
  OBVIOUS
<1>2. QED
  BY <1>1 DEF TurnsOf

LEMMA TurnsOfTail ==
    ASSUME NEW s \in Seq(Jobs), s # <<>>, Distinct(s)
    PROVE  /\ TurnsOf(Tail(s)) = TurnsOf(s) \ {Head(s).turn}
           /\ Distinct(Tail(s))
<1>1. /\ DOMAIN s = 1 .. Len(s) /\ Len(s) \in Nat \ {0} /\ Head(s) = s[1]
      /\ DOMAIN Tail(s) = 1 .. Len(s) - 1
      /\ \A i \in 1 .. Len(s) - 1 : Tail(s)[i] = s[i + 1]
  OBVIOUS
<1>2. ASSUME NEW t \in TurnsOf(Tail(s)) PROVE t \in TurnsOf(s) \ {Head(s).turn}
  <2>1. PICK i \in 1 .. Len(s) - 1 : t = s[i + 1].turn
    BY <1>1, <1>2 DEF TurnsOf
  <2>2. i + 1 \in DOMAIN s /\ 1 \in DOMAIN s /\ i + 1 # 1
    BY <1>1
  <2>3. QED
    BY <1>1, <2>1, <2>2 DEF TurnsOf, Distinct
<1>3. ASSUME NEW t \in TurnsOf(s) \ {Head(s).turn} PROVE t \in TurnsOf(Tail(s))
  <2>1. PICK i \in DOMAIN s : t = s[i].turn
    BY <1>3 DEF TurnsOf
  <2>2. i # 1
    BY <1>1, <1>3, <2>1
  <2>3. i - 1 \in 1 .. Len(s) - 1 /\ (i - 1) + 1 = i
    BY <1>1, <2>2
  <2>4. Tail(s)[i - 1] = s[i]
    BY <1>1, <2>3
  <2>5. QED
    BY <1>1, <2>1, <2>3, <2>4 DEF TurnsOf
<1>4. Distinct(Tail(s))
  <2> SUFFICES ASSUME NEW i \in 1 .. Len(s) - 1, NEW j \in 1 .. Len(s) - 1, i # j
               PROVE  s[i + 1].turn # s[j + 1].turn
    BY <1>1 DEF Distinct
  <2>1. i + 1 \in DOMAIN s /\ j + 1 \in DOMAIN s /\ i + 1 # j + 1
    BY <1>1
  <2>2. QED
    BY <2>1 DEF Distinct
<1>5. QED
  BY <1>2, <1>3, <1>4

LEMMA TurnsOfAppend ==
    ASSUME NEW s \in Seq(Jobs), NEW job \in Jobs
    PROVE  /\ Append(s, job) \in Seq(Jobs)
           /\ TurnsOf(Append(s, job)) = TurnsOf(s) \cup {job.turn}
           /\ Distinct(s) /\ job.turn \notin TurnsOf(s) => Distinct(Append(s, job))
<1> DEFINE a == Append(s, job)
           n == Len(s)
<1>1. /\ n \in Nat /\ DOMAIN s = 1 .. n /\ DOMAIN a = 1 .. n + 1
      /\ a[n + 1] = job /\ \A i \in 1 .. n : a[i] = s[i]
      /\ a \in Seq(Jobs)
  OBVIOUS
<1> HIDE DEF a, n
<1>2. \A i \in 1 .. n + 1 : i \in 1 .. n \/ i = n + 1
  BY <1>1
<1>3. 1 .. n \subseteq 1 .. n + 1 /\ n + 1 \in 1 .. n + 1
  BY <1>1
<1>4. TurnsOf(a) = TurnsOf(s) \cup {job.turn}
  BY <1>1, <1>2, <1>3 DEF TurnsOf
<1>5. Distinct(s) /\ job.turn \notin TurnsOf(s) => Distinct(a)
  BY <1>1, <1>2, <1>3 DEF TurnsOf, Distinct
<1>6. QED
  BY <1>1, <1>4, <1>5 DEF a

LEMMA TurnsOfOlder ==
    ASSUME NEW s \in Seq(Jobs)
    PROVE  LET older == [i \in DOMAIN s |-> Older(s[i])]
           IN  /\ older \in Seq(Jobs)
               /\ TurnsOf(older) = TurnsOf(s)
               /\ Distinct(s) => Distinct(older)
<1> DEFINE older == [i \in DOMAIN s |-> Older(s[i])]
<1>1. \A i \in DOMAIN s : s[i] \in Jobs
  OBVIOUS
<1>2. \A i \in DOMAIN s : older[i] \in Jobs /\ older[i].turn = s[i].turn
  BY <1>1, JobsAre
<1>3. older \in Seq(Jobs)
  BY <1>2
<1>4. DOMAIN older = DOMAIN s
  OBVIOUS
<1> HIDE DEF older
<1>5. TurnsOf(older) = TurnsOf(s) /\ (Distinct(s) => Distinct(older))
  BY <1>2, <1>4 DEF TurnsOf, Distinct
<1>6. QED
  BY <1>3, <1>5 DEF older

LEMMA TurnsOfNothing == TurnsOf(<<>>) = {} /\ Distinct(<<>>)
BY DEF TurnsOf, Distinct

-----------------------------------------------------------------------------
(* Type correctness.                                                       *)

LEMMA TypeInit == Init => Typed
BY RestingWorkers, Nobody, TurnsAssumption, BoundsAssumption
   DEF Init, Typed, Phases, Pressures, Labels, ScoreLevels

\* The turns a step handles are turns.
LEMMA Known ==
    ASSUME Typed, Accounted
    PROVE  /\ turn.stage # "idle" => turn.turn \in Turns
           /\ queue # <<>> => Head(queue).turn \in Turns
           /\ InHand => worker.job.turn \in Turns
<1>1. published \subseteq Turns /\ queue \in Seq(Jobs)
  BY DEF Typed
<1>2. TurnsOf(queue) \subseteq Turns /\ InHands \subseteq Turns
  BY <1>1 DEF Accounted
<1>3. queue # <<>> => Head(queue).turn \in TurnsOf(queue)
  BY <1>1, Taken
<1>4. QED
  BY <1>2, <1>3 DEF Accounted, InHands

LEMMA TypeStep == Typed /\ Accounted /\ [Next]_vars => Typed'
<1> SUFFICES ASSUME Typed, Accounted, [Next]_vars PROVE Typed'
  OBVIOUS
<1> USE DEF Typed
<1> DEFINE job == Head(queue)
<1>0. /\ turn.stage # "idle" => turn.turn \in Turns
      /\ queue # <<>> => job.turn \in Turns /\ job \in Jobs /\ Tail(queue) \in Seq(Jobs)
  BY Known, Taken
<1>1. CASE BeginFinalize
  BY <1>1, SpeakersAre DEF BeginFinalize, requesting, database, counters
<1>2. CASE StoreLearner
  <2>1. turn.turn \in Turns
    BY <1>0, <1>2 DEF StoreLearner
  <2>2. turn' \in Speakers /\ rows' \in Seq(Rows)
    BY <1>2, <2>1, SpeakersAre, RowsAre DEF StoreLearner
  <2>3. QED
    BY <1>2, <2>2 DEF StoreLearner, requesting, counters
<1>3. CASE StoreCoach
  <2>1. turn.turn \in Turns
    BY <1>0, <1>3 DEF StoreCoach
  <2>2. turn' \in Speakers /\ rows' \in Seq(Rows)
    BY <1>3, <2>1, SpeakersAre, RowsAre DEF StoreCoach
  <2>3. QED
    BY <1>3, <2>2 DEF StoreCoach, requesting, counters
<1>4. CASE PublishFinalized
  <2>1. turn.turn \in Turns /\ turn.id \in Turns \cup {Unpersisted}
    BY <1>0, <1>4, SpeakersAre DEF PublishFinalized
  <2>2. Job(turn.turn, turn.id) \in Jobs
    BY <2>1, JobsAre
  <2>3. bus' \in Seq(Jobs) /\ turn' \in Speakers /\ published' \subseteq Turns
    BY <1>4, <2>1, <2>2, Nobody DEF PublishFinalized
  <2>4. QED
    BY <1>4, <2>3 DEF PublishFinalized, requesting, database
<1>5. CASE RunSubscriber
  BY <1>5 DEF RunSubscriber, requesting, database, counters
<1>6. CASE TakeScored
  <2>1. outcome' \in [Turns -> Labels]
    BY <1>6 DEF TakeScored, Finished, Labels
  <2>2. QED
    BY <1>0, <1>6, <2>1 DEF TakeScored, CanTake, Finished, requesting, database
<1>7. CASE TakeDeferred
  <2>1. queue # <<>>
    BY <1>7 DEF TakeDeferred, CanTake
  <2>2. worker' \in Workers
    BY <1>0, <1>7, <2>1, BusyWorkers DEF TakeDeferred
  <2>3. QED
    BY <1>0, <1>7, <2>1, <2>2 DEF TakeDeferred, requesting, database
<1>8. CASE TakeAdmitted
  <2>1. queue # <<>>
    BY <1>8 DEF TakeAdmitted, CanTake
  <2>2. LastCoachTurn \in Turns \cup {NoTurn}
    BY LastCoachTurnIs
  <2>3. worker' \in Workers
    BY <1>0, <1>8, <2>1, <2>2, BusyWorkers DEF TakeAdmitted
  <2>4. QED
    BY <1>0, <1>8, <2>1, <2>3 DEF TakeAdmitted, requesting, database, counters
<1>9. CASE ContextFails
  <2>1. outcome' \in [Turns -> Labels]
    BY <1>9 DEF ContextFails, Finished, Labels
  <2>2. QED
    BY <1>0, <1>9, <2>1 DEF ContextFails, CanTake, Finished, requesting, database
<1>10. CASE TakeRaises
  BY <1>10, RestingWorkers DEF TakeRaises, CanTake, requesting, database, counters
<1>11. CASE Requeue
  BY <1>11, WorkerFields, RestingWorkers DEF Requeue, requesting, database, counters
<1>12. CASE Evaluate
  <2>1. PICK got \in {worker.got \cup {worker.next}} \cup
                    (IF worker.next \in Flaky THEN {worker.got} ELSE {}) :
           worker' = IF worker.next + 1 \in Evaluators
                     THEN [worker EXCEPT !.next = @ + 1, !.got = got]
                     ELSE [worker EXCEPT !.pc = "outputs", !.got = got, !.store = got]
    BY <1>12 DEF Evaluate
  <2>2. got \in SUBSET Evaluators
    BY <2>1, WorkerFields
  <2>3. worker' = IF worker.next + 1 \in Evaluators
                  THEN [worker EXCEPT !.next = worker.next + 1, !.got = got]
                  ELSE [worker EXCEPT !.pc = "outputs", !.got = got, !.store = got]
    BY <2>1
  <2>4. worker' \in Workers
    BY <2>2, <2>3, WorkingWorkers
  <2>5. QED
    BY <1>12, <2>4 DEF Evaluate, requesting, database, counters
<1>13. CASE StoreOutput
  <2> DEFINE e == CHOOSE x \in worker.store : \A y \in worker.store : x <= y
  <2>1. worker.store \in SUBSET Evaluators /\ worker.store # {}
    BY <1>13, WorkerFields DEF StoreOutput
  <2>2. \E x \in worker.store : \A y \in worker.store : x <= y
    BY <2>1, LeastExists
  <2>3. e \in worker.store
    BY <2>2
  <2> HIDE DEF e
  <2>4. worker.job.id \in Turns
    BY <1>13, WorkerFields, JobsAre DEF StoreOutput, RowExists
  <2>5. /\ outputs' = outputs \cup {<<worker.job.id, e>>}
        /\ worker' = [worker EXCEPT !.store = worker.store \ {e}]
    BY <1>13 DEF StoreOutput, e
  <2>6. outputs' \subseteq Turns \X Evaluators
    BY <2>1, <2>3, <2>4, <2>5
  <2>7. worker' \in Workers
    BY <2>1, <2>5, WorkingWorkers
  <2>8. QED
    BY <1>13, <2>6, <2>7 DEF StoreOutput, requesting, counters
<1>14. CASE StoreAssessment
  <2>1. PICK l \in Levels :
          /\ assessments' = Append(assessments,
                [turn |-> worker.job.id, level |-> l, by |-> "worker",
                 from |-> worker.got, prompt |-> worker.prompt])
          /\ worker' = [worker EXCEPT !.pc = "level", !.level = l]
    BY <1>14 DEF StoreAssessment
  <2>2. l \in ScoreLevels
    BY DEF ScoreLevels
  <2>3. worker' \in Workers
    BY <2>1, <2>2, WorkingWorkers
  <2>4. /\ worker.job.id \in Turns /\ worker.got \in SUBSET Evaluators
        /\ worker.prompt \in Turns \cup {NoTurn}
    BY <1>14, WorkerFields, JobsAre DEF StoreAssessment, RowExists
  <2>5. assessments' \in Seq(Verdicts)
    BY <2>1, <2>4, VerdictsAre
  <2>6. QED
    BY <1>14, <2>3, <2>5 DEF StoreAssessment, requesting, counters
<1>15. CASE StoreLevel
  BY <1>15, WorkerFields, RestingWorkers DEF StoreLevel, Finished, requesting, Labels
<1>16. CASE JobFails
  BY <1>16, RestingWorkers DEF JobFails, Finished, requesting, database, Labels
<1>17. CASE RequestAdds
  <2>1. PICK l \in Levels, t \in {NoTurn} \cup {r.turn : r \in ToSet(rows)} :
          /\ assessments' = Append(assessments,
                [turn |-> t, level |-> l, by |-> "request", from |-> {}, prompt |-> NoTurn])
          /\ request' = [pc |-> "level", level |-> l]
    BY <1>17 DEF RequestAdds
  <2>2. t \in Turns \cup {NoTurn}
    <3>1. \A i \in DOMAIN rows : rows[i] \in Rows
      OBVIOUS
    <3>2. \A i \in DOMAIN rows : rows[i].turn \in Turns
      BY <3>1 DEF Rows
    <3>3. QED
      BY <3>2 DEF ToSet
  <2>3. assessments' \in Seq(Verdicts)
    BY <2>1, <2>2, VerdictsAre
  <2>4. request' \in Callers
    BY <2>1 DEF Callers, ScoreLevels
  <2>5. requests' \in 0 .. MaxRequests
    BY <1>17, BoundsAssumption DEF RequestAdds
  <2>6. QED
    BY <1>17, <2>3, <2>4, <2>5 DEF RequestAdds, counters
<1>18. CASE RequestSetsLevel
  <2>1. request.level \in ScoreLevels
    BY DEF Callers
  <2>2. QED
    BY <1>18, <2>1, Nobody DEF RequestSetsLevel, counters
<1>19. CASE StopWorker
  BY <1>19, RestingWorkers DEF StopWorker, requesting, database, counters, Phases
<1>20. CASE Exit
  BY <1>20 DEF Exit, requesting, database, counters, Phases
<1>21. CASE Crash
  BY <1>21, RestingWorkers, Nobody DEF Crash, database, counters, Phases
<1>22. CASE Start
  BY <1>22, RestingWorkers, BoundsAssumption DEF Start, requesting, database, counters, Phases
<1>23. CASE PressureChanges
  BY <1>23 DEF PressureChanges, requesting, database, counters, Pressures
<1>24. CASE Tick
  <2>1. queue' \in Seq(Jobs)
    BY <1>24, TurnsOfOlder DEF Tick
  <2>2. worker.job \in Jobs /\ Older(worker.job) \in Jobs
    BY WorkerFields, JobsAre
  <2>3. worker' = IF worker.pc = "backoff"
                  THEN [worker EXCEPT !.job = Older(worker.job)] ELSE worker
    BY <1>24 DEF Tick
  <2>4. worker' \in Workers
    BY <2>2, <2>3, WorkingWorkers
  <2>5. QED
    BY <1>24, <2>1, <2>4 DEF Tick, requesting, database, counters
<1>25. CASE UNCHANGED vars
  BY <1>25 DEF vars, requesting, database, counters
<1>26. QED
  BY <1>1, <1>2, <1>3, <1>4, <1>5, <1>6, <1>7, <1>8, <1>9, <1>10, <1>11, <1>12, <1>13,
     <1>14, <1>15, <1>16, <1>17, <1>18, <1>19, <1>20, <1>21, <1>22, <1>23, <1>24, <1>25
     DEF Next, Finalize, Take, Record

-----------------------------------------------------------------------------
(* What a step does to the ledger.                                         *)

LEMMA PendingIs ==
    /\ PendingTurns = TurnsOf(bus) \cup TurnsOf(queue) \cup InHands
    /\ PendingTurns' = TurnsOf(bus') \cup TurnsOf(queue') \cup InHands'
<1>1. \A s : {s[i] : i \in DOMAIN s} = ToSet(s)
  BY DEF ToSet
<1>2. \A s, q : {j.turn : j \in ToSet(s) \cup ToSet(q)} = TurnsOf(s) \cup TurnsOf(q)
  BY DEF ToSet, TurnsOf
<1>3. QED
  BY <1>2, Zenon DEF PendingTurns, InHands

LEMMA PhaseKept ==
    process' = process /\ (worker'.pc = "dead" <=> worker.pc = "dead") => Phase' = Phase
BY DEF Phase

Moves ==
    /\ PendingTurns' = PendingTurns
    /\ FinishedTurns' = FinishedTurns
    /\ published' = published
    /\ Phase' = Phase \/ (Phase = "down" /\ Phase' = "serving")

Publishes ==
    /\ Phase \in {"serving", "crippled"} /\ Phase' = Phase
    /\ \E t \in Turns \ published :
        /\ PendingTurns' = PendingTurns \cup {t}
        /\ FinishedTurns' = FinishedTurns
        /\ published' = published \cup {t}

Finishes ==
    /\ Phase = "serving" /\ Phase' = Phase
    /\ \E t \in PendingTurns :
        /\ PendingTurns' = PendingTurns \ {t}
        /\ FinishedTurns' = FinishedTurns \cup {t}
        /\ published' = published

\* One of the jobs, at most, but all of them when the process ends.
OneGone == \E t \in PendingTurns : PendingTurns' = PendingTurns \ {t}
Dies == Phase = "serving" /\ Phase' = "crippled" /\ OneGone
Stops ==
    /\ Phase \in {"serving", "crippled"} /\ Phase' = "stopping"
    /\ PendingTurns' = PendingTurns \/ (Phase = "serving" /\ OneGone)
Ends == Phase # "down" /\ Phase' = "down" /\ PendingTurns' = {}

Loses ==
    /\ Faults \cap {"crash", "stop", "read"} # {}
    /\ FinishedTurns' = FinishedTurns
    /\ published' = published
    /\ Dies \/ Stops \/ Ends

Books == Accounted' /\ (Moves \/ Publishes \/ Finishes \/ Loses)

\* Steps that leave every job where it is.
Still ==
    /\ UNCHANGED <<bus, queue, published, deferred, outcome>>
    /\ InHand' = InHand /\ InHands' = InHands
    /\ turn' = turn \/ (turn'.turn \in Turns \ published /\ process' = "up")
    /\ process' = process \/ process' = "up"
    /\ Phase' = Phase \/ (Phase = "down" /\ Phase' = "serving")

LEMMA StillBooks ==
    ASSUME Typed, Accounted, Still
    PROVE  Books
<1>1. FinishedTurns' = FinishedTurns
  BY DEF Still, FinishedTurns
<1>2. Moves
  BY <1>1, PendingIs DEF Still, Moves
<1>3. Accounted'
  BY <1>1 DEF Still, Accounted
<1>4. QED
  BY <1>2, <1>3 DEF Books

LEMMA WorkerIsRecord ==
    ASSUME Typed
    PROVE  /\ \A n, got : LET w == [worker EXCEPT !.next = n, !.got = got]
                          IN  w.pc = worker.pc /\ w.job = worker.job
           /\ \A got : LET w == [worker EXCEPT !.pc = "outputs", !.got = got, !.store = got]
                       IN  /\ w.pc = "outputs" /\ w.job = worker.job
                           /\ w.got = got /\ w.store = got
           /\ \A s : LET w == [worker EXCEPT !.store = s]
                     IN  /\ w.pc = worker.pc /\ w.job = worker.job
                         /\ w.got = worker.got /\ w.store = s
           /\ \A l : LET w == [worker EXCEPT !.pc = "level", !.level = l]
                     IN  w.pc = "level" /\ w.job = worker.job /\ w.level = l
BY DEF Typed, Workers

LEMMA StillSteps ==
    ASSUME Typed, Accounted,
           \/ BeginFinalize \/ StoreLearner \/ StoreCoach \/ Evaluate \/ StoreOutput
           \/ StoreAssessment \/ RequestAdds \/ RequestSetsLevel \/ Start
           \/ PressureChanges \/ UNCHANGED vars
    PROVE  Still
<1> USE DEF Still, counters
<1>1. CASE BeginFinalize
  BY <1>1, PhaseKept DEF BeginFinalize, Spoken, InHand, InHands
<1>2. CASE StoreLearner
  <2>1. turn.turn \in Turns \ published
    BY <1>2 DEF StoreLearner, Accounted
  <2>2. turn'.turn = turn.turn
    BY <1>2 DEF StoreLearner, Typed, Speakers
  <2>3. QED
    BY <1>2, <2>1, <2>2, PhaseKept DEF StoreLearner, Accounted, InHand, InHands
<1>3. CASE StoreCoach
  <2>1. turn.turn \in Turns \ published
    BY <1>3 DEF StoreCoach, Accounted
  <2>2. turn'.turn = turn.turn
    BY <1>3 DEF StoreCoach, Typed, Speakers
  <2>3. QED
    BY <1>3, <2>1, <2>2, PhaseKept DEF StoreCoach, Accounted, InHand, InHands
<1>4. CASE Evaluate
  <2>1. PICK got :
           worker' = IF worker.next + 1 \in Evaluators
                     THEN [worker EXCEPT !.next = worker.next + 1, !.got = got]
                     ELSE [worker EXCEPT !.pc = "outputs", !.got = got, !.store = got]
    BY <1>4 DEF Evaluate
  <2>2. worker'.job = worker.job /\ worker'.pc \in {"evaluate", "outputs"}
    <3>1. worker.pc = "evaluate"
      BY <1>4 DEF Evaluate
    <3>2. CASE worker.next + 1 \in Evaluators
      BY <2>1, <3>1, <3>2, WorkerIsRecord
    <3>3. CASE worker.next + 1 \notin Evaluators
      BY <2>1, <3>3, WorkerIsRecord
    <3>4. QED
      BY <3>2, <3>3
  <2>3. QED
    <3>1. InHand /\ InHand'
      BY <1>4, <2>2 DEF Evaluate, InHand
    <3>2. InHands' = InHands
      BY <2>2, <3>1 DEF InHands
    <3>3. process' = process /\ Phase' = Phase
      BY <1>4, <2>2, PhaseKept DEF Evaluate
    <3>4. QED
      BY <1>4, <3>1, <3>2, <3>3, Zenon DEF Evaluate
<1>5. CASE StoreOutput
  <2>1. worker'.job = worker.job /\ worker'.pc = "outputs"
    BY <1>5, WorkerIsRecord DEF StoreOutput
  <2>2. QED
    BY <1>5, <2>1, PhaseKept DEF StoreOutput, InHand, InHands
<1>6. CASE StoreAssessment
  <2>1. PICK l : worker' = [worker EXCEPT !.pc = "level", !.level = l]
    BY <1>6 DEF StoreAssessment
  <2>2. worker'.job = worker.job /\ worker'.pc = "level"
    BY <2>1, WorkerIsRecord
  <2>3. InHand /\ InHand'
    BY <1>6, <2>2 DEF StoreAssessment, InHand
  <2>4. InHands' = InHands
    BY <2>2, <2>3 DEF InHands
  <2>5. process' = process /\ Phase' = Phase
    BY <1>6, <2>2, PhaseKept DEF StoreAssessment
  <2>6. QED
    BY <1>6, <2>3, <2>4, <2>5, Zenon DEF StoreAssessment
<1>7. CASE RequestAdds
  BY <1>7, PhaseKept DEF RequestAdds, InHand, InHands
<1>8. CASE RequestSetsLevel
  BY <1>8, PhaseKept DEF RequestSetsLevel, InHand, InHands
<1>9. CASE Start
  BY <1>9, RestingWorkers DEF Start, InHand, InHands, Accounted, Phase
<1>10. CASE PressureChanges
  BY <1>10, PhaseKept DEF PressureChanges, InHand, InHands
<1>11. CASE UNCHANGED vars
  BY <1>11, PhaseKept DEF vars, InHand, InHands
<1>12. QED
  BY <1>1, <1>2, <1>3, <1>4, <1>5, <1>6, <1>7, <1>8, <1>9, <1>10, <1>11
\* Steps that carry a job from one place to the next.
LEMMA MovingSteps ==
    ASSUME Typed, Accounted,
           RunSubscriber \/ TakeDeferred \/ TakeAdmitted \/ Requeue \/ Tick
    PROVE  Books
<1>0. bus \in Seq(Jobs) /\ queue \in Seq(Jobs) /\ Distinct(bus) /\ Distinct(queue)
  BY DEF Typed, Accounted
<1>1. CASE RunSubscriber
  <2>1. /\ bus # <<>> /\ process # "down"
        /\ queue' = Append(queue, Head(bus)) /\ bus' = Tail(bus)
        /\ UNCHANGED <<process, turn, worker, published, deferred, outcome>>
    BY <1>1 DEF RunSubscriber, counters
  <2>2. /\ Head(bus) \in Jobs /\ Head(bus).turn \in TurnsOf(bus)
        /\ Head(bus).turn \notin TurnsOf(queue)
    BY <1>0, <2>1, Taken DEF Accounted
  <2>3. /\ TurnsOf(bus') = TurnsOf(bus) \ {Head(bus).turn} /\ Distinct(bus')
        /\ TurnsOf(queue') = TurnsOf(queue) \cup {Head(bus).turn} /\ Distinct(queue')
    BY <1>0, <2>1, <2>2, TurnsOfTail, TurnsOfAppend
  <2>4. InHand' = InHand /\ InHands' = InHands /\ FinishedTurns' = FinishedTurns
    BY <2>1 DEF InHand, InHands, FinishedTurns
  <2>5. Phase' = Phase
    BY <2>1, PhaseKept
  <2>6. QED
    BY <2>1, <2>2, <2>3, <2>4, <2>5, PendingIs DEF Books, Moves, Accounted
<1>2. CASE TakeDeferred \/ TakeAdmitted
  <2>1. /\ queue # <<>> /\ process = "up" /\ worker.pc = "idle"
        /\ queue' = Tail(queue)
        /\ UNCHANGED <<process, turn, bus, published, outcome>>
        /\ deferred' \subseteq deferred \cup {Head(queue).turn}
    BY <1>2 DEF TakeDeferred, TakeAdmitted, CanTake, counters
  <2>2. Head(queue) \in Jobs /\ Head(queue).turn \in TurnsOf(queue)
    BY <1>0, <2>1, Taken
  <2>3. worker'.pc \in {"backoff", "evaluate"} /\ worker'.job = Head(queue)
    <3>1. LastCoachTurn \in Turns \cup {NoTurn}
      BY LastCoachTurnIs DEF Typed
    <3>2. CASE TakeDeferred
      BY <2>2, <3>1, <3>2, BusyWorkers DEF TakeDeferred
    <3>3. CASE TakeAdmitted
      <4>1. PICK c \in Turns \cup {NoTurn}, j \in Jobs :
              /\ j = Head(queue)
              /\ worker' = [Idle EXCEPT !.pc = "evaluate", !.job = j, !.prompt = c]
        BY <2>2, <3>1, <3>3, Zenon DEF TakeAdmitted
      <4> DEFINE w == [Idle EXCEPT !.pc = "evaluate", !.job = j, !.prompt = c]
      <4>2. w.pc = "evaluate" /\ w.job = j
        BY DEF Idle, Off
      <4>3. worker' = w
        BY <4>1
      <4> HIDE DEF w
      <4>4. QED
        BY <4>1, <4>2, <4>3
    <3>4. QED
      BY <1>2, <3>2, <3>3
  <2>4. /\ TurnsOf(queue') = TurnsOf(queue) \ {Head(queue).turn} /\ Distinct(queue')
    BY <1>0, <2>1, TurnsOfTail
  <2>5. /\ ~InHand /\ InHand'
        /\ InHands = {} /\ InHands' = {Head(queue).turn}
        /\ FinishedTurns' = FinishedTurns
    BY <2>1, <2>3 DEF InHand, InHands, FinishedTurns
  <2>6. Phase' = Phase
    BY <2>1, <2>3, PhaseKept
  <2>7. QED
    BY <2>1, <2>2, <2>4, <2>5, <2>6, PendingIs DEF Books, Moves, Accounted
<1>3. CASE Requeue
  <2>1. /\ process = "up" /\ worker.pc = "backoff" /\ worker' = Idle
        /\ queue' = Append(queue, worker.job)
        /\ UNCHANGED <<process, turn, bus, published, deferred, outcome>>
    BY <1>3 DEF Requeue, counters
  <2>2. /\ InHand /\ ~InHand' /\ InHands = {worker.job.turn} /\ InHands' = {}
        /\ FinishedTurns' = FinishedTurns
    BY <2>1, RestingWorkers DEF InHand, InHands, FinishedTurns
  <2>3. worker.job \in Jobs /\ worker.job.turn \notin TurnsOf(queue)
    BY <2>2, WorkerFields DEF Typed, Accounted
  <2>4. TurnsOf(queue') = TurnsOf(queue) \cup {worker.job.turn} /\ Distinct(queue')
    BY <1>0, <2>1, <2>3, TurnsOfAppend
  <2>5. Phase' = Phase
    BY <2>1, RestingWorkers, PhaseKept
  <2>6. QED
    BY <2>1, <2>2, <2>3, <2>4, <2>5, PendingIs DEF Books, Moves, Accounted
<1>4. CASE Tick
  <2>1. /\ queue' = [i \in DOMAIN queue |-> Older(queue[i])]
        /\ worker' = IF worker.pc = "backoff"
                     THEN [worker EXCEPT !.job = Older(worker.job)] ELSE worker
        /\ UNCHANGED <<process, turn, bus, published, deferred, outcome>>
    BY <1>4 DEF Tick, counters
  <2>2. TurnsOf(queue') = TurnsOf(queue) /\ Distinct(queue')
    BY <1>0, <2>1, TurnsOfOlder
  <2>3. worker'.pc = worker.pc /\ worker'.job.turn = worker.job.turn
    <3>1. Older(worker.job).turn = worker.job.turn
      BY WorkerFields, JobsAre DEF Typed
    <3>2. /\ [worker EXCEPT !.job = Older(worker.job)].pc = worker.pc
          /\ [worker EXCEPT !.job = Older(worker.job)].job = Older(worker.job)
      BY DEF Typed, Workers
    <3>3. QED
      BY <2>1, <3>1, <3>2
  <2>4. InHand' = InHand /\ InHands' = InHands /\ FinishedTurns' = FinishedTurns
    BY <2>1, <2>3 DEF InHand, InHands, FinishedTurns
  <2>5. Phase' = Phase
    BY <2>1, <2>3, PhaseKept
  <2>6. QED
    BY <2>1, <2>2, <2>4, <2>5, PendingIs DEF Books, Moves, Accounted
<1>5. QED
  BY <1>1, <1>2, <1>3, <1>4

\* A turn that was not published yet is pending in the bus.
LEMMA PublishingStep ==
    ASSUME Typed, Accounted, PublishFinalized
    PROVE  Books
<1> DEFINE t == turn.turn
<1>1. /\ turn.stage = "publish"
      /\ bus' = Append(bus, Job(t, turn.id))
      /\ published' = published \cup {t}
      /\ turn' = Speaking
      /\ UNCHANGED <<process, queue, worker, deferred, outcome>>
  BY DEF PublishFinalized
<1>2. t \in Turns \ published
  BY <1>1 DEF Accounted
<1>3. /\ Job(t, turn.id) \in Jobs /\ Job(t, turn.id).turn = t
  BY <1>2, SpeakersAre, JobsAre DEF Typed
<1>4. t \notin TurnsOf(bus) /\ t \notin TurnsOf(queue) /\ t \notin InHands
  BY <1>2 DEF Accounted
<1>5. TurnsOf(bus') = TurnsOf(bus) \cup {t} /\ Distinct(bus')
  BY <1>1, <1>3, <1>4, TurnsOfAppend DEF Typed, Accounted
<1>6. /\ InHand' = InHand /\ InHands' = InHands /\ FinishedTurns' = FinishedTurns
      /\ turn'.stage = "idle"
  BY <1>1, Nobody DEF InHand, InHands, FinishedTurns
<1>a. Phase \in {"serving", "crippled"} /\ Phase' = Phase
  BY <1>1, PhaseKept DEF Accounted, Phase
<1> HIDE DEF t
<1>7. Publishes
  BY <1>1, <1>2, <1>5, <1>6, <1>a, PendingIs DEF Publishes
<1>8. Accounted'
  BY <1>1, <1>2, <1>4, <1>5, <1>6 DEF Accounted
<1>9. QED
  BY <1>7, <1>8 DEF Books

\* A job leaves the place where it waited, counted under a label.
LEMMA FinishingSteps ==
    ASSUME Typed, Accounted, TakeScored \/ ContextFails \/ JobFails \/ StoreLevel
    PROVE  Books
<1>0. queue \in Seq(Jobs) /\ Distinct(queue) /\ published \subseteq Turns
  BY DEF Typed, Accounted
<1>1. ASSUME NEW t \in Turns, NEW label \in Labels \ {"none"},
             outcome' = [outcome EXCEPT ![t] = label]
      PROVE  FinishedTurns' = FinishedTurns \cup {t}
  BY <1>1 DEF FinishedTurns, Typed, Labels
<1>2. CASE TakeScored \/ ContextFails
  <2> DEFINE t == Head(queue).turn
  <2>1. /\ queue # <<>> /\ worker.pc = "idle" /\ process = "up" /\ queue' = Tail(queue)
        /\ UNCHANGED <<process, turn, bus, worker, published, deferred>>
        /\ \E label \in Labels \ {"none"} : outcome' = [outcome EXCEPT ![t] = label]
    BY <1>2 DEF TakeScored, ContextFails, CanTake, Finished, Labels
  <2>2. t \in TurnsOf(queue)
    BY <1>0, <2>1, Taken
  <2>3. t \in published
    BY <2>2 DEF Accounted
  <2>4. TurnsOf(queue') = TurnsOf(queue) \ {t} /\ Distinct(queue')
    BY <1>0, <2>1, TurnsOfTail
  <2>5. FinishedTurns' = FinishedTurns \cup {t}
    BY <1>0, <1>1, <2>1, <2>3
  <2>6. InHand' = InHand /\ InHands' = InHands /\ InHands = {}
    BY <2>1 DEF InHand, InHands
  <2>a. Phase = "serving" /\ Phase' = Phase
    BY <2>1, PhaseKept DEF Phase
  <2> HIDE DEF t
  <2>7. Finishes
    BY <2>1, <2>2, <2>4, <2>5, <2>6, <2>a, PendingIs DEF Finishes, Accounted
  <2>8. Accounted'
    BY <2>1, <2>2, <2>3, <2>4, <2>5, <2>6 DEF Accounted
  <2>9. QED
    BY <2>7, <2>8 DEF Books
<1>3. CASE JobFails \/ StoreLevel
  <2> DEFINE t == worker.job.turn
  <2>1. /\ worker.pc \in {"outputs", "level"} /\ worker' = Idle
        /\ UNCHANGED <<process, turn, bus, queue, published, deferred>>
        /\ \E label \in Labels \ {"none"} : outcome' = [outcome EXCEPT ![t] = label]
    BY <1>3 DEF JobFails, StoreLevel, Finished, Labels
  <2>2. /\ InHand /\ ~InHand' /\ InHands = {t} /\ InHands' = {}
    BY <2>1, RestingWorkers DEF InHand, InHands
  <2>3. t \in published
    BY <2>2 DEF Accounted
  <2>4. FinishedTurns' = FinishedTurns \cup {t}
    BY <1>0, <1>1, <2>1, <2>3
  <2>a. Phase = "serving" /\ Phase' = Phase
    BY <2>1, <2>2, RestingWorkers, PhaseKept DEF Accounted, Phase
  <2> HIDE DEF t
  <2>5. Finishes
    BY <2>1, <2>2, <2>4, <2>a, PendingIs DEF Finishes, Accounted
  <2>6. Accounted'
    BY <2>1, <2>2, <2>3, <2>4 DEF Accounted
  <2>7. QED
    BY <2>5, <2>6 DEF Books
<1>4. QED
  BY <1>2, <1>3

\* Jobs are dropped by a fault only, each fault those it reaches.
LEMMA LosingSteps ==
    ASSUME Typed, Accounted, TakeRaises \/ StopWorker \/ Exit \/ Crash
    PROVE  Books
<1>0. queue \in Seq(Jobs) /\ Distinct(queue) /\ Distinct(bus)
  BY DEF Typed, Accounted
<1>1. /\ UNCHANGED <<published, deferred, outcome>>
      /\ (turn' = turn /\ process' = process) \/ turn'.stage = "idle"
      /\ process' = "stopping" => "stop" \in Faults
      /\ process' # "up" => ~InHand'
      /\ Faults \cap {"crash", "stop", "read"} # {}
  BY RestingWorkers, Nobody
     DEF TakeRaises, StopWorker, Exit, Crash, counters, Accounted, InHand, CanTake, LoopFree
<1>2. /\ TurnsOf(bus') \subseteq TurnsOf(bus) /\ Distinct(bus')
      /\ TurnsOf(queue') \subseteq TurnsOf(queue) /\ Distinct(queue')
  BY <1>0, TurnsOfTail, TurnsOfNothing DEF TakeRaises, StopWorker, Exit, Crash, CanTake
<1>3. InHands' \subseteq InHands
  BY RestingWorkers DEF TakeRaises, StopWorker, Exit, Crash, InHands, InHand
<1>4. FinishedTurns' = FinishedTurns
  BY <1>1 DEF FinishedTurns
<1>5. Dies \/ Stops \/ Ends
  <2>1. CASE TakeRaises
    <3> DEFINE t == Head(queue).turn
    <3>1. /\ process = "up" /\ worker.pc = "idle" /\ queue # <<>> /\ worker'.pc = "dead"
          /\ queue' = Tail(queue) /\ process' = process /\ bus' = bus
      BY <2>1, RestingWorkers DEF TakeRaises, CanTake
    <3>2. t \in TurnsOf(queue) /\ TurnsOf(queue') = TurnsOf(queue) \ {t}
      BY <1>0, <3>1, Taken, TurnsOfTail
    <3>3. InHands = {} /\ InHands' = {} /\ t \notin TurnsOf(bus)
      BY <3>1, <3>2 DEF InHands, InHand, Accounted
    <3>4. Phase = "serving" /\ Phase' = "crippled"
      BY <3>1 DEF Phase
    <3> HIDE DEF t
    <3>5. OneGone
      BY <3>1, <3>2, <3>3, PendingIs DEF OneGone
    <3>6. QED
      BY <3>4, <3>5 DEF Dies
  <2>2. CASE StopWorker
    <3>1. /\ process = "up" /\ process' = "stopping" /\ worker'.pc = "off"
          /\ bus' = bus /\ queue' = queue
      BY <2>2, RestingWorkers DEF StopWorker
    <3>2. InHands' = {} /\ Phase' = "stopping"
      BY <3>1 DEF InHands, InHand, Phase
    <3>3. CASE InHand
      <4>1. /\ InHands = {worker.job.turn} /\ Phase = "serving"
            /\ InHands \cap (TurnsOf(bus) \cup TurnsOf(queue)) = {}
        BY <3>1, <3>3 DEF InHands, InHand, Phase, Accounted
      <4>2. OneGone
        BY <3>1, <3>2, <4>1, PendingIs DEF OneGone
      <4>3. QED
        BY <3>2, <4>1, <4>2 DEF Stops
    <3>4. CASE ~InHand
      <4>1. InHands = {} /\ Phase \in {"serving", "crippled"}
        BY <3>1, <3>4 DEF InHands, Phase
      <4>2. QED
        BY <3>1, <3>2, <4>1, PendingIs DEF Stops
    <3>5. QED
      BY <3>3, <3>4
  <2>3. CASE Exit \/ Crash
    <3>1. /\ bus' = <<>> /\ queue' = <<>> /\ process # "down" /\ process' = "down"
      BY <2>3 DEF Exit, Crash
    <3>2. InHands' = {} /\ TurnsOf(bus') = {} /\ TurnsOf(queue') = {}
      BY <1>1, <3>1, TurnsOfNothing DEF InHands
    <3>3. Phase # "down" /\ Phase' = "down"
      BY <3>1 DEF Phase, Typed, Phases
    <3>4. QED
      BY <3>2, <3>3, PendingIs DEF Ends
  <2>4. QED
    BY <2>1, <2>2, <2>3
<1>6. Loses
  BY <1>1, <1>4, <1>5 DEF Loses
<1>7. Accounted'
  BY <1>1, <1>2, <1>3, <1>4 DEF Accounted
<1>8. QED
  BY <1>6, <1>7 DEF Books

LEMMA BooksKept == Typed /\ Accounted /\ [Next]_vars => Books
BY StillSteps, StillBooks, MovingSteps, PublishingStep, FinishingSteps, LosingSteps
   DEF Next, Finalize, Take, Record
-----------------------------------------------------------------------------
(* The payloads behind an assessment.                                      *)

LEMMA VerdictAdded ==
    ASSUME NEW s \in Seq(Verdicts), NEW v
    PROVE  /\ ToSet(Append(s, v)) = ToSet(s) \cup {v}
           /\ Append(s, v) # <<>> /\ Last(Append(s, v)) = v
<1>1. /\ Len(s) \in Nat /\ DOMAIN s = 1 .. Len(s)
      /\ DOMAIN Append(s, v) = 1 .. Len(s) + 1 /\ Len(Append(s, v)) = Len(s) + 1
      /\ Append(s, v)[Len(s) + 1] = v
      /\ \A i \in 1 .. Len(s) : Append(s, v)[i] = s[i]
  OBVIOUS
<1>2. \A i \in 1 .. Len(s) + 1 : i \in 1 .. Len(s) \/ i = Len(s) + 1
  BY <1>1
<1>3. 1 .. Len(s) \subseteq 1 .. Len(s) + 1 /\ Len(s) + 1 \in 1 .. Len(s) + 1
  BY <1>1
<1>4. ToSet(Append(s, v)) = ToSet(s) \cup {v}
  BY <1>1, <1>2, <1>3 DEF ToSet
<1>5. QED
  BY <1>1, <1>4 DEF Last

LEMMA PayloadsStep ==
    ASSUME Typed, PayloadsStored, AuditTrail, [Next]_vars
    PROVE  PayloadsStored' /\ AuditTrail'
<1>1. CASE Evaluate
  <2>1. PICK got :
           worker' = IF worker.next + 1 \in Evaluators
                     THEN [worker EXCEPT !.next = worker.next + 1, !.got = got]
                     ELSE [worker EXCEPT !.pc = "outputs", !.got = got, !.store = got]
    BY <1>1 DEF Evaluate
  <2>2. worker.pc = "evaluate" /\ UNCHANGED <<outputs, assessments>>
    BY <1>1 DEF Evaluate, database
  <2>3. worker'.pc = "outputs" => worker'.got = worker'.store
    <3>1. CASE worker.next + 1 \in Evaluators
      BY <2>1, <2>2, <3>1, WorkerIsRecord
    <3>2. CASE worker.next + 1 \notin Evaluators
      BY <2>1, <3>2, WorkerIsRecord
    <3>3. QED
      BY <3>1, <3>2
  <2>4. QED
    BY <2>2, <2>3 DEF PayloadsStored, AuditTrail
<1>2. CASE StoreOutput
  <2>1. PICK e : /\ outputs' = outputs \cup {<<worker.job.id, e>>}
                 /\ worker' = [worker EXCEPT !.store = worker.store \ {e}]
    BY <1>2 DEF StoreOutput
  <2> DEFINE left == worker.store \ {e}
             w == [worker EXCEPT !.store = left]
  <2>0. worker' = w /\ worker.pc = "outputs"
    BY <1>2, <2>1 DEF StoreOutput
  <2> HIDE DEF left
  <2>a. w.pc = worker.pc /\ w.job = worker.job /\ w.got = worker.got /\ w.store = left
    BY WorkerIsRecord
  <2>2. /\ worker'.pc = "outputs" /\ worker'.job = worker.job
        /\ worker'.got = worker.got /\ worker'.store = worker.store \ {e}
    BY <2>0, <2>a DEF left
  <2>3. PayloadsStored'
    BY <1>2, <2>1, <2>2 DEF StoreOutput, PayloadsStored
  <2>4. assessments' = assessments
    BY <1>2 DEF StoreOutput
  <2>5. QED
    BY <2>1, <2>3, <2>4 DEF AuditTrail
<1>3. CASE StoreAssessment
  <2> DEFINE verdict(l) == [turn |-> worker.job.id, level |-> l, by |-> "worker",
                            from |-> worker.got, prompt |-> worker.prompt]
  <2>1. PICK l \in Levels : /\ assessments' = Append(assessments, verdict(l))
                            /\ worker' = [worker EXCEPT !.pc = "level", !.level = l]
    BY <1>3 DEF StoreAssessment
  <2>2. verdict(l).turn = worker.job.id /\ verdict(l).from = worker.got
    OBVIOUS
  <2>3. \A e \in worker.got : <<worker.job.id, e>> \in outputs
    BY <1>3 DEF StoreAssessment, PayloadsStored
  <2>4. outputs' = outputs /\ worker'.pc = "level"
    BY <1>3, <2>1, WorkerIsRecord DEF StoreAssessment
  <2> DEFINE v == verdict(l)
  <2>5. /\ assessments' = Append(assessments, v)
        /\ v.turn = worker.job.id /\ v.from = worker.got
    BY <2>1, <2>2
  <2> HIDE DEF verdict, v
  <2>6. ToSet(assessments') = ToSet(assessments) \cup {v}
    BY <2>5, VerdictAdded DEF Typed
  <2>7. AuditTrail'
    BY <2>3, <2>4, <2>5, <2>6 DEF AuditTrail
  <2>8. QED
    BY <2>4, <2>7 DEF PayloadsStored
<1>4. CASE RequestAdds
  <2>1. PICK l \in Levels, t \in {NoTurn} \cup {r.turn : r \in ToSet(rows)} :
          assessments' = Append(assessments,
                [turn |-> t, level |-> l, by |-> "request", from |-> {}, prompt |-> NoTurn])
    BY <1>4 DEF RequestAdds
  <2> DEFINE v == [turn |-> t, level |-> l, by |-> "request", from |-> {}, prompt |-> NoTurn]
  <2>2. assessments' = Append(assessments, v) /\ v.from = {}
    BY <2>1
  <2> HIDE DEF v
  <2>3. UNCHANGED <<outputs, worker>>
    BY <1>4 DEF RequestAdds
  <2>4. ToSet(assessments') = ToSet(assessments) \cup {v}
    BY <2>2, VerdictAdded DEF Typed
  <2>5. QED
    BY <2>2, <2>3, <2>4 DEF AuditTrail, PayloadsStored
<1>5. CASE worker'.pc # "outputs" /\ UNCHANGED <<outputs, assessments>>
  BY <1>5 DEF PayloadsStored, AuditTrail
<1>6. CASE UNCHANGED <<worker, outputs, assessments>>
  BY <1>6 DEF PayloadsStored, AuditTrail
<1>7. CASE Tick
  <2>1. UNCHANGED <<outputs, assessments>>
    BY <1>7 DEF Tick, database
  <2>2. worker.pc = "backoff" => worker'.pc = "backoff"
    BY <1>7 DEF Tick, Typed, Workers
  <2>3. worker.pc # "backoff" => worker' = worker
    BY <1>7 DEF Tick
  <2>4. QED
    BY <1>5, <1>6, <2>1, <2>2, <2>3
<1>8. CASE \/ TakeDeferred \/ TakeAdmitted \/ TakeRaises \/ Requeue \/ JobFails
           \/ StoreLevel \/ StopWorker \/ Crash \/ Start
  <2>1. UNCHANGED <<outputs, assessments>>
    BY <1>8 DEF TakeDeferred, TakeAdmitted, TakeRaises, Requeue, JobFails, StoreLevel,
                StopWorker, Crash, Start, database
  <2>2. worker'.pc # "outputs"
    BY <1>8, RestingWorkers DEF TakeDeferred, TakeAdmitted, TakeRaises, Requeue, JobFails,
                StoreLevel, StopWorker, Crash, Start, Idle, Off
  <2>3. QED
    BY <1>5, <2>1, <2>2
<1>9. CASE \/ BeginFinalize \/ StoreLearner \/ StoreCoach \/ PublishFinalized
           \/ RunSubscriber \/ TakeScored \/ ContextFails \/ RequestSetsLevel \/ Exit
           \/ PressureChanges \/ UNCHANGED vars
  BY <1>6, <1>9 DEF BeginFinalize, StoreLearner, StoreCoach, PublishFinalized,
           RunSubscriber, TakeScored, ContextFails, RequestSetsLevel, Exit,
           PressureChanges, vars, database
<1>10. QED
  BY <1>1, <1>2, <1>3, <1>4, <1>7, <1>8, <1>9 DEF Next, Finalize, Take, Record
-----------------------------------------------------------------------------
(* The level beside the assessments, as long as the worker is their only   *)
(* writer.                                                                 *)

LevelKept ==
    requests = 0 =>
        /\ request.pc = "idle"
        /\ worker.pc = "level" => /\ RowExists(worker.job.id)
                                  /\ assessments # <<>>
                                  /\ Last(assessments).level = worker.level
        /\ LevelFollowsLatest

LEMMA LevelStep ==
    ASSUME Faults \cap {"crash", "write"} = {},
           Typed, Accounted, LevelKept, [Next]_vars
    PROVE  LevelKept'
<1> SUFFICES ASSUME requests' = 0 PROVE LevelKept'
  BY DEF LevelKept
<1>0. requests = 0
  <2>1. CASE RequestAdds
    BY <2>1 DEF RequestAdds, Typed
  <2>2. CASE UNCHANGED requests
    BY <2>2
  <2>3. CASE BeginFinalize \/ Finalize \/ RunSubscriber \/ Take \/ TakeRaises \/ Requeue
    BY <2>2, <2>3
       DEF BeginFinalize, Finalize, StoreLearner, StoreCoach, PublishFinalized,
           RunSubscriber, Take, TakeScored, TakeDeferred, TakeAdmitted, ContextFails,
           TakeRaises, Requeue, requesting
  <2>4. CASE Evaluate \/ Record \/ RequestSetsLevel \/ StopWorker \/ Exit \/ Crash
    BY <2>2, <2>4
       DEF Evaluate, Record, StoreOutput, StoreAssessment, StoreLevel, JobFails,
           RequestSetsLevel, StopWorker, Exit, Crash, requesting
  <2>5. CASE Start \/ PressureChanges \/ Tick \/ UNCHANGED vars
    BY <2>2, <2>5 DEF Start, PressureChanges, Tick, vars, requesting
  <2>6. QED
    BY <2>1, <2>3, <2>4, <2>5 DEF Next
<1>1. CASE StoreAssessment
  <2>1. PICK l \in Levels :
          /\ assessments' = Append(assessments,
                [turn |-> worker.job.id, level |-> l, by |-> "worker",
                 from |-> worker.got, prompt |-> worker.prompt])
          /\ worker' = [worker EXCEPT !.pc = "level", !.level = l]
    BY <1>1 DEF StoreAssessment
  <2> DEFINE v == [turn |-> worker.job.id, level |-> l, by |-> "worker",
                   from |-> worker.got, prompt |-> worker.prompt]
  <2>2. assessments' = Append(assessments, v) /\ v.level = l
    BY <2>1
  <2> HIDE DEF v
  <2>3. assessments' # <<>> /\ Last(assessments').level = l
    BY <2>2, VerdictAdded DEF Typed
  <2>4. worker'.pc = "level" /\ worker'.level = l /\ worker'.job = worker.job
    BY <2>1, WorkerIsRecord
  <2>5. RowExists(worker.job.id) /\ request' = request
    BY <1>1 DEF StoreAssessment, requesting
  <2>6. QED
    BY <1>0, <2>3, <2>4, <2>5 DEF LevelKept, LevelFollowsLatest, RowExists
<1>2. CASE StoreLevel
  <2>1. /\ worker.pc = "level" /\ userLevel' = worker.level /\ worker' = Idle
        /\ UNCHANGED <<request, assessments>>
    BY <1>2 DEF StoreLevel, requesting
  <2>2. QED
    BY <1>0, <2>1, RestingWorkers DEF LevelKept, LevelFollowsLatest
<1>3. CASE JobFails
  <2>1. worker.pc # "level"
    BY <1>0, <1>3 DEF JobFails, CanWrite, LevelKept
  <2>2. worker' = Idle /\ UNCHANGED <<request, assessments, userLevel>>
    BY <1>3 DEF JobFails, requesting, database
  <2>3. QED
    BY <1>0, <2>1, <2>2, RestingWorkers DEF LevelKept, LevelFollowsLatest
<1>4. CASE worker.pc # "level" /\ worker'.pc # "level"
           /\ UNCHANGED <<request, assessments, userLevel>>
  BY <1>0, <1>4 DEF LevelKept, LevelFollowsLatest
<1>5. CASE UNCHANGED <<worker, request, assessments, userLevel>>
  BY <1>0, <1>5 DEF LevelKept, LevelFollowsLatest, RowExists
<1>6. CASE Evaluate
  <2>1. PICK got :
           worker' = IF worker.next + 1 \in Evaluators
                     THEN [worker EXCEPT !.next = worker.next + 1, !.got = got]
                     ELSE [worker EXCEPT !.pc = "outputs", !.got = got, !.store = got]
    BY <1>6 DEF Evaluate
  <2>2. worker.pc = "evaluate" /\ UNCHANGED <<request, assessments, userLevel>>
    BY <1>6 DEF Evaluate, database, requesting
  <2>3. CASE worker.next + 1 \in Evaluators
    BY <1>4, <2>1, <2>2, <2>3, WorkerIsRecord
  <2>4. CASE worker.next + 1 \notin Evaluators
    BY <1>4, <2>1, <2>2, <2>4, WorkerIsRecord
  <2>5. QED
    BY <2>3, <2>4
<1>7. CASE StoreOutput
  <2>1. PICK some : worker' = [worker EXCEPT !.store = some]
    BY <1>7 DEF StoreOutput
  <2>2. worker'.pc = worker.pc
    BY <2>1, WorkerIsRecord
  <2>3. QED
    BY <1>4, <1>7, <2>2 DEF StoreOutput, requesting
<1>8. CASE Tick
  <2>1. UNCHANGED <<request, assessments, userLevel>>
    BY <1>8 DEF Tick, database, requesting
  <2>2. worker.pc = "backoff" => worker'.pc = "backoff"
    BY <1>8 DEF Tick, Typed, Workers
  <2>3. worker.pc # "backoff" => worker' = worker
    BY <1>8 DEF Tick
  <2>4. QED
    BY <1>4, <1>5, <2>1, <2>2, <2>3
<1>9. CASE TakeDeferred \/ TakeAdmitted \/ TakeRaises \/ Requeue \/ StopWorker
  <2>1. UNCHANGED <<request, assessments, userLevel>>
    BY <1>9 DEF TakeDeferred, TakeAdmitted, TakeRaises, Requeue, StopWorker,
                database, requesting
  <2>2. worker.pc # "level"
    BY <1>9 DEF TakeDeferred, TakeAdmitted, TakeRaises, Requeue, StopWorker, CanTake,
                LoopFree
  <2>3. worker'.pc # "level"
    BY <1>9, RestingWorkers
       DEF TakeDeferred, TakeAdmitted, TakeRaises, Requeue, StopWorker, Idle, Off
  <2>4. QED
    BY <1>4, <2>1, <2>2, <2>3
<1>10. CASE Start
  <2>1. /\ worker' = Idle /\ UNCHANGED <<request, assessments, userLevel>>
        /\ worker.pc # "level"
    BY <1>10 DEF Start, database, requesting, Accounted, InHand
  <2>2. QED
    BY <1>4, <2>1, RestingWorkers
<1>11. CASE \/ BeginFinalize \/ StoreLearner \/ StoreCoach \/ PublishFinalized
           \/ RunSubscriber \/ TakeScored \/ ContextFails \/ Exit
           \/ PressureChanges \/ UNCHANGED vars
  BY <1>5, <1>11 DEF BeginFinalize, StoreLearner, StoreCoach, PublishFinalized,
           RunSubscriber, TakeScored, ContextFails, Exit,
           PressureChanges, vars, database, requesting
<1>12. CASE RequestAdds \/ RequestSetsLevel \/ Crash
  BY <1>0, <1>12 DEF RequestAdds, RequestSetsLevel, Crash, LevelKept, Typed
<1>13. QED
  BY <1>1, <1>2, <1>3, <1>6, <1>7, <1>8, <1>9, <1>10, <1>11, <1>12
     DEF Next, Finalize, Take, Record
-----------------------------------------------------------------------------
(* The theorems.                                                           *)

\* No published turn is forgotten.
NothingLost == LostTurns = {}

LEMMA InitHolds == Init => IInv /\ LevelKept /\ NothingLost
<1> SUFFICES ASSUME Init PROVE IInv /\ LevelKept /\ NothingLost
  OBVIOUS
<1>1. Typed
  BY TypeInit
<1>2. /\ ~InHand /\ InHands = {} /\ FinishedTurns = {}
      /\ TurnsOf(bus) = {} /\ TurnsOf(queue) = {} /\ Distinct(bus) /\ Distinct(queue)
  BY RestingWorkers, TurnsOfNothing DEF Init, InHand, InHands, FinishedTurns
<1>3. Accounted
  BY <1>2, Nobody DEF Init, Accounted
<1>4. PayloadsStored /\ AuditTrail
  BY RestingWorkers DEF Init, PayloadsStored, AuditTrail, ToSet
<1>5. LevelKept
  BY RestingWorkers, Nobody DEF Init, LevelKept, LevelFollowsLatest
<1>6. NothingLost
  BY DEF Init, NothingLost, LostTurns
<1>7. QED
  BY <1>1, <1>3, <1>4, <1>5, <1>6 DEF IInv

LEMMA IInvStep == IInv /\ [Next]_vars => IInv' /\ Books
BY TypeStep, BooksKept, PayloadsStep DEF IInv, Books

(***************************************************************************)
(* Every variable keeps its type, whatever fails or is interrupted: in     *)
(* particular no payload and no assessment of the worker is stored under a *)
(* turn whose own insert failed.                                           *)
(***************************************************************************)
THEOREM ColdPathTyped == Spec => []TypeOK
<1>1. Init => IInv
  BY InitHolds
<1>2. IInv /\ [Next]_vars => IInv'
  BY IInvStep
<1>3. IInv => TypeOK
  BY TypedIsTypeOK DEF IInv
<1>4. QED
  BY <1>1, <1>2, <1>3, PTL DEF Spec

(***************************************************************************)
(* The raw payload of every evaluator behind an assessment is stored       *)
(* before the assessment, so an interruption of record() between any two   *)
(* of its transactions leaves the audit trail whole                        *)
(* (ScoringService.record).                                                *)
(***************************************************************************)
THEOREM AuditTrailHolds == Spec => []AuditTrail
<1>1. Init => IInv
  BY InitHolds
<1>2. IInv /\ [Next]_vars => IInv'
  BY IInvStep
<1>3. IInv => AuditTrail
  BY DEF IInv
<1>4. QED
  BY <1>1, <1>2, <1>3, PTL DEF Spec

-----------------------------------------------------------------------------
LEMMA LedgerInit == Init => Ledger!Init
<1> SUFFICES ASSUME Init PROVE Ledger!Init
  OBVIOUS
<1>1. InHands = {} /\ FinishedTurns = {} /\ TurnsOf(bus) = {} /\ TurnsOf(queue) = {}
  BY RestingWorkers, TurnsOfNothing DEF Init, InHand, InHands, FinishedTurns
<1>2. LostTurns = {}
  BY InitHolds DEF NothingLost
<1>3. Phase = "serving"
  BY RestingWorkers DEF Init, Phase
<1>4. QED
  BY <1>1, <1>2, <1>3, PendingIs DEF Ledger!Init

LEMMA LedgerStep == IInv /\ [Next]_vars => [Ledger!Next]_(Ledger!vars)
<1> SUFFICES ASSUME IInv, [Next]_vars PROVE [Ledger!Next]_(Ledger!vars)
  OBVIOUS
<1> DEFINE P == PendingTurns
           F == FinishedTurns
           L == LostTurns
           H == Phase
<1>1. Books /\ Accounted
  BY IInvStep DEF IInv
<1>2. /\ P \subseteq published /\ F \subseteq published /\ P \cap F = {}
      /\ published \subseteq Turns
  BY <1>1, PendingIs DEF Accounted, IInv, Typed
<1>3. L = published \ (P \cup F) /\ L' = published' \ (P' \cup F')
  BY DEF LostTurns
<1> HIDE DEF P, F, L, H
<1>4. ASSUME P' = P, F' = F, published' = published,
             H' = H \/ (H = "down" /\ H' = "serving")
      PROVE  [Ledger!Next]_(Ledger!vars)
  <2>1. L' = L
    BY <1>3, <1>4
  <2>2. CASE H' = H
    BY <1>4, <2>1, <2>2 DEF Ledger!vars, P, F, L, H
  <2>3. CASE H = "down" /\ H' = "serving"
    <3>1. Ledger!Start
      BY <1>4, <2>1, <2>3 DEF Ledger!Start, P, F, L, H
    <3>2. QED
      BY <3>1 DEF Ledger!Next
  <2>4. QED
    BY <1>4, <2>2, <2>3
<1>5. ASSUME H \in {"serving", "crippled"}, H' = H, NEW t \in Turns \ published,
             P' = P \cup {t}, F' = F, published' = published \cup {t}
      PROVE  Ledger!Next
  <2>1. L' = L /\ t \notin P \cup F \cup L
    BY <1>2, <1>3, <1>5
  <2>2. Ledger!Publish(t)
    BY <1>5, <2>1 DEF Ledger!Publish, P, F, L, H
  <2>3. QED
    BY <2>2 DEF Ledger!Next
<1>6. ASSUME H = "serving", H' = H,
             NEW t \in P, P' = P \ {t}, F' = F \cup {t}, published' = published
      PROVE  Ledger!Next
  <2>1. L' = L /\ t \in Turns
    BY <1>2, <1>3, <1>6
  <2>2. Ledger!Finish(t)
    BY <1>6, <2>1 DEF Ledger!Finish, P, F, L, H
  <2>3. QED
    BY <2>1, <2>2 DEF Ledger!Next
<1>7. ASSUME NEW some \in SUBSET P, P' = P \ some, F' = F, published' = published
      PROVE  Ledger!Lose(some)
  <2>1. L' = L \cup some
    BY <1>2, <1>3, <1>7
  <2>2. QED
    BY <1>7, <2>1 DEF Ledger!Lose, P, F, L
<1>8. ASSUME F' = F, published' = published, NEW t \in P, P' = P \ {t}
      PROVE  \E s \in P : Ledger!Lose({s})
  <2>1. {t} \in SUBSET P
    OBVIOUS
  <2>2. Ledger!Lose({t})
    BY <1>7, <1>8, <2>1
  <2>3. QED
    BY <2>2
<1>9. ASSUME Loses PROVE Ledger!Next
  <2>0. F' = F /\ published' = published
    BY <1>9 DEF Loses, F
  <2>1. CASE Dies
    <3>1. \E s \in P : Ledger!Lose({s})
      BY <1>8, <2>0, <2>1 DEF Dies, OneGone, P
    <3>2. Ledger!WorkerDies
      BY <2>1, <3>1 DEF Dies, Ledger!WorkerDies, P
    <3>3. QED
      BY <3>2 DEF Ledger!Next
  <2>2. CASE Stops
    <3>1. CASE PendingTurns' = PendingTurns
      <4>1. P' = P \ {} /\ {} \in SUBSET P
        BY <3>1 DEF P
      <4>2. Ledger!Lose({})
        BY <1>7, <2>0, <4>1
      <4>3. Ledger!Stop
        BY <2>2, <4>2 DEF Stops, Ledger!Stop
      <4>4. QED
        BY <4>3 DEF Ledger!Next
    <3>2. CASE Phase = "serving" /\ OneGone
      <4>1. \E s \in P : Ledger!Lose({s})
        BY <1>8, <2>0, <3>2 DEF OneGone, P
      <4>2. Ledger!Stop
        BY <2>2, <3>2, <4>1 DEF Stops, Ledger!Stop, P
      <4>3. QED
        BY <4>2 DEF Ledger!Next
    <3>3. QED
      BY <2>2, <3>1, <3>2 DEF Stops
  <2>3. CASE Ends
    <3>1. P' = P \ P /\ P \in SUBSET P
      BY <2>3 DEF Ends, P
    <3>2. Ledger!Lose(P)
      BY <1>7, <2>0, <3>1
    <3>3. Ledger!End
      BY <2>3, <3>2 DEF Ends, Ledger!End, P
    <3>4. QED
      BY <3>3 DEF Ledger!Next
  <2>4. QED
    BY <1>9, <2>1, <2>2, <2>3 DEF Loses
<1>10. QED
  BY <1>1, <1>4, <1>5, <1>6, <1>9
     DEF Books, Moves, Publishes, Finishes, P, F, L, H

(***************************************************************************)
(* The cold path implements the ledger: every published turn is pending in *)
(* one place, once, until it is finished, no matter how often it is        *)
(* deferred and put back. A turn is lost in the step of a fault only: the  *)
(* one a failed read leaves with the dead worker, the one a stop finds in  *)
(* its hands, all that wait when the process ends (EventBus,               *)
(* ColdPathWorker, main.lifespan).                                         *)
(***************************************************************************)
THEOREM LedgerImplemented == Spec => LedgerSpec
<1>1. Init => IInv /\ Ledger!Init
  BY InitHolds, LedgerInit
<1>2. IInv /\ [Next]_vars => IInv'
  BY IInvStep
<1>3. IInv /\ [Next]_vars => [Ledger!Next]_(Ledger!vars)
  BY LedgerStep
<1>4. QED
  BY <1>1, <1>2, <1>3, PTL DEF Spec, LedgerSpec, Ledger!Spec

(***************************************************************************)
(* Without a crash, a stop or a failed read, deferral is only ever a       *)
(* delay: no published turn, deferred or not, is ever forgotten.           *)
(***************************************************************************)
THEOREM DeferralSafe ==
    ASSUME Faults \cap {"crash", "stop", "read"} = {}
    PROVE  Spec => []DeferralOnlyDelays
<1>1. Init => IInv /\ NothingLost
  BY InitHolds
<1>2. IInv /\ NothingLost /\ [Next]_vars => IInv' /\ NothingLost'
  <2> SUFFICES ASSUME IInv, NothingLost, [Next]_vars PROVE IInv' /\ NothingLost'
    OBVIOUS
  <2>1. IInv' /\ Books
    BY IInvStep
  <2>2. NothingLost'
    BY <2>1 DEF Books, Moves, Publishes, Finishes, Loses, NothingLost, LostTurns
  <2>3. QED
    BY <2>1, <2>2
<1>3. IInv /\ NothingLost => DeferralOnlyDelays
  BY DEF IInv, Accounted, NothingLost, LostTurns, DeferralOnlyDelays
<1>4. QED
  BY <1>1, <1>2, <1>3, PTL DEF Spec

(***************************************************************************)
(* As long as no request has recorded an assessment, no write fails and    *)
(* the process does not crash, the headline level is that of the latest    *)
(* assessment whenever the worker is not between storing the two.          *)
(***************************************************************************)
THEOREM LevelSafe ==
    ASSUME Faults \cap {"crash", "write"} = {}
    PROVE  Spec => [](requests = 0 => LevelFollowsLatest)
<1>1. Init => IInv /\ LevelKept
  BY InitHolds
<1>2. IInv /\ LevelKept /\ [Next]_vars => IInv' /\ LevelKept'
  BY IInvStep, LevelStep DEF IInv
<1>3. LevelKept => (requests = 0 => LevelFollowsLatest)
  BY DEF LevelKept
<1>4. QED
  BY <1>1, <1>2, <1>3, PTL DEF Spec
=============================================================================
