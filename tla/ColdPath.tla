------------------------------ MODULE ColdPath ------------------------------
(***************************************************************************)
(* From the end of a learner's turn to the learner's score: the last step  *)
(* of a hot-path turn (pipeline._finalize), the event bus, the cold-path   *)
(* worker and its queue (coldpath/worker.py), the scoring service, the     *)
(* HTTP handler that records an assessment by hand, and what a shutdown or *)
(* a crash does to them (main.lifespan).                                   *)
(*                                                                         *)
(* Concurrency is the program's own. One event loop runs every coroutine,  *)
(* which gives it up only at an await: _finalize and ScoringService.record *)
(* never await, so they hold the loop (LoopFree is FALSE) while each of    *)
(* their database writes, a transaction of its own, can still interleave   *)
(* with a threadpool request or be the last one before a crash. Between    *)
(* two evaluators, in the backoff and on an empty queue the worker awaits. *)
(*                                                                         *)
(* Turns are those of one learner's session, in the order they are spoken. *)
(* A score is represented by the level it maps to. How long a job has      *)
(* waited is an age that Tick advances up to the deferral budget.          *)
(***************************************************************************)
EXTENDS Integers, Sequences, FiniteSets, SequencesExt

CONSTANTS
    NTurns,       \* bound: learner turns spoken
    NEvaluators,  \* the number of registered evaluators
    Flaky,        \* those whose model may be missing or fail
    Levels,       \* the levels a score may map to
    Budget,       \* coldpath_max_defer_s, in ticks of the model's clock
    MaxRequests,  \* bound: assessments recorded over HTTP
    MaxStarts,    \* bound: times the process is started
    Faults        \* subset of {"crash", "stop", "read", "write"}

Turns == 1 .. NTurns
Evaluators == 1 .. NEvaluators

ASSUME TurnsAssumption == NTurns \in Nat
ASSUME EvaluatorsAssumption == NEvaluators \in Nat \ {0}
ASSUME FlakyAssumption == Flaky \subseteq Evaluators
ASSUME BudgetAssumption == Budget \in Nat \ {0}
ASSUME BoundsAssumption == MaxRequests \in Nat /\ MaxStarts \in Nat \ {0}

Unpersisted == -1     \* "utt_unpersisted": the id of a turn whose insert failed
NoTurn == 0
InitialLevel == 0

VARIABLES
    process,     \* "up", "stopping" (lifespan's finally) or "down"
    starts,      \* how often the process has been started
    pressure,    \* what the guard sees: "clear", "ladder" (level >= 1, below
                 \* the ceiling) or "ceiling" (this job would cross it)
    turn,        \* the running _finalize: its stage, turn, utterance id
    bus,         \* event-bus tasks that have not run yet
    queue,       \* the worker's asyncio.Queue
    worker,      \* the worker task and the job it holds
    request,     \* the threadpool request recording an assessment
    requests,    \* how many such requests have been made
    rows,        \* table utterances, in created_at order
    outputs,     \* table evaluator_outputs: <<utterance, evaluator>>
    assessments, \* table assessments, in insertion order
    userLevel,   \* users.current_level
    published,   \* turns whose UtteranceFinalized was published
    deferred,    \* turns deferred at least once
    outcome      \* the label each job was counted under, "none" before that

database == <<rows, outputs, assessments, userLevel>>
counters == <<published, deferred, outcome>>
requesting == <<request, requests>>
vars == <<process, starts, pressure, turn, bus, queue, worker, requesting,
          database, counters>>

NoJob == [turn |-> NoTurn, id |-> Unpersisted, age |-> 0]
Job(t, id) == [turn |-> t, id |-> id, age |-> 0]

Off == [pc |-> "off", job |-> NoJob, next |-> 1, got |-> {}, store |-> {},
        level |-> InitialLevel, prompt |-> NoTurn]
Idle == [Off EXCEPT !.pc = "idle"]
Speaking == [stage |-> "idle", turn |-> NoTurn, id |-> Unpersisted]
NoRequest == [pc |-> "idle", level |-> InitialLevel]

Init ==
    /\ process = "up"
    /\ starts = 1
    /\ pressure \in {"clear", "ladder", "ceiling"}
    /\ turn = Speaking
    /\ bus = <<>>
    /\ queue = <<>>
    /\ worker = Idle
    /\ request = NoRequest
    /\ requests = 0
    /\ rows = <<>>
    /\ outputs = {}
    /\ assessments = <<>>
    /\ userLevel = InitialLevel
    /\ published = {}
    /\ deferred = {}
    /\ outcome = [t \in Turns |-> "none"]

\* No coroutine is inside a section without an await.
LoopFree ==
    /\ turn.stage = "idle"
    /\ worker.pc \notin {"outputs", "level"}

CanWrite == "write" \in Faults

-----------------------------------------------------------------------------
(* The end of a turn: HotPathPipeline._finalize.                           *)

Spoken == {r.turn : r \in ToSet(rows)} \cup published \cup {turn.turn}

BeginFinalize ==
    /\ process = "up" /\ LoopFree
    /\ \E t \in Turns :
         /\ \A s \in Turns : s < t => s \in Spoken
         /\ t \notin Spoken
         /\ turn' = [stage |-> "learner", turn |-> t, id |-> Unpersisted]
    /\ UNCHANGED <<process, starts, pressure, bus, queue, worker, requesting,
                   database, counters>>

StoreLearner ==
    /\ turn.stage = "learner"
    /\ \/ /\ rows' = Append(rows, [turn |-> turn.turn, role |-> "learner"])
          /\ turn' = [turn EXCEPT !.stage = "coach", !.id = turn.turn]
       \/ /\ CanWrite      \* logged; the rest of the try is skipped
          /\ turn' = [turn EXCEPT !.stage = "publish"]
          /\ rows' = rows
    /\ UNCHANGED <<process, starts, pressure, bus, queue, worker, requesting,
                   outputs, assessments, userLevel, counters>>

\* No coach row in reading practice, after an empty reply, or when it fails.
StoreCoach ==
    /\ turn.stage = "coach"
    /\ turn' = [turn EXCEPT !.stage = "publish"]
    /\ \/ rows' = Append(rows, [turn |-> turn.turn, role |-> "coach"])
       \/ rows' = rows
    /\ UNCHANGED <<process, starts, pressure, bus, queue, worker, requesting,
                   outputs, assessments, userLevel, counters>>

PublishFinalized ==
    /\ turn.stage = "publish"
    /\ bus' = Append(bus, Job(turn.turn, turn.id))
    /\ published' = published \cup {turn.turn}
    /\ turn' = Speaking
    /\ UNCHANGED <<process, starts, pressure, queue, worker, requesting,
                   database, deferred, outcome>>

\* EventBus: the subscriber's task runs _enqueue; also what drain() awaits.
RunSubscriber ==
    /\ process # "down" /\ LoopFree
    /\ bus # <<>>
    /\ queue' = Append(queue, Head(bus))
    /\ bus' = Tail(bus)
    /\ UNCHANGED <<process, starts, pressure, turn, worker, requesting,
                   database, counters>>

-----------------------------------------------------------------------------
(* The worker task: _run and process_once.                                 *)

Scored(id) == id # Unpersisted /\ \E a \in ToSet(assessments) : a.turn = id

\* ResourceGuard.acquire(need, "cold"), from the pressure and the wait.
Admits(job) ==
    \/ pressure = "clear"
    \/ pressure = "ladder" /\ job.age >= Budget

CanTake == process = "up" /\ LoopFree /\ worker.pc = "idle" /\ queue # <<>>

\* The job leaves the worker, counted under `label`.
Finished(job, label) ==
    /\ outcome' = [outcome EXCEPT ![job.turn] = label]
    /\ UNCHANGED <<published, deferred>>

TakeScored ==
    /\ CanTake
    /\ Scored(Head(queue).id)
    /\ queue' = Tail(queue)
    /\ Finished(Head(queue), "skipped")
    /\ UNCHANGED <<process, starts, pressure, turn, bus, worker, requesting,
                   database>>

TakeDeferred ==
    /\ CanTake
    /\ ~Scored(Head(queue).id)
    /\ ~Admits(Head(queue))
    /\ queue' = Tail(queue)
    /\ worker' = [Idle EXCEPT !.pc = "backoff", !.job = Head(queue)]
    /\ deferred' = deferred \cup {Head(queue).turn}
    /\ UNCHANGED <<process, starts, pressure, turn, bus, requesting, database,
                   published, outcome>>

\* Mutant: the deferred job is forgotten.
RequeueForgets ==
    /\ process = "up" /\ LoopFree
    /\ worker.pc = "backoff"
    /\ worker' = Idle
    /\ UNCHANGED <<process, starts, pressure, turn, bus, queue, requesting,
                   database, counters>>

\* Mutant: a new first_seen on every lap.
RequeueFresh ==
    /\ process = "up" /\ LoopFree
    /\ worker.pc = "backoff"
    /\ queue' = Append(queue, [worker.job EXCEPT !.age = 0])
    /\ worker' = Idle
    /\ UNCHANGED <<process, starts, pressure, turn, bus, requesting, database,
                   counters>>

\* The sleep is over: back to the tail of the queue, with the wait so far.
Requeue ==
    /\ process = "up" /\ LoopFree
    /\ worker.pc = "backoff"
    /\ queue' = Append(queue, worker.job)
    /\ worker' = Idle
    /\ UNCHANGED <<process, starts, pressure, turn, bus, requesting, database,
                   counters>>

LastCoachRow(i) ==
    /\ rows[i].role = "coach"
    /\ \A j \in DOMAIN rows : j > i => rows[j].role # "coach"

\* _build_context: the last coach turn of the session, as the table is now.
LastCoachTurn ==
    IF \E i \in DOMAIN rows : LastCoachRow(i)
    THEN rows[CHOOSE i \in DOMAIN rows : LastCoachRow(i)].turn
    ELSE NoTurn

TakeAdmitted ==
    /\ CanTake
    /\ ~Scored(Head(queue).id)
    /\ Admits(Head(queue))
    /\ queue' = Tail(queue)
    /\ worker' = [Idle EXCEPT !.pc = "evaluate", !.job = Head(queue),
                              !.prompt = LastCoachTurn]
    /\ UNCHANGED <<process, starts, pressure, turn, bus, requesting, database,
                   counters>>

\* exists_for_utterance raises: it is outside process_once's try, and _run has
\* none, so the worker task ends with the job in its hands.
TakeRaises ==
    /\ CanTake
    /\ "read" \in Faults
    /\ queue' = Tail(queue)
    /\ worker' = [Off EXCEPT !.pc = "dead"]
    /\ UNCHANGED <<process, starts, pressure, turn, bus, requesting, database,
                   counters>>

\* users.get in _build_context raises: inside the try, the job is dropped.
ContextFails ==
    /\ CanTake
    /\ "read" \in Faults
    /\ ~Scored(Head(queue).id)
    /\ Admits(Head(queue))
    /\ queue' = Tail(queue)
    /\ Finished(Head(queue), "error")
    /\ UNCHANGED <<process, starts, pressure, turn, bus, worker, requesting,
                   database>>

\* One evaluator; a failed or missing one is skipped. The last one's return
\* runs straight on into ScoringService.record.
Evaluate ==
    /\ process = "up" /\ LoopFree
    /\ worker.pc = "evaluate"
    /\ \E got \in {worker.got \cup {worker.next}} \cup
                  (IF worker.next \in Flaky THEN {worker.got} ELSE {}) :
         worker' = IF worker.next + 1 \in Evaluators
                   THEN [worker EXCEPT !.next = @ + 1, !.got = got]
                   ELSE [worker EXCEPT !.pc = "outputs", !.got = got, !.store = got]
    /\ UNCHANGED <<process, starts, pressure, turn, bus, queue, requesting,
                   database, counters>>

-----------------------------------------------------------------------------
(* ScoringService.record: one transaction per insert, no await in between. *)

\* Mutant: PRAGMA foreign_keys left off.
RowMayBeMissing(id) == TRUE

\* Foreign keys are on: nothing can refer to an utterance without a row.
RowExists(id) == id # Unpersisted

\* A write raised: process_once counts an error and drops the job.
JobFails ==
    /\ worker.pc \in {"outputs", "level"}
    /\ CanWrite \/ ~RowExists(worker.job.id)
    /\ worker' = Idle
    /\ Finished(worker.job, "error")
    /\ UNCHANGED <<process, starts, pressure, turn, bus, queue, requesting,
                   database>>

StoreOutput ==
    /\ worker.pc = "outputs"
    /\ RowExists(worker.job.id)
    /\ worker.store # {}
    /\ LET e == CHOOSE x \in worker.store : \A y \in worker.store : x <= y
       IN  /\ outputs' = outputs \cup {<<worker.job.id, e>>}
           /\ worker' = [worker EXCEPT !.store = @ \ {e}]
    /\ UNCHANGED <<process, starts, pressure, turn, bus, queue, requesting,
                   rows, assessments, userLevel, counters>>

\* Mutant: the assessment before the raw payloads.
StoreAssessmentFirst ==
    /\ worker.pc = "outputs"
    /\ RowExists(worker.job.id)
    /\ \E l \in Levels :
         /\ assessments' = Append(assessments,
                [turn |-> worker.job.id, level |-> l, by |-> "worker",
                 from |-> worker.got, prompt |-> worker.prompt])
         /\ worker' = [worker EXCEPT !.pc = "level", !.level = l]
    /\ UNCHANGED <<process, starts, pressure, turn, bus, queue, requesting,
                   rows, outputs, userLevel, counters>>

\* The overall is computed from the outputs: some level, unknown to us.
StoreAssessment ==
    /\ worker.pc = "outputs"
    /\ RowExists(worker.job.id)
    /\ worker.store = {}
    /\ \E l \in Levels :
         /\ assessments' = Append(assessments,
                [turn |-> worker.job.id, level |-> l, by |-> "worker",
                 from |-> worker.got, prompt |-> worker.prompt])
         /\ worker' = [worker EXCEPT !.pc = "level", !.level = l]
    /\ UNCHANGED <<process, starts, pressure, turn, bus, queue, requesting,
                   rows, outputs, userLevel, counters>>

\* Mutant: a level is never lost again.
StoreHigherLevel ==
    /\ worker.pc = "level"
    /\ userLevel' = IF worker.level > userLevel THEN worker.level ELSE userLevel
    /\ worker' = Idle
    /\ Finished(worker.job, "processed")
    /\ UNCHANGED <<process, starts, pressure, turn, bus, queue, requesting,
                   rows, outputs, assessments>>

\* The level, then AssessmentReady, whose only subscriber logs.
StoreLevel ==
    /\ worker.pc = "level"
    /\ userLevel' = worker.level
    /\ worker' = Idle
    /\ Finished(worker.job, "processed")
    /\ UNCHANGED <<process, starts, pressure, turn, bus, queue, requesting,
                   rows, outputs, assessments>>

-----------------------------------------------------------------------------
(* POST /sessions/{id}/assessments, in a threadpool thread.                *)

RequestAdds ==
    /\ process = "up"
    /\ request.pc = "idle"
    /\ requests < MaxRequests
    /\ \E l \in Levels, t \in {NoTurn} \cup {r.turn : r \in ToSet(rows)} :
         /\ assessments' = Append(assessments,
                [turn |-> t, level |-> l, by |-> "request", from |-> {}, prompt |-> NoTurn])
         /\ request' = [pc |-> "level", level |-> l]
    /\ requests' = requests + 1
    /\ UNCHANGED <<process, starts, pressure, turn, bus, queue, worker,
                   rows, outputs, userLevel, counters>>

RequestSetsLevel ==
    /\ request.pc = "level"
    /\ \/ userLevel' = request.level
       \/ CanWrite /\ userLevel' = userLevel      \* a 500 for the caller
    /\ request' = NoRequest
    /\ UNCHANGED <<process, starts, pressure, turn, bus, queue, worker, requests,
                   rows, outputs, assessments, counters>>

-----------------------------------------------------------------------------
(* The process: lifespan's shutdown, a crash, and a start after either.    *)

\* worker.stop(): the task is cancelled at its await, with the job it holds.
StopWorker ==
    /\ "stop" \in Faults
    /\ process = "up" /\ LoopFree
    /\ request.pc = "idle"
    /\ process' = "stopping"
    /\ worker' = Off
    /\ UNCHANGED <<starts, pressure, turn, bus, queue, requesting, database,
                   counters>>

\* bus.drain() has returned: the jobs it handed over die with the queue.
Exit ==
    /\ process = "stopping"
    /\ bus = <<>>
    /\ process' = "down"
    /\ queue' = <<>>
    /\ UNCHANGED <<starts, pressure, turn, bus, worker, requesting, database,
                   counters>>

Crash ==
    /\ "crash" \in Faults
    /\ process # "down"
    /\ process' = "down"
    /\ turn' = Speaking
    /\ bus' = <<>>
    /\ queue' = <<>>
    /\ worker' = Off
    /\ request' = NoRequest
    /\ UNCHANGED <<starts, pressure, requests, database, counters>>

\* A fresh bus and queue; nothing looks for turns that were never scored.
Start ==
    /\ process = "down"
    /\ starts < MaxStarts
    /\ process' = "up"
    /\ starts' = starts + 1
    /\ worker' = Idle
    /\ UNCHANGED <<pressure, turn, bus, queue, requesting, database, counters>>

-----------------------------------------------------------------------------
(* The environment.                                                        *)

PressureChanges ==
    /\ pressure' \in {"clear", "ladder", "ceiling"} \ {pressure}
    /\ UNCHANGED <<process, starts, turn, bus, queue, worker, requesting,
                   database, counters>>

Older(job) == [job EXCEPT !.age = IF @ < Budget THEN @ + 1 ELSE @]

\* Time passes for every job that has been given its first_seen.
Tick ==
    /\ queue' = [i \in DOMAIN queue |-> Older(queue[i])]
    /\ worker' = IF worker.pc = "backoff"
                 THEN [worker EXCEPT !.job = Older(@)] ELSE worker
    /\ UNCHANGED <<process, starts, pressure, turn, bus, requesting, database,
                   counters>>

-----------------------------------------------------------------------------
Finalize == StoreLearner \/ StoreCoach \/ PublishFinalized
Take == TakeScored \/ TakeDeferred \/ TakeAdmitted \/ ContextFails
Record == StoreOutput \/ StoreAssessment \/ StoreLevel \/ JobFails

Next ==
    \/ BeginFinalize \/ Finalize \/ RunSubscriber
    \/ Take \/ TakeRaises \/ Requeue \/ Evaluate \/ Record
    \/ RequestAdds \/ RequestSetsLevel
    \/ StopWorker \/ Exit \/ Crash \/ Start
    \/ PressureChanges \/ Tick

Spec == Init /\ [][Next]_vars

(***************************************************************************)
(* The event loop keeps running whatever is ready, the sleep of a backoff  *)
(* ends, the evaluators return (or time out) and time passes. Nothing      *)
(* forces a learner to speak, the load to fall or the process to start.    *)
(***************************************************************************)
Fairness ==
    /\ WF_vars(Finalize) /\ WF_vars(RunSubscriber)
    /\ WF_vars(Take) /\ WF_vars(Requeue) /\ WF_vars(Evaluate) /\ WF_vars(Record)
    /\ WF_vars(Tick)

FairSpec == Spec /\ Fairness

-----------------------------------------------------------------------------
Jobs == [turn : Turns \cup {NoTurn}, id : Turns \cup {Unpersisted}, age : 0 .. Budget]
ScoreLevels == Levels \cup {InitialLevel}
Authors == {"worker", "request"}

TypeOK ==
    /\ process \in {"up", "stopping", "down"}
    /\ starts \in 1 .. MaxStarts
    /\ pressure \in {"clear", "ladder", "ceiling"}
    /\ turn \in [stage : {"idle", "learner", "coach", "publish"},
                 turn : Turns \cup {NoTurn}, id : Turns \cup {Unpersisted}]
    /\ bus \in Seq(Jobs)
    /\ queue \in Seq(Jobs)
    /\ worker \in [pc : {"off", "idle", "backoff", "evaluate", "outputs", "level", "dead"},
                   job : Jobs, next : Evaluators, got : SUBSET Evaluators,
                   store : SUBSET Evaluators, level : ScoreLevels,
                   prompt : Turns \cup {NoTurn}]
    /\ request \in [pc : {"idle", "level"}, level : ScoreLevels]
    /\ requests \in 0 .. MaxRequests
    /\ rows \in Seq([turn : Turns, role : {"learner", "coach"}])
    /\ outputs \subseteq Turns \X Evaluators
    /\ assessments \in Seq([turn : Turns \cup {NoTurn}, level : Levels, by : Authors,
                            from : SUBSET Evaluators, prompt : Turns \cup {NoTurn}])
    /\ userLevel \in ScoreLevels
    /\ published \subseteq Turns
    /\ deferred \subseteq Turns
    /\ outcome \in [Turns -> {"none", "skipped", "error", "processed"}]

(***************************************************************************)
(* The jobs the worker still owes an answer, wherever they wait.           *)
(***************************************************************************)
InHand == worker.pc \in {"backoff", "evaluate", "outputs", "level"}
PendingTurns ==
    {j.turn : j \in ToSet(bus) \cup ToSet(queue)}
        \cup (IF InHand THEN {worker.job.turn} ELSE {})
FinishedTurns == {t \in Turns : outcome[t] # "none"}
LostTurns == published \ (PendingTurns \cup FinishedTurns)

\* The life of the process, as its jobs see it.
Phase == IF process = "up"
         THEN IF worker.pc = "dead" THEN "crippled" ELSE "serving"
         ELSE process

(***************************************************************************)
(* The bus, the queue and the worker together are the ledger: every        *)
(* published turn is pending in one of them until it is finished, and no   *)
(* re-queue copies or drops it. It is lost in the step of a fault and no   *)
(* other: when the worker dies of a failed read, is cancelled by a stop,   *)
(* or the process ends (worker.py:84-122, main.py:139-149).                *)
(***************************************************************************)
Ledger == INSTANCE JobLedger WITH
    phase <- Phase, pending <- PendingTurns, finished <- FinishedTurns,
    lost <- LostTurns
LedgerSpec == Ledger!Spec

(***************************************************************************)
(* Scores can be recomputed and audited (scoring_service.py:3-5): whatever *)
(* is interrupted and wherever, the raw payload of every evaluator an      *)
(* assessment was computed from is in evaluator_outputs.                   *)
(***************************************************************************)
AuditTrail ==
    \A a \in ToSet(assessments) :
        \A e \in a.from : <<a.turn, e>> \in outputs

(***************************************************************************)
(* The headline level matches the latest overall (api/sessions.py:3-5),    *)
(* whenever no writer is between storing the one and advancing the other.  *)
(***************************************************************************)
LevelFollowsLatest ==
    (worker.pc # "level" /\ request.pc = "idle" /\ assessments # <<>>)
        => userLevel = Last(assessments).level

(***************************************************************************)
(* Deferral is only ever a delay (resource_guard.py:377-382): once the     *)
(* load stays below the hard ceiling, every published turn is finished,    *)
(* even if the level never de-escalates.                                   *)
(***************************************************************************)
StarvationFree ==
    <>[](pressure # "ceiling")
        => \A t \in Turns : t \in PendingTurns ~> t \in FinishedTurns

(***************************************************************************)
(* The same, with restarts: a turn that was deferred is still to come or   *)
(* finished (worker.py:5-6, resource_guard.py:377).                        *)
(***************************************************************************)
DeferralOnlyDelays == deferred \subseteq PendingTurns \cup FinishedTurns

(***************************************************************************)
(* The listening and relevance scores judge how well the answer addresses  *)
(* the coach's prompt (llm_eval.py:35-37): the coach turn handed to the    *)
(* evaluators was said before the utterance they score.                    *)
(***************************************************************************)
PromptCameFirst ==
    \A a \in ToSet(assessments) : a.by = "worker" => a.prompt < a.turn
=============================================================================
