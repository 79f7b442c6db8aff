# AI English Trainer: a verification development

This directory models the parts of the English coach whose correctness depends
on order, concurrency or failure, checks them with TLC, and proves the central
facts with TLAPS. `PROJECT.json` lists the runs, the source lines behind every
definition, the mutants that show each property can fail, the hazards and the
findings.

## 1. The system

One Python process (FastAPI on one asyncio event loop plus a threadpool for
synchronous HTTP handlers), one SQLite database in WAL mode, model servers
behind HTTP, and a web client.

| part | state it keeps | operations | talks to |
| --- | --- | --- | --- |
| Resource guard (`core/resource_guard.py`) | window of snapshots, degradation level | sample, feed, acquire, startup budget | everybody who starts heavy work |
| Event bus (`core/event_bus.py`) | tasks not yet run | subscribe, publish, drain | pipeline → worker |
| Cold-path worker (`coldpath/worker.py`) | an asyncio queue of jobs with the time each was first seen | enqueue, process, defer and re-queue, start, stop | guard, evaluators, scoring |
| Scoring service (`coldpath/scoring_service.py`) | tables `evaluator_outputs`, `assessments`, `users.current_level` | record | repositories |
| Session API (`api/sessions.py`) | the same tables, from threadpool threads | create, end, record an assessment | repositories |
| Live session (`hotpath/ws_session.py`) | inbox, stop flag, received bytes, conversation history, session row | reader, message loop, run a turn, close | client, pipeline, segmenter |
| Segmenter (`hotpath/vad.py`) | buffer, speech and silence counters | push, flush, reset | live session |
| Hot-path pipeline (`hotpath/pipeline.py`) | none between turns | transcribe, reply, speak, persist, publish | guard, models, repositories, bus |
| Migrations (`persistence/migrations.py`, `db.py`) | `schema_migrations` and the schema itself | migrate | every process that opens the database |
| Lifespan (`main.py`) | the wiring | start, ordered shutdown | all of the above |
| Login throttle (`core/throttle.py`) | failures and lockouts per key, in memory, under a lock | ask, record a failure, forget | login, password change |
| Accounts (`api/auth.py`, `api/users.py`, the middleware of `main.py`) | tables `users`, `user_credentials`, `auth_sessions` | login, signup, change of password, logout, revocation, creating and deleting a profile | throttle, repositories, from threadpool threads |
| Reading passages (`coldpath/passage_gen.py`) | a pool per level with a lock | take, refill, prewarm | LLM, guard |
| Reading exercise (`coldpath/reading.py`, `api/reading.py`) | table `reading_attempts` | score an attempt, history and summary | recogniser, repositories |
| Record of a learner (`persistence/repositories.py`) | tables `sessions`, `utterances`, `assessments`, level and streak of `users` | what the handlers, the live session and the scoring service append | everybody below |
| Model registry, LLM client (`serving/`) | status per model | load, unload, chat | guard |
| Progress, plans, reports (`persistence/progress.py`, `coldpath/planner.py`, ...) | none | functions of the record | repositories |
| Conversation views (`coldpath/conversation.py`) | none | list, one conversation, overall analysis, activity, history | repositories |
| Web client (`frontend-next/components/LiveSession.tsx`) | state of the button, the current socket, a pending close | press, hold, send, redo, end | live session |

What makes it hard, and what would make it right:

* **The guard** reacts to a mean over the last samples with hysteresis. It is
  right if sustained pressure always engages every protection it should, calm
  always releases them, nothing flaps, and background work yields before the
  learner who is speaking.
* **The cold path** scores turns after the fact, defers under load, and lives
  in memory. It is right if a published turn is scored once the load permits,
  is never duplicated on its way, what it stores can be audited after any
  crash, and the learner's level is the one of the latest score.
* **A live session** interleaves a reader with turns that take seconds. It is
  right if every take the learner ends is answered exactly once, discarded
  audio never resurfaces, the conversation holds only what the learner saw, and
  a learner who leaves is let go.
* **Migrations** rely on SQLite's implicit commits, and two programs run them.
  They are right if a recorded version is complete, a database is never
  stranded, and a data rewrite touches only the rows it was meant for.
* **Reading passages** are written ahead by background tasks that race the
  readers and each other. They are right if a pool stays bounded, nothing
  reaches a learner unchecked, a reader is not handed the passage they just
  read, every request is answered, and the background work comes to rest.
* **Accounts** are handled in threads that interleave at every database and
  throttle call. They are right if a changed password ends the sessions earned
  with the old one, a password is replaced only by its owner, guessing stays
  within the allowance however many requests run at once, a lockout ends, and
  the table of failures cannot grow.
* **The views on a learner's record** are a dozen functions, written apart, of
  the same three tables. They are right if they agree with each other: on the
  level to reach next, on the days practised, on the conversations there are
  and on what is strong and weak, although each of them reads several times
  while the record grows.
* **The reading exercise** is right if what it counts adds up, whatever the
  alignment found.
* **The button** changes state in event handlers, socket callbacks and a timer
  that may belong to an earlier socket. It is right if the learner always gets
  the microphone back and talks to one session at a time.

Section 6 lists what is left out.

## 2. The modules

| module | role |
| --- | --- |
| `DegradationLadder` | abstract: a level that follows one number, with hysteresis |
| `DegradationLadderProofs` | its theorems |
| `ResourceGuard`, `MCResourceGuard` | the guard with window, missing readings, means, the two loops, admission; it refines `DegradationLadder` |
| `ResourceGuardProofs` | its inductive invariant, the refinement and the theorems |
| `JobLedger` | abstract: a job is pending, finished or lost, once, and lost only in the step of a fault |
| `ColdPath` | end of a turn, bus, worker, scoring, racing request, shutdown, crash, restart; it refines `JobLedger` |
| `ColdPathProofs` | its inductive invariant, the refinement and the theorems |
| `WsSession` | client, reader, loop, segmenter and the turn's pipeline composed |
| `WsSessionProofs` | its inductive invariant and theorems |
| `Migrations`, `MCMigrations` | migrate, in several processes, with crashes |
| `MigrationsProofs` | its inductive invariant and theorems |
| `PassagePool`, `MCPassagePool` | readers, refills behind a lock per level, and the warm-up, around one pool per level |
| `PassagePoolProofs` | its inductive invariant and theorems |
| `FailureThrottle` | the throttle: lockout, rolling window, eviction at the limit |
| `Accounts` | the handlers of accounts as interleaved requests over the throttle and the tables |
| `AccountsProofs` | the inductive invariants and theorems of both |
| `Scoring` | weights, overall score, levels: functions only |
| `Listing` | selecting, sorting and adding up rows: functions only |
| `LearnerRecord` | the tables of a learner and everything that writes them |
| `Progress`, `Conversations` | the views computed from the record |
| `Reading` | scoring of a reading attempt, its table and its history |
| `LiveClient` | the button of the web client and its sockets |
| `LearnerProofs` | the inductive invariants and theorems of the record, the views, the reading exercise and the button |
| `MCApi` | an instance of these modules, and what each part may do in it |

**ResourceGuard.** Ratios are percents and a mean over at most `RollingWindow`
samples is kept exact in units of 1/`Scale`. `Feed` is `feed` with the
smoothing and `_recompute_level`; the two `while` loops are stated as the level
each exits with. `Acquire` is a state function, because `acquire` changes
nothing. The estimates of `vram_gb` and `ram_gb` are one extra load per
resource.

**ColdPath.** One action per stretch between two points where something else
can act. `_finalize` and `ScoringService.record` contain no await: they hold
the event loop (`LoopFree`), but each of their database writes is a transaction
of its own (`Database.connection`), so a threadpool request can come between
two of them and a crash can follow any of them. `_finalize` is `BeginFinalize`,
`StoreLearner`, `StoreCoach`, `PublishFinalized`; `process_once` is the five
`Take...` actions by outcome; `record` is `StoreOutput`, `StoreAssessment`,
`StoreLevel`, with `JobFails` for an exception at any of them. A score is the
level it maps to; a job's wait is an age that `Tick` advances up to the
deferral budget; `pressure` is what the guard answers about this job, which
`ResourceGuard` justifies. Choosing a level by hand
(`POST /users/{id}/level`) is not part of this module: it changes the level on
purpose without an assessment.

**WsSession.** Audio arrives in messages of units that need not align with the
frames of the VAD. A unit carries whether it is speech and the take it belongs
to. `ReadMessage` and `ReadDisconnect` are the reader task; `OnAudio`,
`OnDiscard`, `OnEnd`, `OnGarbage`, `LeaveLoop`, `Close` the branches of the
loop; `Transcribe` to `Finalize` the pipeline's generator. Every event of the
generator goes through `Handle`, which is the body of `_run_turn`: unwind if
the learner has left, forward otherwise, or find the peer gone while sending.

**Migrations.** A statement is a pair of version and position. `Begin` is the
implicit commit of `executescript`, `Statement` one autocommitted statement,
`Record` the INSERT that opens a transaction and takes the write lock, `Commit`
the connection's last commit, `Raise` the exception of a column that exists or
a version recorded twice, `Die` a kill at any point. Indexes belong to the
statement of their table.

**PassagePool.** A coroutine gives up the event loop only at the LLM and at a
lock, so an action is the stretch between two awaits. `_generate` is the state
"chat" of the task that runs it (`tab`, `refill`, `prewarm`) with its attempt;
the holder of a level's lock is the refill in "chat", and waiters are in
"lock". `Get` is `get` with `_take` up to the answer or the first await,
`GetReply` the rest of it; `StartRefill`, `TakeLock` and `RefillReply` are
`_refill`; `StartPrewarm` and `PrewarmReply` the warm-up, which `Stop` cancels.
Which texts pass `check` at which level is the relation `Fits`. `answer` and
`read` are history: what a step answered, and what a reader was last handed.
The manual `warm` has no caller and is left out.

**FailureThrottle, Accounts.** A method of the throttle holds its lock from the
first read to the last write, so it is one step. Time is relative: a failure is
its age, a lockout the time it has left, and only `ThrottleTick` changes them.
A request is a record with the place it has reached (`at`), what the caller
sent, and what it has read of the credential (`seen`); one action is one call
of a repository or of the throttle, with the code up to the next call.
`guard_id`, `guard_ip` are `_guard_throttle`; `read` and `user` what login
reads before its verdict; `fail_id` to `reset_ip` what it tells the throttle;
`issue` `_issue`; `lookup`, `exists`, `profile` and `set` are signup; `whoami`,
`set`, `revoke` a change of password; `gate` and `act` the middleware and
`POST`/`DELETE /users`. Foreign keys are kept: no credential and no session
without a profile, and deleting a profile takes both with it. `stale`,
`straddled` and `writer` are history: whether the password a request or session
rests on has been replaced, whether a revocation ran meanwhile, and who wrote
the credential last. `Restart` forgets the throttle and the requests; the
tables stay.

**LearnerRecord.** A transaction is a step. What is made of the streak takes
two: `ReadSessions` and `StoreStreak` are the lines 78 and 79 of
`recompute_and_store_streak`, which `end_session` and `recompute_streak` lead
to; each of `Handlers` is a thread (or the close of a live session) that may be
between them, and `CutShort` is an exception or the end of the process there.
`refreshed` (the sessions the stored streak counts) and `disturbed` (a
recomputation was cut short, or one read while another had yet to store) are
history. Scoring is one step here, because how its transactions interleave is
the subject of `ColdPath`, and an assessment is stamped in the step that stores
it. A session, an utterance and an assessment are rows of sequences in the
order they were made; a score card is a function on the dimensions that were
scored, so that a skipped evaluator is a smaller domain. `Scoring` has the
weights and thresholds of version v1 and the two ways of averaging: over all
dimensions, and over those present.

**Progress, Conversations.** Operators named after the functions they
translate, on the tables of `LearnerRecord`. A report, a plan, a feedback and
an overview read the assessments several times, each time on a connection of
its own, while the worker stores more: the operators of `Progress` take the
rows that each of their reads found, and the properties quantify over what was
stored between the first and the last (`Found`). A cutoff of so many days is
written with the server's offset and compared as a text with rows stamped in
UTC; `Cutoff`, `Since` and `Until` are that comparison, for clocks east and
west of UTC (`Offset`). The conversation views are of one moment. The limits of
the queries are constants, and their order is kept: `list_for_user` of the
assessments returns the oldest first and stops at its limit. Averages are in
tenths, as rounded by the code; a value the code leaves out is `Absent`.

**Reading.** A text is a sequence of words. A duration is a whole number of
parts of a tenth of a second, `Finer` to the tenth, because a client may send
any float: the rate is computed from it, and what is shown and stored is
rounded to a tenth. `get_matching_blocks` and
`get_opcodes` are `difflib`, which is external: they are what `reading.py`
relies on, the longest common run first and the same on both sides, as a
recursive function over the places of the two texts that are still to be
aligned. The handlers store an attempt and go on when that fails.

**LiveClient.** The presses and releases (`onMic`, `micDown`, `micUp`,
`sendTurn`, `redo`, `endSession`, `Keyboard`), the callbacks of a socket
(`SocketOpens`, `Answered`, `SocketCloses`) and the timeout (`DelayedClose`)
are actions; `ensureSession` is cut at its await for the microphone. `ws` is
the current socket, and the handlers of an earlier one still run. `endShown` is
what the learner last saw rendered, because a button can only be pressed while
it is on the screen. A server that answers each end once is what `WsSession`
shows.

## 3. What is checked

| run | instance | result |
| --- | --- | --- |
| `resource_guard` | two resources, one sometimes unreadable; window 3; loads 40, 84, 90, 97 | pass |
| `cold_path` | two turns, two evaluators of which one may fail, budget 2, no faults, fairness | pass |
| `cold_path_faults` | two turns, crash, shutdown, failing reads and writes, one request, two starts | pass |
| `ws_session` | four client messages and a departure at any time, frame of 2 units, both modes, one phrase per reply | pass |
| `migrations` | the six real scripts, two processes, three starts, any earlier version | pass |
| `passage_pool` | two levels, the second with the two extra attempts; two texts, one of which fits both levels; one reader and anonymous; two requests, two refills; pressures 0, 1, 3; fairness | pass |
| `api` | the throttle, accounts, record, views, reading and button, each from its own initial states (`focus`) while the others stand still | pass |
| `cold_path_shutdown`, `cold_path_prompt`, `cold_path_level`, `migrations_transaction`, `passage_refill` | small instances of the same modules | violation, see section 5 |

What each property says is in the comment above it. The ones that carry most:

* `LadderSpec` and `LedgerSpec` are refinements: the guard implements the
  ladder, and bus, queue and worker together implement the ledger, in which a
  job is in one place until it is finished. A job is lost in the step of a
  fault and in no other: the death of the worker loses the one job it had
  taken, a stop at most the one in its hands, and the end of the process what
  is still pending. A re-queue that dropped a job would be no step of the
  ledger, whatever faults are possible.
* `SustainedPressureEngages`: a resource whose every reading in the window is
  at the last rung engages it, also when some samples missed that resource.
* `StarvationFree`: if the load eventually stays under the hard ceiling, every
  published turn is finished, even on a host whose level never de-escalates.
* `EveryTakeClosedOnce` and `MicComesBack`: the safety and the liveness half of
  "every end is closed out".
* `UnwindsOnStop`: after the bye or the disconnect is read no event of the turn
  goes out; only control messages already queued are answered.
* `PoolBounded`: however many refills a burst of readers schedules, a pool
  holds its target and at most the warm-up's one passage on top.
* `PoolNeverRepeats`: also with a second tab waiting on the LLM.
* `StrandedOnlyInColumns`, `OnlyVeteransBackfilled`: what concurrent migrations
  may not do to the database and to its data.
* `ChangeSignsOthersOut`: after a change of password, the only sessions left
  that rest on an earlier one belong to a request that was under way during the
  whole change, or the process stopped before the revocation. That is weaker
  than "signs out every other session", and all the handlers can give.
* `ReplacedByItsOwner`: the only requests that replace a password they did not
  prove are those past their check when it was written.
* `ThrottleBounded`, `LockoutsEnd`: the table and the allowance under
  concurrency, and a lockout that ends however often it is tried meanwhile.
* `ReportsAgree`: whatever is stored between the reads of a report, the level
  to reach is above the one shown, and the score for it is still to be gained
  unless the latest score moved between two reads, in the direction the clause
  says; an estimate needs a score that rose; practice follows the trend there
  is; and the plan leaves out nothing more pressing than what it holds. Plan,
  feedback and overview need not name the same level: only on the same rows and
  where the level shown is not above the scored one do they. "Since thirty
  days" is what the comparison of texts makes of it: west of UTC a change may
  be told that rests on a score older than that by the offset.
* `ConversationsAgree`: the list, the reports, the overall analysis, the
  history and the activity view are of the same conversations and days. Where a
  query stops at its limit the views may differ, and the clauses say which
  limits that is. The stored streak is one the learner had; it leaves out an
  ended session only while somebody is about to store it, or after a
  recomputation was cut short or overlapped another, when one of the two can
  overwrite the newer number with the older (`disturbed`).
* `ReadingAddsUp`: every word is counted once, on either side, the matched ones
  stand in both texts in one order, the rate is no higher than the passage read
  in the time shown beside it gives, up to the rounding of both, and a passage
  of fewer than 2000 words is shown as free of errors only if it was read as it
  is written.
* `MicrophoneComesBack`: while the button says the coach responds, something
  that ends it is under way, and only one session is live, unless the learner
  pressed again while a press was still connecting.

**Bounds.** The guard needs a window of three to have a mean of one, two and
three samples and readings that leave it; the four loads put means below the
release point, in the band of the first rungs and above the last one. Two turns
are enough for the queue to hold one job while another is deferred and for a
later turn to overtake an earlier one's scoring. Two evaluators give a
partial set of payloads. Two starts give a run before and after a crash. Four
messages allow a take in two pieces, its end or discard, and what follows; a
frame of two units allows every misalignment; a minimum of two speech frames
distinguishes a blip from speech. Three starts of two processes give a race, a
crash in the race and a recovery. Two requests and two refills give a waiter
behind the holder of a lock and two tabs of one reader; the pressures are calm,
the one at which refills defer and the one at which generation stops. `HasRoom`
keeps the tasks in flight within `MaxRefills`, so that a refill that has to be
scheduled always finds a slot. `NTurns`, `MaxRequests`, `MaxStarts`,
`MaxPhrases`, `MaxSent`, `MaxTabs` and `MaxRefills` are the bounds that are not
the code's.

In `api`: two ids of which one ever has a profile, one address, two passwords
and two requests at once are a race of any two handlers on one account, and a
third request (`MaxArrivals`) can come after it; an allowance of two with a
window of one and a lockout of two lets failures age out, lock out and come
back; two keys in the table and three that are tried fill it. For the record,
up to three sessions, two turns and four assessments over three days suffice to
have the views differ, because every query limit is set to 2 or 3; the score
cards lie on the boundaries of levels, of strong and weak, and on missing
dimensions. Two threads can overlap in a streak and one of them be cut short;
the server's clock is one unit west of UTC, where the comparison of texts
differs from one of times in both of its cases. A duration of 10.6 seconds is
sent in hundredths (`Finer` is 10), as 4 is, which is shown as none at all.
Texts have up to three words, enough for a match in the middle, a repeated word
and an order that differs. Three sockets and two presses waiting at once give
an old, a current and a new session. What each part may do is stated in `MCApi`
(`ThrottleNext` to `ButtonNext`); the throttle and the accounts are explored
apart, the first with logins alone and the second with every request but no
failed one.

**Fairness.** In `cold_path` the event loop runs what is ready (the finalize,
the bus, the worker's steps), the back-off sleep ends, evaluators return or
time out, and time passes: weak fairness of each. Nothing makes a learner
speak, the load fall, or the process start; `StarvationFree` assumes the load
in its premise. Weak fairness is enough because the queue is first in, first
out and nothing but a job's own step disables it for good. In `ws_session`
both coroutines are scheduled while they are ready, and a stage answers or
fails (the HTTP clients have timeouts). The client owes nothing. In
`passage_pool` every call of the LLM ends, by its reply or the client's
timeout, and refills are scheduled; nobody need ask, and the warm-up owes
nothing. In `api` only the clock of the throttle is fair: `LockoutsEnd` needs
time to pass and nothing else.

**Deadlock** is checked except in `ws_session`, where a closed session has
nothing left to do, in the migrations runs, where nobody need start the process
again, and in `api`, where the rows are bounded and nobody need ask for
anything.

## 4. What is proved

The theorems hold for every value of the constants that meets the assumptions
stated with them. Each module has an inductive invariant (`Inv` or `IInv`), one
lemma per action that the action keeps it, and a theorem for each property it
implies.

**The ladder** (`DegradationLadderProofs`). `LevelInBand`: the level's own rung
is not a whole margin above the peak and the next one is not reached. The band
is established by one recomputation from any level, because both loops run to
their exit; it needs no order among the rungs. `LadderNeverFlaps` follows from
it: in the band a steady peak moves nothing, and a level is lost only below its
rung's margin. `EveryProtectionEngaged` adds the assumption that the rungs
ascend, which the settings document and nothing enforces. The assumptions are
typing only (`Assumptions`).

**The guard** (`ResourceGuardProofs`). `GuardImplementsLadder`: for any set of
resources, any samples with any of them missing, any window and thresholds, the
guard's level follows its peak as the ladder does, so that the theorems above
hold of it. `IInv` is what that needs: the window is of snapshots and no longer
than `RollingWindow`, and the level lies in the band of the peak of the window
there is (`InBand`). The work is in the means. That the mean of a resource is
between the least and the greatest of its readings, or above a threshold when
all are, needs sums over the window, which are stated as bounds on the partial
sums (`Sums`, `TotalBounds`) and proved by a least counterexample, since the
library's induction theorem takes an operator. From them: `PressureEngages` (a
resource that read at the last rung whenever it was read has the level there),
`CalmReleases`, `ColdWorkYields` (cold work is refused whenever hot work is),
`GuardNeverFlaps` and `ProtectionsAreEngaged`. Two hypotheses the settings do
not enforce are stated where they are needed. `Climbing`, that the rungs
ascend. `Positive`, that no rung is zero, which `ge=0.0` in `settings.py`
admits: with a rung of zero the guard is engaged before its first sample, and
the formulas about an empty window do not hold. `CalmReleases` also needs the
margin to be smaller than the first rung, or nothing would ever be calm enough.
`TypeOK`, the refinement and `ColdWorkYields` need none of them.

**Migrations** (`MigrationsProofs`). For every list of scripts and any number
of processes: `TypeCorrect` (recorded versions are a prefix),
`RecordingIsSound`, `OnlyColumnsStrand`, `BackfillIsExact`. The invariants are
not inductive alone; `Inv` adds where each process is in the list (`Placed`),
the write lock (`OneWriter`), what each process has made durable (`Durable`),
and three facts that carry the argument. `Exclusive`: a statement that adds a
column succeeds once, so its process is alone in that version from then on.
`Traced`: a column of an unrecorded version has its process still at work or a
crash behind it, which is why a losing process, which raises on somebody else's
column, strands nothing. `Backfilled`: while a backfill is unrecorded nobody
serves, so who has practised is who had before. Two assumptions: scripts are
non-empty lists of statements, and a backfill follows a column of its own
script (`BackfillAssumption`, true of migration 004), which makes `Exclusive`
apply.

**The cold path** (`ColdPathProofs`). For any number of turns and evaluators,
any bounds and any set of faults. `LedgerImplemented`: bus, queue, worker,
shutdown, crash and restart together implement the ledger. `Accounted` is the
invariant behind it: a published turn that is not finished waits in one place
at most (bus, queue or the worker's hands), once, and the turn being finalized
has not been published. With it every step is one of four kinds for the ledger:
it moves jobs, publishes, finishes, or is a fault, which alone changes the
phase of the process (`Phase`) and alone loses jobs: `TakeRaises` the job just
taken, `StopWorker` the one in hand, `Exit` and `Crash` what is pending.
`AuditTrailHolds`: an assessment by the worker has all the payloads it was made
from. `PayloadsStored` adds that while `record` is under way, what it has
written so far is there. `DeferralSafe`: without a crash, a shutdown or a
failing read a deferral is only ever a delay. `LevelSafe`: without a crash or a
failing write the level is the latest assessment's until a request records one.
Run `cold_path_shutdown` shows that a shutdown alone breaks the first, and
`cold_path_level` that a request alone breaks the second.

**The live session** (`WsSessionProofs`). For any frame size, thresholds and
bounds on what is sent and said; the theorems are of the specification without
its fairness. `TakesAreClosedOnce` rests on `ClosingsOwed`: the closing
messages sent, and one more while a turn runs, are the ends asked for, and
exactly so until the learner has left. `TurnsArePublished` and `HistorySeen`
add what the running turn has sent and not yet published or remembered
(`TranscriptSent`, `WillBeSeen`). `SpeechReachesTurns` follows the segmenter:
no more frames are counted as speech than the buffer holds (`SpeechBuffered`).
`TurnsAreOneTake`, that audio of two takes never ends up in one turn, is the
deepest: `Numbered` says that every message on its way, in the inbox and on the
wire, can be given a number of a take, such that the audio held back belongs to
the first of them, consecutive messages have the same unless one ends a take,
and the client is at the last. It speaks of the button, of silence and of
discards in one formula. `StopSilencesTurns` is the action property
`UnwindsOnStop`: once the reader has seen the bye or the disconnect, no event
of a turn goes out.

**Passage pool** (`PassagePoolProofs`). For any number of levels, texts,
readers and tasks, and any relation `Fits`: `TypeCorrect`, `PoolsStayBounded`,
`NothingUnchecked` and `NeverTheSameTwice`. `Inv` strengthens `PoolBounded` by
the lock (`OneWriter`: one refill of a level is in "chat") and by
`RoomToWrite`: the writer found the pool short and nobody but the warm-up,
once, has added to it since. `FromTheBottom` says that the warm-up goes up the
levels. That `last` is what each reader was handed (`last = read`) carries
`PoolNeverRepeats`.

**Accounts** (`AccountsProofs`). For any number of users, clients, passwords,
tokens and requests: `ChangesSignOthersOut` and `PasswordsHaveOwners`. Neither
property is inductive, because a session is handed out long after the password
was checked. `RequestsSwept` says of the requests that rest on a password
(`Proved`) what the property says of the sessions, with a change of password
other than the request itself as the witness; `Fresh` says that only such
requests are marked; `Claimed` that a password belongs to a profile, which is
why a signup that made the profile cannot find one. Most steps neither replace
a password nor sign anyone out: they are `Mild` or `Quiet`, and one lemma each
shows that those keep the invariant. The others (`Issue`, `SetCredential`,
`Revoke`, `DeleteUser`, `Restart`) have a lemma of their own. `AccountsTyped`,
at the end of the module, is the type invariant with the foreign keys: every
session and password belongs to a profile, no two sessions share a token, and a
credential is written by a signup or a change of password alone. It needs to
know of each place in a handler what the request carries there (`Fits`): the
address a throttle key is made of, the id a profile may be made for.

**The throttle** (the second part of `AccountsProofs`). `ThrottleStaysBounded`,
for any allowance, window, lockout and table, and any finite number of
requests. `Table` adds that a key whose failures reach the allowance is locked
out. `Room` is the argument for concurrency: the failures of a key and the
requests past its guard together fit the allowance less one and the number of
requests. Passing the guard needs the key below its allowance, and recording a
failure takes one from the second number and adds at most one to the first.
Assumptions: typing of the settings, and that requests are finitely many
(`AccountsAssumption`).

**Lists and sums** (the first sections of `LearnerProofs`). The views select,
sort, add up and round. `Kept`, `SortedBy`, `SumOf`, the longest run of days
and the alignment are recursive functions. The library's induction theorems
take an operator and cannot be used, so a recursion is shown to have a value by
`Recursion`, which builds the function, and what holds of all its values by
`UpTo`, a least counterexample over a set of numbers. What the later proofs
cite are facts on sets: which rows `Kept` has and in which order, that
`SortedBy` is a permutation in order of the key that leaves equals in place,
that a sum depends only on its terms, and that a rounded mean lies between the
bounds of what was measured.

**The record** (`LearnerProofs`). `RecordTyped`: the tables have their types in
every behaviour. `RecordInv` adds what the views rely on and no table declares:
every row refers to a session (a turn) that exists, nothing is dated in the
future, a session ends after it starts, assessments are stamped in the order
they were stored, and the stored streak is that of the sessions it counts
(`refreshed`), as is the one a thread has read and not yet stored. Unless a
recomputation was disturbed, one thread at most is between its two
transactions, has read no fewer sessions than the stored streak counts, and
every session that has ended is counted, or some thread is about to.
Assumptions: a day has a positive length, the horizon is a number, and a score
card is of 0 to 100 on known dimensions (`RecordAssumption`).

**Reports** (`LearnerProofs`). `ReportsAlwaysAgree`, for records of any length,
any limits, any offset and any number of assessments stored between two reads:
an earlier read found a prefix of what a later one finds. `TargetsAhead` is an
argument about the two levels, scored and chosen, and about the latest
assessment being the last of those listed while the record fits the query.
That an estimate needs a score that rose is Chebyshev's inequality: were no
later score higher, the slope of the regression would not be positive. It is
proved by partial sums, like every other sum (`Falling`). `PlanServesTheWorst`
follows from the order of the gaps: the plan is a prefix of a sorted selection,
so what it leaves out is no more severe than what it holds, and it leaves out
something only when full; and the difficulty departs from the latest score by
more than its rounding only if the window held two scores that say so.
Assumptions: the limits are numbers, the offset an integer, an estimate needs
at least one assessment and no more than the query reads, and the value for
"left out" is none of the values (`ProgressAssumption`).

**Conversation views** (`LearnerProofs`). `ConversationsAlwaysAgree`, for any
limits (`ConversationsAssumption`). `ViewsAgree` compares the list, the report
of each conversation, the overall analysis and the history: each is reduced to
the set of rows it is computed from, and the sets are shown to be equal, or to
be what the limits leave of one another. `ActivityAgrees` compares two ways to
count days: the streak counts back from the last day, the activity view keeps
the longest run so far, and a tail of consecutive days inside the window is one
of the runs it has seen. What it says of the stored streak is `RecordInv`.

**The reading exercise** (`LearnerProofs`). `ReadingAlwaysAddsUp`, for any
texts, durations and number of attempts. `ReadingInv` says that the stored rows
are of numbers or blanks and that the last answer is the score of one passage
and one transcript, stored as it was answered. The rest is about one alignment.
Its blocks are a `Chain`, each before the next in both texts: the longest match
lies between the chains of what is left and right of it. So the matched words
stand in one order, and the gaps between the blocks telescope to the words that
are not matched, on either side. The bounds on accuracy, rate and history are
those of a rounded division; the rate and the duration beside it are rounded
from one measurement, each by half a unit at most (`NoFaster`). Assumptions:
texts are sequences of words, a duration is a number of parts or left out, and
there is at least one part to a tenth of a second (`ReadingAssumption`).

**The button** (`LearnerProofs`). `ButtonComesBack`: `MicrophoneComesBack`
for any number of sockets, presses, delayed closes and answers owed. The
property is a state of three things (what the button shows, the current
socket, the sockets left behind) and is inductive once it is known which
presses overlapped: one that waits for the microphone while another waits, or
while a socket is live, is marked (`PressesApart`), and only a marked one can
leave a live socket behind (`OneSession`). `BusyEnds` and `TakeHasSocket` are
the clauses about the button.

**Only model-checked.** The liveness properties (`StarvationFree`,
`MicComesBack`, `LeavingEndsSession`, `EveryReaderAnswered`, `RefillsSettle`,
`LockoutsEnd`), because fairness and ENABLED are outside the prover. The type
invariant of `MCApi` is stated of the instance in which its parts stand side by
side; the parts are theorems of their own specifications, `AccountsTyped` and
`RecordTyped`. Every other invariant and every action property of a passing run
is a theorem. The five formulas of section 5 are false, each shown so by
its run.

## 5. What the checks found

* **The prompt a turn is judged against** (`cold_path_prompt`). The worker
  takes the last coach turn of the session when it runs. The pipeline stores
  the coach's reply before it publishes the turn, so that last coach turn is
  the reply to the utterance being scored, although the rubric asks how well
  the answer addresses the coach's prompt.
* **A shutdown drops deferred work** (`cold_path_shutdown`), where the guard
  says that deferral is only ever a delay.
* **The level may be that of an older score** (`cold_path_level`) when the
  worker and a request interleave, since each stores and advances in two
  transactions.
* **A migration is not inside a transaction** (`migrations_transaction`):
  `executescript` autocommits. Killed between an added column and the record,
  the database refuses every later start.
* **A refill does not defer once it runs** (`passage_refill`). It reads the
  pressure before it waits for the lock, then calls the LLM until the pool is
  full, whatever the guard has come to say meanwhile.

Observed while modelling, without a run:

* Guard and cold path: `settings.py:202` calls the thresholds ascending and
  nothing makes them so, out of order the later protections are not engaged;
  `is_new_session` is set by no caller, so level 4 never
  rejects a session; the LLM client ignores a deferral; an error of
  `exists_for_utterance` ends the worker task; a session whose greeting fails
  keeps its row open.
* Accounts: a login that overlaps the whole of a password change survives it,
  and two signups of one profile at once leave the password of the second.
* Progress: with fewer than three assessments `time_to_next_level` gives no
  next level at all (`progress.py:121-122`), so that the report of a learner on
  level 1 says "At the top level", which the docstring of `next_level_line`
  (`reporting.py:176-183`) calls wrong: it separates an estimate that is not
  known from a level that does not exist, and here the level is left out too.
  This disagreement is of two functions and needs no run to be seen. A cutoff
  of thirty days is off by the server's offset from UTC, because it is compared
  as a text; `list_for_user` of the assessments keeps the oldest 1000, so that
  a longer record stands still; plan and feedback ask for the level after the
  scored one, without the floor that `progress.py` applies; the improvement is
  zero, and not absent, when nothing was scored in the window; gap snapshots,
  plans and reports are stored and never read; a partial set of scores counts
  missing dimensions as zero when a request records it and leaves them out when
  the scoring service does.
* Conversations: reading sessions count in the activity, and are filtered from
  the list of conversations only after its limit; the stored streak does not
  know of sessions started since it was read, and of two recomputations at once
  the older number may be the one that stays; "scores are still to come" is
  told from two counts and is wrong when a turn was scored twice.
* Reading: the alignment takes the longest run first, so a complete reading
  after a false start counts as partly matched; no handler limits the length of
  a passage, and in one of 2000 words or more a single wrong word is rounded
  away, so that it is shown as 100 percent with a WER of 0.
* Client: a second press while the first still connects makes a second socket
  and forgets the first, which nothing closes; depending on which of them
  opens, the button stays in "busy" until that socket drops. The delayed close
  of an ended session closes whatever socket is current by then, and the
  `onclose` of an old socket idles a new recording.

## 6. Not modelled, and what is left

Not modelled, because it is sequential code without shared state, or I/O: the
numeric evaluators over audio and text, readability and the parser of generated
passages, the rendering of reports, metrics and the operations API, the
transport of the LLM client and the loading of models, hashing, administrators
and profile fields, the demo data, audio and the other pages of the web client,
and operator scripts other than `seed_user`'s migration. The level a learner
chooses by hand is part of `LearnerRecord`, where it is a floor, and not of
`ColdPath`.

What remains open: the composition of `LiveClient` with `WsSession` over one
channel, where each now stands for the other's promise; and the liveness
properties, which the prover cannot reach.

## 7. Running it

    tlc -workers 2 -config ColdPath.cfg ColdPath.tla
    tlc -workers 2 -config ResourceGuard.cfg MCResourceGuard.tla
    tlc -workers 2 -config Migrations.cfg MCMigrations.tla
    tlc -workers 2 -config PassagePool.cfg MCPassagePool.tla
    tlc -workers 2 -config Api.cfg MCApi.tla
    tlapm DegradationLadderProofs.tla
    tlapm ResourceGuardProofs.tla
    tlapm ColdPathProofs.tla
    tlapm WsSessionProofs.tla
    tlapm MigrationsProofs.tla
    tlapm PassagePoolProofs.tla
    tlapm AccountsProofs.tla
    tlapm LearnerProofs.tla

`LearnerProofs` takes about a quarter of an hour, the others at most a few
minutes. The module of every other run is in `PROJECT.json`.
