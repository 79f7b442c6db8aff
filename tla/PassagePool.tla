----------------------------- MODULE PassagePool -----------------------------
(***************************************************************************)
(* Reading passages (coldpath/passage_gen.py): PassageService with its     *)
(* pool per level, the readers who ask for a passage, the background       *)
(* refills behind a lock per level, the warm-up at startup and what its    *)
(* cancellation at shutdown does (main.lifespan).                          *)
(*                                                                         *)
(* Every coroutine here runs on one event loop and gives it up only while  *)
(* it awaits the LLM or a lock: an action is the stretch between two       *)
(* awaits. _generate is the state "chat" of the task that runs it, with    *)
(* the attempt it is at. A passage is its text; which levels a text is     *)
(* usable at (readability, check) is the relation Fits. The rotation of    *)
(* topics and the title are left out. Generation is switched on and an LLM *)
(* client exists; without either every answer is the curated floor. A call *)
(* of the LLM that the guard would defer is made all the same              *)
(* (LLMClient._admit acts on a rejection and a degradation only), so the   *)
(* guard's admission does not appear in a call.                            *)
(***************************************************************************)
EXTENDS Integers, Sequences, FiniteSets

CONSTANTS
    TopLevel,     \* max(SPECS)
    Demanding,    \* the level from which _generate has two more attempts
    Attempts,     \* reading_passage_attempts
    Target,       \* reading_passage_pool
    Texts,        \* the texts the LLM may write
    Fits,         \* the pairs <<text, level>> that check accepts
    Readers,      \* learners who are signed in
    NoUser,       \* nobody is signed in
    NoText,       \* None, and the curated floor as an answer
    MaxTabs,      \* bound: requests for a passage in flight
    MaxRefills,   \* bound: refill tasks alive
    Pressures     \* the degradation levels that occur

Levels == 0 .. TopLevel
Tabs == 1 .. MaxTabs
Refills == 1 .. MaxRefills
PauseAtLevel == 3

ASSUME LevelsAssumption == TopLevel \in Nat /\ Demanding \in Nat
ASSUME SettingsAssumption == Attempts \in Nat \ {0} /\ Target \in Nat
ASSUME PressuresAssumption == Pressures \subseteq 0 .. 4
ASSUME BoundAssumption == MaxTabs \in Nat /\ MaxRefills \in Nat
ASSUME NoneAssumption == NoText \notin Texts /\ NoUser \notin Readers

VARIABLES
    up,        \* the lifespan has not reached its finally
    pressure,  \* guard.degradation_level
    pool,      \* _pool
    last,      \* _last
    tab,       \* the requests: a task, and who asked
    refill,    \* _refills: the tasks, and in them who holds which lock
    prewarm,   \* the task of prewarm
    answer,    \* history: what this step answered a reader, if it did
    read       \* history: the last generated text each reader was handed

vars == <<up, pressure, pool, last, tab, refill, prewarm, answer, read>>

AttemptsAt(l) == Attempts + (IF l >= Demanding THEN 2 ELSE 0)

Idle == [at |-> "idle", level |-> 0, attempt |-> 1]
IdleTab == [task |-> Idle, who |-> NoUser]
Tasks == [at : {"idle", "new", "lock", "chat", "done"}, level : Levels,
          attempt : 1 .. Attempts + 2]

(* source: where the text came from; before: what the reader had read. *)
Answers == [level : Levels, source : {"pool", "fresh", "curated"},
            text : Texts \cup {NoText}, before : Texts \cup {NoText}]
NoAnswer == [level |-> 0, source |-> "none", text |-> NoText, before |-> NoText]

LastOf(u) == IF u = NoUser THEN NoText ELSE last[u]
ReadBy(u) == IF u = NoUser THEN NoText ELSE read[u]

Init ==
    /\ up = TRUE
    /\ pressure \in Pressures
    /\ pool = [l \in Levels |-> <<>>]
    /\ last = [u \in Readers |-> NoText]
    /\ tab = [c \in Tabs |-> IdleTab]
    /\ refill = [r \in Refills |-> Idle]
    /\ prewarm = [Idle EXCEPT !.at = "new"]
    /\ answer = NoAnswer
    /\ read = [u \in Readers |-> NoText]

(* A host under heavy pressure is served curated texts only. *)
Enabled == pressure < PauseAtLevel

-----------------------------------------------------------------------------
(* _generate: a task asks the LLM; each reply is accepted, costs an attempt, *)
(* or ends the generation.                                                   *)
Asking(l) == [at |-> "chat", level |-> l, attempt |-> 1]

(* Mutant: whatever parses is served. *)
AcceptsParsed(text, l) == text \in Texts

Accepts(text, l) == <<text, l>> \in Fits

(* Mutant: one attempt too many. *)
SpentLate(t) == t.attempt > AttemptsAt(t.level)

(* The last attempt the loop allows has been made. *)
Spent(t) == t.attempt >= AttemptsAt(t.level)

(* A reply that does not parse or is off-level, with attempts left. *)
MayRetry(t) == t.at = "chat" /\ ~Spent(t)
Again(t) == [t EXCEPT !.attempt = @ + 1]

(* What _generate may return with the next reply: a text that passed, or     *)
(* None, when the client raises or the last reply is not usable.             *)
Generated(t) ==
    IF t.at = "chat"
    THEN {NoText} \cup {text \in Texts : Accepts(text, t.level)}
    ELSE {}

(* _schedule_refill, given the pools as this step leaves them. *)
ScheduleRefill(l, pools) ==
    \/ Len(pools[l]) >= Target /\ UNCHANGED refill
    \/ /\ Len(pools[l]) < Target
       /\ \E r \in Refills :
             /\ refill[r].at = "idle"
             /\ \A q \in 1 .. r - 1 : refill[q].at # "idle"
             /\ refill' = [refill EXCEPT ![r] = [Idle EXCEPT !.at = "new", !.level = l]]

-----------------------------------------------------------------------------
(* The end of get: the reader is handed a generated text. *)
(* Mutant: only a passage from the pool is remembered. *)
RememberPooled(u, text, source) ==
    last' = IF u = NoUser \/ source # "pool" THEN last ELSE [last EXCEPT ![u] = text]

Remember(u, text, source) ==
    last' = IF u = NoUser THEN last ELSE [last EXCEPT ![u] = text]

Hand(u, l, text, source, pools) ==
    /\ Remember(u, text, source)
    /\ pool' = pools
    /\ read' = IF u = NoUser THEN read ELSE [read EXCEPT ![u] = text]
    /\ answer' = [level |-> l, source |-> source, text |-> text, before |-> ReadBy(u)]
    /\ ScheduleRefill(l, pools)

Curated(u, l) ==
    answer' = [level |-> l, source |-> "curated", text |-> NoText, before |-> ReadBy(u)]

(* _take drops the first n texts: the run of those this reader had last. *)
Drops(texts, lastText, n) ==
    /\ \A i \in 1 .. n : texts[i] = lastText
    /\ n < Len(texts) => texts[n + 1] # lastText

HasRoom ==
    Cardinality({c \in Tabs : tab[c] # IdleTab})
        + Cardinality({r \in Refills : refill[r].at # "idle"}) < MaxRefills

(* get up to its answer, or up to its first await. *)
Get(c, u, l) ==
    /\ up
    /\ tab[c] = IdleTab
    /\ \A b \in 1 .. c - 1 : tab[b] # IdleTab
    /\ HasRoom
    /\ \/ /\ ~Enabled
          /\ Curated(u, l)
          /\ UNCHANGED <<pool, last, read, tab, refill>>
       \/ /\ Enabled
          /\ \E n \in 0 .. Len(pool[l]) :
                /\ Drops(pool[l], LastOf(u), n)
                /\ \/ /\ n < Len(pool[l])
                      /\ Hand(u, l, pool[l][n + 1], "pool",
                              [pool EXCEPT ![l] = SubSeq(@, n + 2, Len(@))])
                      /\ UNCHANGED tab
                   \/ /\ n = Len(pool[l])
                      /\ pool' = [pool EXCEPT ![l] = <<>>]
                      /\ tab' = [tab EXCEPT ![c] = [task |-> Asking(l), who |-> u]]
                      /\ answer' = NoAnswer
                      /\ UNCHANGED <<last, read, refill>>
    /\ UNCHANGED <<up, pressure, prewarm>>

(* Mutant: a failed generation starts over, without a floor. *)
KeepAsking(c) ==
    /\ tab' = [tab EXCEPT ![c].task = Asking(@.level)]
    /\ answer' = NoAnswer
    /\ UNCHANGED <<pool, last, read, refill>>

(* The reader's generation failed: the curated floor. *)
FallBack(c) ==
    /\ Curated(tab[c].who, tab[c].task.level)
    /\ tab' = [tab EXCEPT ![c] = IdleTab]
    /\ UNCHANGED <<pool, last, read, refill>>

GetReply(c) ==
    /\ \/ /\ MayRetry(tab[c].task)
          /\ tab' = [tab EXCEPT ![c].task = Again(@)]
          /\ answer' = NoAnswer
          /\ UNCHANGED <<pool, last, read, refill>>
       \/ NoText \in Generated(tab[c].task) /\ FallBack(c)
       \/ \E text \in Generated(tab[c].task) \ {NoText} :
             /\ Hand(tab[c].who, tab[c].task.level, text, "fresh", pool)
             /\ tab' = [tab EXCEPT ![c] = IdleTab]
    /\ UNCHANGED <<up, pressure, prewarm>>

-----------------------------------------------------------------------------
(* _refill. The holder of _lock(level) is the task whose state is "chat".    *)
Holders(l) == {r \in Refills : refill[r].at = "chat" /\ refill[r].level = l}
Waiters(l) == {r \in Refills : refill[r].at = "lock" /\ refill[r].level = l}

(* Mutant: refills of a level run side by side. *)
LockIgnored(l) == l \in Levels

LockFree(l) == Holders(l) = {}

(* The head of the while loop, for a task that holds the lock: ask again, or *)
(* release and end.                                                          *)
Loop(l, pools) == IF Len(pools[l]) < Target THEN Asking(l) ELSE Idle

StartRefill(r) ==
    /\ refill[r].at = "new"
    /\ LET l == refill[r].level IN
       refill' = [refill EXCEPT ![r] =
           IF pressure >= 1 THEN Idle
           ELSE IF LockFree(l) /\ Waiters(l) = {} THEN Loop(l, pool)
           ELSE [@ EXCEPT !.at = "lock"]]
    /\ answer' = NoAnswer
    /\ UNCHANGED <<up, pressure, pool, last, tab, prewarm, read>>

TakeLock(r) ==
    /\ refill[r].at = "lock"
    /\ LockFree(refill[r].level)
    /\ refill' = [refill EXCEPT ![r] = Loop(@.level, pool)]
    /\ answer' = NoAnswer
    /\ UNCHANGED <<up, pressure, pool, last, tab, prewarm, read>>

(* Mutant: the refill insists until its pool is full. *)
RefillInsists(r) ==
    /\ refill' = [refill EXCEPT ![r] = Asking(@.level)]
    /\ UNCHANGED pool

(* None ends the task, and with it the lock. *)
RefillFails(r) ==
    /\ refill' = [refill EXCEPT ![r] = Idle]
    /\ UNCHANGED pool

RefillReply(r) ==
    /\ \/ /\ MayRetry(refill[r])
          /\ refill' = [refill EXCEPT ![r] = Again(@)]
          /\ UNCHANGED pool
       \/ NoText \in Generated(refill[r]) /\ RefillFails(r)
       \/ \E text \in Generated(refill[r]) \ {NoText} :
             /\ pool' = [pool EXCEPT ![refill[r].level] = Append(@, text)]
             /\ refill' = [refill EXCEPT ![r] = Loop(@.level, pool')]
    /\ answer' = NoAnswer
    /\ UNCHANGED <<up, pressure, last, tab, prewarm, read>>

-----------------------------------------------------------------------------
(* prewarm. The check of the loop's head is also that of _enabled before it. *)
WarmFrom(l) ==
    IF l > TopLevel \/ ~Enabled
    THEN [Idle EXCEPT !.at = "done"] ELSE Asking(l)

StartPrewarm ==
    /\ prewarm.at = "new"
    /\ prewarm' = WarmFrom(0)
    /\ answer' = NoAnswer
    /\ UNCHANGED <<up, pressure, pool, last, tab, refill, read>>

PrewarmReply ==
    /\ \/ /\ MayRetry(prewarm)
          /\ prewarm' = Again(prewarm)
          /\ UNCHANGED pool
       \/ \E text \in Generated(prewarm) :
             /\ pool' = IF text = NoText THEN pool
                        ELSE [pool EXCEPT ![prewarm.level] = Append(@, text)]
             /\ prewarm' = WarmFrom(prewarm.level + 1)
    /\ answer' = NoAnswer
    /\ UNCHANGED <<up, pressure, last, tab, refill, read>>

(* The server has finished its requests; lifespan cancels the warm-up. *)
Stop ==
    /\ up
    /\ \A c \in Tabs : tab[c] = IdleTab
    /\ up' = FALSE
    /\ prewarm' = [Idle EXCEPT !.at = "done"]
    /\ answer' = NoAnswer
    /\ UNCHANGED <<pressure, pool, last, tab, refill, read>>

(* The guard's sampling loop. *)
PressureChanges ==
    /\ pressure' \in Pressures \ {pressure}
    /\ answer' = NoAnswer
    /\ UNCHANGED <<up, pool, last, tab, refill, prewarm, read>>

Next ==
    \/ \E c \in Tabs, l \in Levels : \E u \in Readers \cup {NoUser} : Get(c, u, l)
    \/ \E c \in Tabs : GetReply(c)
    \/ \E r \in Refills : StartRefill(r) \/ TakeLock(r) \/ RefillReply(r)
    \/ StartPrewarm
    \/ PrewarmReply
    \/ Stop
    \/ PressureChanges

Spec == Init /\ [][Next]_vars

(* The event loop runs what is ready, and the HTTP client's timeout ends     *)
(* every call of the LLM. Readers need not ask, and no property needs the    *)
(* warm-up to go on.                                                         *)
Fairness ==
    /\ \A c \in Tabs : WF_vars(GetReply(c))
    /\ \A r \in Refills : WF_vars(StartRefill(r) \/ TakeLock(r) \/ RefillReply(r))

FairSpec == Spec /\ Fairness

-----------------------------------------------------------------------------
WithinBudget(t) == t.attempt <= AttemptsAt(t.level)

(* Type correctness. In particular no generation makes more attempts than    *)
(* its level allows, whoever runs it.                                        *)
TypeOK ==
    /\ up \in BOOLEAN
    /\ pressure \in Pressures
    /\ pool \in [Levels -> Seq(Texts)]
    /\ last \in [Readers -> Texts \cup {NoText}]
    /\ read \in [Readers -> Texts \cup {NoText}]
    /\ tab \in [Tabs -> [task : Tasks, who : Readers \cup {NoUser}]]
    /\ refill \in [Refills -> Tasks]
    /\ prewarm \in Tasks
    /\ answer \in Answers \cup {NoAnswer}
    /\ \A c \in Tabs : WithinBudget(tab[c].task)
    /\ \A r \in Refills : WithinBudget(refill[r])
    /\ WithinBudget(prewarm)

(* The warm-up has put its passage of level l into the pool, or never will. *)
Warmed(l) == prewarm.at = "done" \/ prewarm.level > l

(* A pool holds its target and at most the one passage of the warm-up on     *)
(* top, however many refills were scheduled while one was writing: this is   *)
(* what the lock per level and the count inside it are for.                  *)
PoolBounded ==
    \A l \in Levels : Len(pool[l]) <= Target + (IF Warmed(l) THEN 1 ELSE 0)

(* "Nothing reaches a learner unchecked": every text waiting in the pool of  *)
(* a level, and every text a reader was handed, passed the check for the     *)
(* level it is filed or was asked under.                                     *)
OnLevel ==
    /\ \A l \in Levels : \A i \in DOMAIN pool[l] : <<pool[l][i], l>> \in Fits
    /\ answer.source \in {"pool", "fresh"} => <<answer.text, answer.level>> \in Fits

(* The pool never hands a reader the text they were handed last, also when   *)
(* that one was written for them directly, and when they have another tab    *)
(* waiting.                                                                  *)
PoolNeverRepeats ==
    answer.source = "pool" /\ answer.before # NoText => answer.text # answer.before

(* Every request for a passage is answered: the exercise never breaks        *)
(* because a model was busy.                                                 *)
EveryReaderAnswered == \A c \in Tabs : tab[c] # IdleTab ~> tab[c] = IdleTab

(* Once the readers stop asking, the background work ends by itself: no      *)
(* refill waits for a lock forever, and none keeps writing.                  *)
RefillsSettle ==
    <>[](\A c \in Tabs : tab[c] = IdleTab /\ answer = NoAnswer)
        => <>[](\A r \in Refills : refill[r] = Idle)

(* A refill "defers under any pressure the guard cares about": it makes no   *)
(* call of the LLM while the guard is at level 1 or above.                   *)
RefillsDefer ==
    [][\A r \in Refills :
          refill'[r].at = "chat" /\ refill'[r] # refill[r] => pressure = 0]_vars
=============================================================================
