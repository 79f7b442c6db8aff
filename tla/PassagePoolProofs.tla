-------------------------- MODULE PassagePoolProofs --------------------------
(***************************************************************************)
(* Proofs about the passage pool, for any number of levels, texts, readers *)
(* and tasks, any target and any number of attempts.                       *)
(***************************************************************************)
EXTENDS PassagePool, TLAPS

Assumptions ==
    /\ LevelsAssumption
    /\ SettingsAssumption
    /\ PressuresAssumption
    /\ BoundAssumption
    /\ NoneAssumption

Extra(l) == IF Warmed(l) THEN 1 ELSE 0

\* The lock: one task per level is in the loop of _refill.
OneWriter ==
    \A r, q \in Refills :
        /\ refill[r].at = "chat" /\ refill[q].at = "chat"
        /\ refill[r].level = refill[q].level
        => r = q

\* Whoever is in the loop has found the pool short of its target; since then
\* at most the warm-up has added to it.
RoomToWrite ==
    \A r \in Refills, l \in Levels :
        refill[r].at = "chat" /\ refill[r].level = l => Len(pool[l]) < Target + Extra(l)

\* The warm-up begins with the lowest level.
FromTheBottom == prewarm.at = "new" => prewarm.level = 0

Inv ==
    /\ TypeOK
    /\ FromTheBottom
    /\ OneWriter
    /\ RoomToWrite
    /\ PoolBounded
    /\ OnLevel
    /\ last = read
    /\ PoolNeverRepeats

\* What a step does to the pools that no writer needs to know about.
Shrinks(pools) ==
    /\ pools \in [Levels -> Seq(Texts)]
    /\ \A l \in Levels : Len(pools[l]) <= Len(pool[l])
    /\ \A l \in Levels : \A i \in DOMAIN pools[l] : <<pools[l][i], l>> \in Fits

LEMMA BudgetIsPositive ==
    ASSUME Assumptions, NEW l \in Levels
    PROVE  AttemptsAt(l) \in 1 .. Attempts + 2
BY DEF Assumptions, SettingsAssumption, LevelsAssumption, AttemptsAt, Levels

LEMMA TasksTyped ==
    ASSUME Assumptions, NEW l \in Levels
    PROVE  /\ Idle \in Tasks /\ WithinBudget(Idle)
           /\ Asking(l) \in Tasks /\ WithinBudget(Asking(l))
           /\ [Idle EXCEPT !.at = "new", !.level = l] \in Tasks
           /\ WithinBudget([Idle EXCEPT !.at = "new", !.level = l])
<1>1. 0 \in Levels /\ 1 \in 1 .. Attempts + 2
  BY DEF Assumptions, LevelsAssumption, SettingsAssumption, Levels
<1>2. AttemptsAt(0) >= 1 /\ AttemptsAt(l) >= 1
  BY <1>1, BudgetIsPositive
<1> QED BY <1>1, <1>2 DEF Idle, Asking, Tasks, WithinBudget

LEMMA RetryTyped ==
    ASSUME Assumptions, NEW t \in Tasks, MayRetry(t)
    PROVE  /\ Again(t) \in Tasks
           /\ WithinBudget(Again(t))
           /\ Again(t).at = "chat" /\ Again(t).level = t.level
<1>1. AttemptsAt(t.level) \in 1 .. Attempts + 2
  BY BudgetIsPositive DEF Tasks
<1>2. t.attempt \in Nat /\ t.attempt < AttemptsAt(t.level)
  BY <1>1 DEF Tasks, MayRetry, Spent
<1>3. t.attempt + 1 \in 1 .. Attempts + 2
  BY <1>1, <1>2 DEF Assumptions, SettingsAssumption
<1>4. Again(t) \in Tasks /\ Again(t).at = "chat" /\ Again(t).level = t.level
         /\ Again(t).attempt = t.attempt + 1
  BY <1>3 DEF Again, Tasks, MayRetry
<1> QED BY <1>1, <1>2, <1>4 DEF WithinBudget

(***************************************************************************)
(* Scheduling a refill adds no writer.                                     *)
(***************************************************************************)
LEMMA ScheduleAddsNoWriter ==
    ASSUME Assumptions, TypeOK, NEW l \in Levels, NEW pools, ScheduleRefill(l, pools)
    PROVE  /\ refill' \in [Refills -> Tasks]
           /\ \A r \in Refills : WithinBudget(refill'[r])
           /\ \A r \in Refills : refill'[r].at = "chat" => refill'[r] = refill[r]
<1>1. CASE UNCHANGED refill
  BY <1>1 DEF TypeOK
<1>2. ASSUME NEW r \in Refills,
             refill' = [refill EXCEPT ![r] = [Idle EXCEPT !.at = "new", !.level = l]]
      PROVE  /\ refill' \in [Refills -> Tasks]
             /\ \A q \in Refills : WithinBudget(refill'[q])
             /\ \A q \in Refills : refill'[q].at = "chat" => refill'[q] = refill[q]
  <2>1. [Idle EXCEPT !.at = "new", !.level = l].at = "new"
    BY DEF Idle
  <2> QED BY <1>2, <2>1, TasksTyped DEF TypeOK
<1> QED BY <1>1, <1>2 DEF ScheduleRefill

(***************************************************************************)
(* A step of readers: the pools only shrink, the warm-up and the writers   *)
(* are left alone.                                                         *)
(***************************************************************************)
LEMMA ReadersKeepThePool ==
    ASSUME Assumptions, Inv, Shrinks(pool'), UNCHANGED prewarm,
           refill' \in [Refills -> Tasks],
           \A r \in Refills : refill'[r].at = "chat" => refill'[r] = refill[r]
    PROVE  OneWriter' /\ RoomToWrite' /\ PoolBounded'
<1>1. \A l \in Levels : Extra(l)' = Extra(l) /\ Extra(l) \in {0, 1}
  BY DEF Extra, Warmed
<1>2. OneWriter'
  BY DEF Inv, OneWriter
<1>3. /\ \A l \in Levels : Len(pool[l]) \in Nat /\ Len(pool'[l]) \in Nat
      /\ \A l \in Levels : Len(pool'[l]) <= Len(pool[l])
  BY DEF Inv, TypeOK, Shrinks
<1>5. ASSUME NEW r \in Refills, NEW l \in Levels,
             refill'[r].at = "chat", refill'[r].level = l
      PROVE  Len(pool'[l]) < Target + Extra(l)'
  <2>1. refill'[r] = refill[r] /\ refill[r].at = "chat"
    BY <1>5
  <2>2. Len(pool[l]) < Target + Extra(l)
    BY <1>5, <2>1 DEF Inv, RoomToWrite
  <2> QED BY <1>1, <1>3, <2>2 DEF Assumptions, SettingsAssumption
<1>6. RoomToWrite'
  BY <1>5 DEF RoomToWrite
<1>7. PoolBounded'
  <2>1. \A l \in Levels : Len(pool[l]) <= Target + Extra(l)
    BY DEF Inv, PoolBounded, Extra
  <2>2. \A l \in Levels : Len(pool'[l]) <= Target + Extra(l)'
    BY <1>1, <1>3, <2>1 DEF Assumptions, SettingsAssumption
  <2> QED BY <2>2 DEF PoolBounded, Extra
<1> QED BY <1>2, <1>6, <1>7

(***************************************************************************)
(* What holds of the answers after a step that hands no reader a text.     *)
(***************************************************************************)
LEMMA NothingHanded ==
    ASSUME Assumptions, Inv, UNCHANGED <<last, read>>,
           answer'.source \in {"none", "curated"},
           \A l \in Levels : \A i \in DOMAIN pool'[l] : <<pool'[l][i], l>> \in Fits
    PROVE  OnLevel' /\ (last = read)' /\ PoolNeverRepeats'
<1>1. answer'.source \notin {"pool", "fresh"}
  OBVIOUS
<1>2. OnLevel'
  BY <1>1 DEF OnLevel
<1>3. PoolNeverRepeats'
  BY <1>1 DEF PoolNeverRepeats
<1> QED BY <1>2, <1>3 DEF Inv

LEMMA AnswersTyped ==
    ASSUME Assumptions, Inv, NEW l \in Levels, NEW u \in Readers \cup {NoUser},
           NEW source \in {"pool", "fresh", "curated"}, NEW text \in Texts \cup {NoText}
    PROVE  [level |-> l, source |-> source, text |-> text, before |-> ReadBy(u)] \in Answers
<1>1. ReadBy(u) \in Texts \cup {NoText}
  BY DEF ReadBy, Inv, TypeOK
<1> QED BY <1>1 DEF Answers

(***************************************************************************)
(* Handing a reader a text that fits: with the next refill scheduled.      *)
(***************************************************************************)
LEMMA HandKeepsInv ==
    ASSUME Assumptions, Inv, NEW u \in Readers \cup {NoUser}, NEW l \in Levels,
           NEW text \in Texts, <<text, l>> \in Fits,
           NEW source \in {"pool", "fresh"}, source = "pool" => text # LastOf(u),
           NEW pools, Shrinks(pools), Hand(u, l, text, source, pools),
           UNCHANGED <<up, pressure, prewarm>>,
           tab' \in [Tabs -> [task : Tasks, who : Readers \cup {NoUser}]],
           \A c \in Tabs : WithinBudget(tab'[c].task)
    PROVE  Inv'
<1>1. /\ pool' = pools
      /\ refill' \in [Refills -> Tasks]
      /\ \A r \in Refills : WithinBudget(refill'[r])
      /\ \A r \in Refills : refill'[r].at = "chat" => refill'[r] = refill[r]
  BY ScheduleAddsNoWriter DEF Hand, Inv
<1>2. OneWriter' /\ RoomToWrite' /\ PoolBounded'
  BY <1>1, ReadersKeepThePool
<1>3. answer' = [level |-> l, source |-> source, text |-> text, before |-> ReadBy(u)]
  BY DEF Hand
<1>4. /\ last' \in [Readers -> Texts \cup {NoText}]
      /\ last' = read'
  BY DEF Hand, Remember, Inv, TypeOK
<1>5. TypeOK'
  <2>1. answer' \in Answers
    BY <1>3, AnswersTyped
  <2>2. pool' \in [Levels -> Seq(Texts)]
    BY <1>1 DEF Shrinks
  <2> QED BY <1>1, <1>4, <2>1, <2>2 DEF TypeOK, Inv, WithinBudget
<1>6. OnLevel'
  BY <1>1, <1>3 DEF OnLevel, Shrinks
<1>7. PoolNeverRepeats'
  <2>1. ReadBy(u) # NoText => ReadBy(u) = LastOf(u)
    BY DEF ReadBy, LastOf, Inv
  <2> QED BY <1>3, <2>1 DEF PoolNeverRepeats
<1>8. FromTheBottom'
  BY DEF FromTheBottom, Inv
<1> QED BY <1>2, <1>4, <1>5, <1>6, <1>7, <1>8 DEF Inv

(***************************************************************************)
(* A reader's step that hands out nothing: the curated floor, a retry, or  *)
(* the first call of the LLM after a pool without a passage for them.      *)
(***************************************************************************)
LEMMA ReaderWaitsKeepsInv ==
    ASSUME Assumptions, Inv, Shrinks(pool'),
           UNCHANGED <<up, pressure, prewarm, last, read, refill>>,
           tab' \in [Tabs -> [task : Tasks, who : Readers \cup {NoUser}]],
           \A c \in Tabs : WithinBudget(tab'[c].task),
           answer' \in Answers \cup {NoAnswer},
           answer'.source \in {"none", "curated"}
    PROVE  Inv'
<1>1. OneWriter' /\ RoomToWrite' /\ PoolBounded'
  BY ReadersKeepThePool DEF Inv, TypeOK
<1>2. OnLevel' /\ (last = read)' /\ PoolNeverRepeats'
  BY NothingHanded DEF Shrinks
<1>3. TypeOK'
  BY DEF TypeOK, Inv, WithinBudget, Shrinks
<1>4. FromTheBottom'
  BY DEF FromTheBottom, Inv
<1> QED BY <1>1, <1>2, <1>3, <1>4 DEF Inv

LEMMA PoolShrinksToItself ==
    ASSUME Inv
    PROVE  Shrinks(pool)
BY DEF Shrinks, Inv, TypeOK, OnLevel

(* Taking the first n + 1 passages out of a pool, or all of it. *)
LEMMA TakingShrinks ==
    ASSUME Inv, NEW l \in Levels
    PROVE  /\ Shrinks([pool EXCEPT ![l] = <<>>])
           /\ \A n \in Nat : n < Len(pool[l]) =>
                 Shrinks([pool EXCEPT ![l] = SubSeq(@, n + 2, Len(@))])
<1>1. pool \in [Levels -> Seq(Texts)]
  BY DEF Inv, TypeOK
<1>2. \A m \in Levels : \A i \in DOMAIN pool[m] : <<pool[m][i], m>> \in Fits
  BY DEF Inv, OnLevel
<1>3. Shrinks([pool EXCEPT ![l] = <<>>])
  BY <1>1, <1>2 DEF Shrinks
<1>4. ASSUME NEW n \in Nat, n < Len(pool[l])
      PROVE  Shrinks([pool EXCEPT ![l] = SubSeq(@, n + 2, Len(@))])
  <2> DEFINE left == SubSeq(pool[l], n + 2, Len(pool[l]))
  <2>1. /\ left \in Seq(Texts)
        /\ Len(left) = Len(pool[l]) - (n + 1)
        /\ \A i \in 1 .. Len(left) : left[i] = pool[l][n + 1 + i]
    BY <1>1, <1>4
  <2>2. \A i \in DOMAIN left : <<left[i], l>> \in Fits
    BY <1>1, <1>2, <1>4, <2>1
  <2>3. Len(left) <= Len(pool[l])
    BY <1>1, <1>4, <2>1
  <2> HIDE DEF left
  <2>4. Shrinks([pool EXCEPT ![l] = left])
    BY <1>1, <1>2, <2>1, <2>2, <2>3 DEF Shrinks
  <2> QED BY <2>4 DEF left
<1> QED BY <1>3, <1>4

(***************************************************************************)
(* The readers' actions.                                                   *)
(***************************************************************************)
LEMMA TabsTyped ==
    ASSUME Assumptions, Inv, NEW c \in Tabs, NEW t \in Tasks, WithinBudget(t),
           NEW u \in Readers \cup {NoUser}
    PROVE  /\ [tab EXCEPT ![c] = [task |-> t, who |-> u]]
                \in [Tabs -> [task : Tasks, who : Readers \cup {NoUser}]]
           /\ \A b \in Tabs :
                WithinBudget([tab EXCEPT ![c] = [task |-> t, who |-> u]][b].task)
<1>1. tab \in [Tabs -> [task : Tasks, who : Readers \cup {NoUser}]]
         /\ \A b \in Tabs : WithinBudget(tab[b].task)
  BY DEF Inv, TypeOK
<1> QED BY <1>1

LEMMA GetKeepsInv ==
    ASSUME Assumptions, Inv, NEW c \in Tabs, NEW l \in Levels,
           NEW u \in Readers \cup {NoUser}, Get(c, u, l)
    PROVE  Inv'
<1>1. /\ tab \in [Tabs -> [task : Tasks, who : Readers \cup {NoUser}]]
      /\ \A b \in Tabs : WithinBudget(tab[b].task)
      /\ pool \in [Levels -> Seq(Texts)]
  BY DEF Inv, TypeOK
<1>2. CASE Curated(u, l) /\ UNCHANGED <<pool, last, read, tab, refill>>
  <2>1. answer' \in Answers /\ answer'.source = "curated"
    BY <1>2, AnswersTyped DEF Curated
  <2>2. Shrinks(pool')
    BY <1>2, PoolShrinksToItself
  <2> QED BY <1>1, <1>2, <2>1, <2>2, ReaderWaitsKeepsInv DEF Get
<1>3. ASSUME NEW n \in 0 .. Len(pool[l]), Drops(pool[l], LastOf(u), n), n < Len(pool[l]),
             Hand(u, l, pool[l][n + 1], "pool",
                  [pool EXCEPT ![l] = SubSeq(@, n + 2, Len(@))]),
             UNCHANGED tab
      PROVE  Inv'
  <2>1. pool[l][n + 1] \in Texts /\ <<pool[l][n + 1], l>> \in Fits
    BY <1>1, <1>3 DEF Inv, OnLevel
  <2>2. pool[l][n + 1] # LastOf(u)
    BY <1>3 DEF Drops
  <2>3. Shrinks([pool EXCEPT ![l] = SubSeq(@, n + 2, Len(@))])
    <3>1. n \in Nat /\ n < Len(pool[l])
      BY <1>3
    <3> QED BY <3>1, TakingShrinks, Zenon
  <2>4. UNCHANGED <<up, pressure, prewarm>>
    BY DEF Get
  <2> QED BY <1>1, <1>3, <2>1, <2>2, <2>3, <2>4, HandKeepsInv
<1>4. CASE /\ pool' = [pool EXCEPT ![l] = <<>>]
           /\ tab' = [tab EXCEPT ![c] = [task |-> Asking(l), who |-> u]]
           /\ answer' = NoAnswer
           /\ UNCHANGED <<last, read, refill>>
  <2>1. Shrinks(pool')
    BY <1>4, TakingShrinks
  <2>2. /\ tab' \in [Tabs -> [task : Tasks, who : Readers \cup {NoUser}]]
        /\ \A b \in Tabs : WithinBudget(tab'[b].task)
    BY <1>4, TasksTyped, TabsTyped
  <2>3. answer' \in Answers \cup {NoAnswer} /\ answer'.source = "none"
    BY <1>4 DEF NoAnswer
  <2> QED BY <1>4, <2>1, <2>2, <2>3, ReaderWaitsKeepsInv DEF Get
<1> QED BY <1>2, <1>3, <1>4 DEF Get

LEMMA GetReplyKeepsInv ==
    ASSUME Assumptions, Inv, NEW c \in Tabs, GetReply(c)
    PROVE  Inv'
<1> DEFINE l == tab[c].task.level
           u == tab[c].who
<1>1. /\ tab \in [Tabs -> [task : Tasks, who : Readers \cup {NoUser}]]
      /\ \A b \in Tabs : WithinBudget(tab[b].task)
  BY DEF Inv, TypeOK
<1>2. tab[c].task \in Tasks /\ l \in Levels /\ u \in Readers \cup {NoUser}
  BY <1>1 DEF Tasks
<1>3. UNCHANGED <<up, pressure, prewarm>> /\ Shrinks(pool)
  BY PoolShrinksToItself DEF GetReply
<1>4. NoUser \in Readers \cup {NoUser} /\ 0 \in Levels
  BY DEF Assumptions, LevelsAssumption, Levels
<1>5. /\ [tab EXCEPT ![c] = IdleTab]
            \in [Tabs -> [task : Tasks, who : Readers \cup {NoUser}]]
      /\ \A b \in Tabs : WithinBudget([tab EXCEPT ![c] = IdleTab][b].task)
  BY <1>4, TasksTyped, TabsTyped DEF IdleTab
<1>6. CASE /\ MayRetry(tab[c].task)
           /\ tab' = [tab EXCEPT ![c].task = Again(@)]
           /\ answer' = NoAnswer
           /\ UNCHANGED <<pool, last, read, refill>>
  <2> DEFINE t == Again(tab[c].task)
  <2>1. t \in Tasks /\ WithinBudget(t)
    BY <1>2, <1>6, RetryTyped
  <2>2. /\ tab' \in [Tabs -> [task : Tasks, who : Readers \cup {NoUser}]]
        /\ \A b \in Tabs : WithinBudget(tab'[b].task)
    <3>1. tab' = [tab EXCEPT ![c].task = t]
      BY <1>6
    <3> HIDE DEF t
    <3> QED BY <1>1, <2>1, <3>1
  <2>3. answer' \in Answers \cup {NoAnswer} /\ answer'.source = "none"
    BY <1>6 DEF NoAnswer
  <2> QED BY <1>3, <1>6, <2>2, <2>3, ReaderWaitsKeepsInv
<1>7. CASE FallBack(c)
  <2>1. answer' \in Answers /\ answer'.source = "curated"
    BY <1>2, <1>7, AnswersTyped DEF FallBack, Curated
  <2> QED BY <1>3, <1>5, <1>7, <2>1, ReaderWaitsKeepsInv DEF FallBack
<1>8. ASSUME NEW text \in Generated(tab[c].task) \ {NoText},
             Hand(u, l, text, "fresh", pool), tab' = [tab EXCEPT ![c] = IdleTab]
      PROVE  Inv'
  <2>1. text \in Texts /\ <<text, l>> \in Fits
    BY <1>8 DEF Generated, Accepts
  <2> HIDE DEF l, u
  <2> QED BY <1>2, <1>3, <1>5, <1>8, <2>1, HandKeepsInv
<1> QED BY <1>6, <1>7, <1>8 DEF GetReply

(***************************************************************************)
(* The refills' actions. A step that touches no reader keeps what is known *)
(* of them; what is left is the pool and its writers.                      *)
(***************************************************************************)
LEMMA BackgroundKeepsInv ==
    ASSUME Assumptions, Inv, UNCHANGED <<last, tab, read>>, answer' = NoAnswer,
           up' \in BOOLEAN, pressure' \in Pressures,
           pool' \in [Levels -> Seq(Texts)],
           \A l \in Levels : \A i \in DOMAIN pool'[l] : <<pool'[l][i], l>> \in Fits,
           refill' \in [Refills -> Tasks], \A r \in Refills : WithinBudget(refill'[r]),
           prewarm' \in Tasks, WithinBudget(prewarm'),
           prewarm' = prewarm \/ prewarm'.at # "new",
           OneWriter', RoomToWrite', PoolBounded'
    PROVE  Inv'
<1>1. OnLevel' /\ (last = read)' /\ PoolNeverRepeats'
  BY NothingHanded DEF NoAnswer
<1>2. TypeOK'
  BY DEF TypeOK, Inv, WithinBudget
<1>3. FromTheBottom'
  BY DEF FromTheBottom, Inv
<1> QED BY <1>1, <1>2, <1>3 DEF Inv

(* A text that fits goes to the end of the pool of its level. *)
LEMMA AddingKeepsPools ==
    ASSUME Inv, NEW l \in Levels, NEW text \in Texts, <<text, l>> \in Fits,
           pool' = [pool EXCEPT ![l] = Append(@, text)]
    PROVE  /\ pool' \in [Levels -> Seq(Texts)]
           /\ \A m \in Levels : \A i \in DOMAIN pool'[m] : <<pool'[m][i], m>> \in Fits
           /\ Len(pool'[l]) = Len(pool[l]) + 1
           /\ \A m \in Levels \ {l} : pool'[m] = pool[m]
<1>1. /\ pool \in [Levels -> Seq(Texts)]
      /\ \A m \in Levels : \A i \in DOMAIN pool[m] : <<pool[m][i], m>> \in Fits
  BY DEF Inv, TypeOK, OnLevel
<1>2. /\ pool' \in [Levels -> Seq(Texts)]
      /\ Len(pool'[l]) = Len(pool[l]) + 1
      /\ \A m \in Levels \ {l} : pool'[m] = pool[m]
      /\ \A i \in 1 .. Len(pool[l]) : pool'[l][i] = pool[l][i]
      /\ pool'[l][Len(pool[l]) + 1] = text
  BY <1>1
<1>3. \A i \in DOMAIN pool'[l] : <<pool'[l][i], l>> \in Fits
  <2>1. DOMAIN pool'[l] = 1 .. Len(pool[l]) + 1 /\ DOMAIN pool[l] = 1 .. Len(pool[l])
           /\ Len(pool[l]) \in Nat
    BY <1>1, <1>2
  <2>2. ASSUME NEW i \in DOMAIN pool'[l] PROVE <<pool'[l][i], l>> \in Fits
    <3>1. i = Len(pool[l]) + 1 \/ i \in 1 .. Len(pool[l])
      BY <2>1, <2>2
    <3> QED BY <1>1, <1>2, <2>1, <3>1
  <2> QED BY <2>2
<1> QED BY <1>1, <1>2, <1>3

LEMMA LoopTyped ==
    ASSUME Assumptions, NEW l \in Levels, NEW pools
    PROVE  /\ Loop(l, pools) \in Tasks /\ WithinBudget(Loop(l, pools))
           /\ Loop(l, pools).at = "chat" =>
                 Loop(l, pools).level = l /\ Len(pools[l]) < Target
<1>1. Idle.at # "chat" /\ Asking(l).level = l
  BY DEF Idle, Asking
<1> QED BY <1>1, TasksTyped DEF Loop

(* Task r goes to a state in which it does not write, or to the head of the  *)
(* loop while nobody else is in it; the pool is not touched.                 *)
LEMMA MovingKeepsInv ==
    ASSUME Assumptions, Inv, NEW r \in Refills, NEW t \in Tasks, WithinBudget(t),
           refill' = [refill EXCEPT ![r] = t],
           t.at = "chat" =>
               /\ \A q \in Refills \ {r} :
                     refill[q].at = "chat" => refill[q].level # t.level
               /\ Len(pool[t.level]) < Target + Extra(t.level),
           UNCHANGED <<up, pressure, pool, last, tab, prewarm, read>>,
           answer' = NoAnswer
    PROVE  Inv'
<1>1. /\ refill \in [Refills -> Tasks] /\ \A q \in Refills : WithinBudget(refill[q])
      /\ prewarm \in Tasks /\ WithinBudget(prewarm)
      /\ pool \in [Levels -> Seq(Texts)]
      /\ up \in BOOLEAN /\ pressure \in Pressures
  BY DEF Inv, TypeOK
<1>2. /\ refill' \in [Refills -> Tasks] /\ \A q \in Refills : WithinBudget(refill'[q])
      /\ refill'[r] = t
      /\ \A q \in Refills \ {r} : refill'[q] = refill[q]
  BY <1>1
<1>3. \A l \in Levels : Extra(l)' = Extra(l)
  BY DEF Extra, Warmed
<1>4. OneWriter'
  BY <1>2 DEF OneWriter, Inv
<1>5. RoomToWrite'
  BY <1>2, <1>3 DEF RoomToWrite, Inv
<1>6. PoolBounded'
  BY <1>3 DEF PoolBounded, Extra, Inv
<1>7. \A l \in Levels : \A i \in DOMAIN pool'[l] : <<pool'[l][i], l>> \in Fits
  BY DEF Inv, OnLevel
<1> QED BY <1>1, <1>2, <1>4, <1>5, <1>6, <1>7, BackgroundKeepsInv

(* The head of the loop is reached with the lock, and asks when it is short. *)
LEMMA LoopKeepsInv ==
    ASSUME Assumptions, Inv, NEW r \in Refills, NEW l \in Levels,
           \A q \in Refills \ {r} : refill[q].at = "chat" => refill[q].level # l,
           refill' = [refill EXCEPT ![r] = Loop(l, pool)],
           UNCHANGED <<up, pressure, pool, last, tab, prewarm, read>>,
           answer' = NoAnswer
    PROVE  Inv'
<1>1. Len(pool[l]) \in Nat /\ Extra(l) \in {0, 1}
  BY DEF Inv, TypeOK, Extra
<1> DEFINE t == Loop(l, pool)
<1>2. t \in Tasks /\ WithinBudget(t)
         /\ (t.at = "chat" => t.level = l /\ Len(pool[l]) < Target + Extra(l))
  BY <1>1, LoopTyped DEF Assumptions, SettingsAssumption
<1>3. refill' = [refill EXCEPT ![r] = t]
  OBVIOUS
<1> HIDE DEF t
<1> QED BY <1>2, <1>3, MovingKeepsInv

LEMMA StartRefillKeepsInv ==
    ASSUME Assumptions, Inv, NEW r \in Refills, StartRefill(r)
    PROVE  Inv'
<1> DEFINE l == refill[r].level
<1>1. refill[r] \in Tasks /\ l \in Levels /\ WithinBudget(refill[r])
  BY DEF Inv, TypeOK, Tasks
<1>2. UNCHANGED <<up, pressure, pool, last, tab, prewarm, read>> /\ answer' = NoAnswer
  BY DEF StartRefill
<1>3. CASE refill' = [refill EXCEPT ![r] = Idle]
  <2>1. Idle \in Tasks /\ WithinBudget(Idle) /\ Idle.at # "chat"
    BY <1>1, TasksTyped DEF Idle
  <2> QED BY <1>2, <1>3, <2>1, MovingKeepsInv
<1>4. CASE LockFree(l) /\ refill' = [refill EXCEPT ![r] = Loop(l, pool)]
  <2>1. \A q \in Refills : refill[q].at = "chat" => refill[q].level # l
    BY <1>4 DEF LockFree, Holders
  <2> HIDE DEF l
  <2> QED BY <1>1, <1>2, <1>4, <2>1, LoopKeepsInv
<1>5. CASE refill' = [refill EXCEPT ![r] = [@ EXCEPT !.at = "lock"]]
  <2> DEFINE t == [refill[r] EXCEPT !.at = "lock"]
  <2>1. t \in Tasks /\ WithinBudget(t) /\ t.at # "chat"
    BY <1>1 DEF Tasks, WithinBudget
  <2>2. refill' = [refill EXCEPT ![r] = t]
    BY <1>5
  <2> HIDE DEF t
  <2> QED BY <1>2, <2>1, <2>2, MovingKeepsInv
<1> QED BY <1>3, <1>4, <1>5 DEF StartRefill

LEMMA TakeLockKeepsInv ==
    ASSUME Assumptions, Inv, NEW r \in Refills, TakeLock(r)
    PROVE  Inv'
<1> DEFINE l == refill[r].level
<1>1. l \in Levels
  BY DEF Inv, TypeOK, Tasks
<1>2. /\ UNCHANGED <<up, pressure, pool, last, tab, prewarm, read>> /\ answer' = NoAnswer
      /\ LockFree(l)
      /\ refill' = [refill EXCEPT ![r] = Loop(l, pool)]
  BY DEF TakeLock
<1>3. \A q \in Refills : refill[q].at = "chat" => refill[q].level # l
  BY <1>2 DEF LockFree, Holders
<1> HIDE DEF l
<1> QED BY <1>1, <1>2, <1>3, LoopKeepsInv

LEMMA RefillReplyKeepsInv ==
    ASSUME Assumptions, Inv, NEW r \in Refills, RefillReply(r)
    PROVE  Inv'
<1> DEFINE l == refill[r].level
<1>1. /\ refill \in [Refills -> Tasks] /\ \A q \in Refills : WithinBudget(refill[q])
      /\ prewarm \in Tasks /\ WithinBudget(prewarm)
      /\ pool \in [Levels -> Seq(Texts)]
      /\ up \in BOOLEAN /\ pressure \in Pressures
  BY DEF Inv, TypeOK
<1>2. refill[r] \in Tasks /\ l \in Levels
  BY <1>1 DEF Tasks
<1>3. UNCHANGED <<up, pressure, last, tab, prewarm, read>> /\ answer' = NoAnswer
  BY DEF RefillReply
<1>4. refill[r].at = "chat" =>
         /\ \A q \in Refills \ {r} : refill[q].at = "chat" => refill[q].level # l
         /\ Len(pool[l]) < Target + Extra(l)
  BY <1>2 DEF Inv, OneWriter, RoomToWrite
<1>5. CASE MayRetry(refill[r]) /\ refill' = [refill EXCEPT ![r] = Again(@)] /\ UNCHANGED pool
  <2> DEFINE t == Again(refill[r])
  <2>1. t \in Tasks /\ WithinBudget(t) /\ t.at = "chat" /\ t.level = l
    BY <1>2, <1>5, RetryTyped
  <2>2. refill[r].at = "chat" /\ refill' = [refill EXCEPT ![r] = t]
    BY <1>5 DEF MayRetry
  <2> HIDE DEF t, l
  <2> QED BY <1>3, <1>4, <1>5, <2>1, <2>2, MovingKeepsInv
<1>6. CASE RefillFails(r)
  <2>1. Idle \in Tasks /\ WithinBudget(Idle) /\ Idle.at # "chat"
    BY <1>2, TasksTyped DEF Idle
  <2> QED BY <1>3, <1>6, <2>1, MovingKeepsInv DEF RefillFails
<1>7. ASSUME NEW text \in Generated(refill[r]) \ {NoText},
             pool' = [pool EXCEPT ![l] = Append(@, text)],
             refill' = [refill EXCEPT ![r] = Loop(@.level, pool')]
      PROVE  Inv'
  <2>1. refill[r].at = "chat" /\ text \in Texts /\ <<text, l>> \in Fits
    BY <1>7 DEF Generated, Accepts
  <2> DEFINE t == Loop(l, pool')
  <2>2. /\ t \in Tasks /\ WithinBudget(t)
        /\ t.at = "chat" => t.level = l /\ Len(pool'[l]) < Target
    BY <1>2, LoopTyped
  <2>3. refill' = [refill EXCEPT ![r] = t]
    BY <1>7
  <2> HIDE DEF l, t
  <2>4. /\ pool' \in [Levels -> Seq(Texts)]
        /\ \A m \in Levels : \A i \in DOMAIN pool'[m] : <<pool'[m][i], m>> \in Fits
        /\ Len(pool'[l]) = Len(pool[l]) + 1
        /\ \A m \in Levels \ {l} : pool'[m] = pool[m]
    <3>1. pool' = [pool EXCEPT ![l] = Append(@, text)]
      BY <1>7
    <3>2. l \in Levels /\ text \in Texts /\ <<text, l>> \in Fits
      BY <1>2, <2>1
    <3> QED BY <3>1, <3>2, AddingKeepsPools
  <2>5. \A m \in Levels : Extra(m)' = Extra(m) /\ Extra(m) \in {0, 1} /\ Len(pool[m]) \in Nat
    BY <1>1, <1>3 DEF Extra, Warmed
  <2>6. /\ refill' \in [Refills -> Tasks] /\ \A q \in Refills : WithinBudget(refill'[q])
        /\ refill'[r] = t
        /\ \A q \in Refills \ {r} : refill'[q] = refill[q]
    BY <1>1, <2>2, <2>3
  <2>7. OneWriter'
    BY <1>4, <2>1, <2>2, <2>6 DEF OneWriter, Inv
  <2>8. ASSUME NEW q \in Refills, NEW m \in Levels, refill'[q].at = "chat", refill'[q].level = m
        PROVE  Len(pool'[m]) < Target + Extra(m)'
    <3>1. CASE q = r
      <4>1. m = l /\ Len(pool'[m]) < Target
        BY <2>2, <2>6, <2>8, <3>1
      <4>2. Len(pool'[m]) \in Nat /\ Extra(m)' \in {0, 1}
        BY <2>4, <2>5
      <4> QED BY <4>1, <4>2 DEF Assumptions, SettingsAssumption
    <3>2. CASE q # r
      <4>1. refill[q].at = "chat" /\ refill[q].level = m /\ m # l
        BY <1>4, <2>1, <2>6, <2>8, <3>2
      <4> QED BY <2>4, <2>5, <4>1 DEF Inv, RoomToWrite
    <3> QED BY <3>1, <3>2
  <2>9. \A m \in Levels : Len(pool'[m]) <= Target + Extra(m)'
    <3>1. \A m \in Levels : Len(pool[m]) <= Target + Extra(m)
      BY DEF Inv, PoolBounded, Extra
    <3>2. Len(pool[l]) + 1 <= Target + Extra(l)
      BY <1>2, <1>4, <2>1, <2>5 DEF Assumptions, SettingsAssumption
    <3> QED BY <1>2, <2>4, <2>5, <3>1, <3>2
  <2>10. RoomToWrite' /\ PoolBounded'
    BY <2>8, <2>9 DEF RoomToWrite, PoolBounded, Extra
  <2>11. /\ up' \in BOOLEAN /\ pressure' \in Pressures
         /\ prewarm' \in Tasks /\ WithinBudget(prewarm')
    BY <1>1, <1>3 DEF WithinBudget
  <2> QED BY <1>3, <2>4, <2>6, <2>7, <2>10, <2>11, BackgroundKeepsInv
<1> QED BY <1>5, <1>6, <1>7 DEF RefillReply

(***************************************************************************)
(* The warm-up and the rest. What the warm-up adds to a pool it is allowed *)
(* there from then on.                                                     *)
(***************************************************************************)
LEMMA WarmingKeepsInv ==
    ASSUME Assumptions, Inv, UNCHANGED <<last, tab, refill, read>>, answer' = NoAnswer,
           up' \in BOOLEAN, pressure' \in Pressures,
           prewarm' \in Tasks, WithinBudget(prewarm'),
           prewarm' = prewarm \/ prewarm'.at # "new",
           pool' \in [Levels -> Seq(Texts)],
           \A l \in Levels : \A i \in DOMAIN pool'[l] : <<pool'[l][i], l>> \in Fits,
           \A l \in Levels : Len(pool'[l]) - Len(pool[l]) <= Extra(l)' - Extra(l)
    PROVE  Inv'
<1>1. /\ refill \in [Refills -> Tasks] /\ \A q \in Refills : WithinBudget(refill[q])
      /\ pool \in [Levels -> Seq(Texts)]
  BY DEF Inv, TypeOK
<1>2. \A l \in Levels : /\ Extra(l) \in {0, 1} /\ Extra(l)' \in {0, 1}
                        /\ Len(pool[l]) \in Nat /\ Len(pool'[l]) \in Nat
  BY <1>1 DEF Extra
<1>3. OneWriter'
  BY DEF OneWriter, Inv
<1>4. RoomToWrite'
  <2>1. ASSUME NEW q \in Refills, NEW l \in Levels,
               refill'[q].at = "chat", refill'[q].level = l
        PROVE  Len(pool'[l]) < Target + Extra(l)'
    <3>1. Len(pool[l]) < Target + Extra(l)
      BY <2>1 DEF Inv, RoomToWrite
    <3>2. Len(pool'[l]) - Len(pool[l]) <= Extra(l)' - Extra(l)
      OBVIOUS
    <3> QED BY <1>2, <3>1, <3>2 DEF Assumptions, SettingsAssumption
  <2> QED BY <2>1 DEF RoomToWrite
<1>5. PoolBounded'
  <2>1. \A l \in Levels : Len(pool[l]) <= Target + Extra(l)
    BY DEF Inv, PoolBounded, Extra
  <2>2. \A l \in Levels : Len(pool'[l]) <= Target + Extra(l)'
    BY <1>2, <2>1 DEF Assumptions, SettingsAssumption
  <2> QED BY <2>2 DEF PoolBounded, Extra
<1>6. refill' \in [Refills -> Tasks] /\ \A q \in Refills : WithinBudget(refill'[q])
  BY <1>1
<1> QED BY <1>3, <1>4, <1>5, <1>6, BackgroundKeepsInv

LEMMA WarmFromTyped ==
    ASSUME Assumptions, NEW l \in Nat
    PROVE  /\ WarmFrom(l) \in Tasks /\ WithinBudget(WarmFrom(l))
           /\ WarmFrom(l).at = "done"
                \/ (WarmFrom(l).at = "chat" /\ WarmFrom(l).level = l /\ l \in Levels)
<1>1. 0 \in Levels
  BY DEF Assumptions, LevelsAssumption, Levels
<1>2. [Idle EXCEPT !.at = "done"] \in Tasks /\ WithinBudget([Idle EXCEPT !.at = "done"])
         /\ [Idle EXCEPT !.at = "done"].at = "done"
  BY <1>1, TasksTyped DEF Idle, Tasks, WithinBudget
<1>3. ~(l > TopLevel) => l \in Levels
  BY DEF Levels, Assumptions, LevelsAssumption
<1>4. l \in Levels => /\ Asking(l) \in Tasks /\ WithinBudget(Asking(l))
                     /\ Asking(l).at = "chat" /\ Asking(l).level = l
  BY TasksTyped DEF Asking
<1> QED BY <1>2, <1>3, <1>4 DEF WarmFrom

LEMMA StartPrewarmKeepsInv ==
    ASSUME Assumptions, Inv, StartPrewarm
    PROVE  Inv'
<1>1. /\ pool \in [Levels -> Seq(Texts)] /\ up \in BOOLEAN /\ pressure \in Pressures
      /\ \A l \in Levels : \A i \in DOMAIN pool[l] : <<pool[l][i], l>> \in Fits
      /\ prewarm \in Tasks
  BY DEF Inv, TypeOK, OnLevel
<1>2. prewarm' \in Tasks /\ WithinBudget(prewarm') /\ prewarm'.at # "new"
  <2>1. prewarm' = WarmFrom(0)
    BY DEF StartPrewarm
  <2>2. WithinBudget(WarmFrom(0)) /\ WarmFrom(0) \in Tasks /\ WarmFrom(0).at # "new"
    BY WarmFromTyped
  <2> QED BY <2>1, <2>2 DEF WithinBudget
<1>3. UNCHANGED <<up, pressure, pool, last, tab, refill, read>> /\ answer' = NoAnswer
  BY DEF StartPrewarm
<1>4. prewarm.at = "new" /\ prewarm.level = 0
  BY DEF StartPrewarm, Inv, FromTheBottom
<1>5. \A l \in Levels : Extra(l) = 0 /\ Extra(l)' \in {0, 1} /\ Len(pool[l]) \in Nat
  BY <1>1, <1>4 DEF Extra, Warmed, Levels
<1>6. \A l \in Levels : Len(pool'[l]) - Len(pool[l]) <= Extra(l)' - Extra(l)
  BY <1>3, <1>5
<1> QED BY <1>1, <1>2, <1>3, <1>6, WarmingKeepsInv

LEMMA PrewarmReplyKeepsInv ==
    ASSUME Assumptions, Inv, PrewarmReply
    PROVE  Inv'
<1>1. /\ pool \in [Levels -> Seq(Texts)] /\ up \in BOOLEAN /\ pressure \in Pressures
      /\ \A m \in Levels : \A i \in DOMAIN pool[m] : <<pool[m][i], m>> \in Fits
      /\ prewarm \in Tasks
  BY DEF Inv, TypeOK, OnLevel
<1>2. prewarm.level \in Levels
  BY <1>1 DEF Tasks
<1>3. PICK l \in Levels : l = prewarm.level
  BY <1>2
<1>4. l \in Nat /\ Levels \subseteq Nat
  BY DEF Levels
<1>5. UNCHANGED <<up, pressure, last, tab, refill, read>> /\ answer' = NoAnswer
  BY DEF PrewarmReply
<1>6. CASE MayRetry(prewarm) /\ prewarm' = Again(prewarm) /\ UNCHANGED pool
  <2>1. /\ prewarm' \in Tasks /\ WithinBudget(Again(prewarm))
        /\ prewarm'.at = "chat" /\ prewarm.at = "chat" /\ prewarm'.level = l
    BY <1>1, <1>3, <1>6, RetryTyped DEF MayRetry
  <2>2. WithinBudget(prewarm')
    BY <1>6, <2>1 DEF WithinBudget
  <2>3. \A m \in Levels : Extra(m)' = Extra(m) /\ Extra(m) \in {0, 1} /\ Len(pool[m]) \in Nat
    BY <1>1, <1>3, <2>1 DEF Extra, Warmed
  <2>4. \A m \in Levels : Len(pool'[m]) - Len(pool[m]) <= Extra(m)' - Extra(m)
    BY <1>6, <2>3
  <2> QED BY <1>1, <1>5, <1>6, <2>1, <2>2, <2>4, WarmingKeepsInv
<1>7. ASSUME NEW text \in Generated(prewarm),
             pool' = IF text = NoText THEN pool
                     ELSE [pool EXCEPT ![l] = Append(@, text)],
             prewarm' = WarmFrom(l + 1)
      PROVE  Inv'
  <2>1. prewarm.at = "chat"
    BY <1>7 DEF Generated
  <2>2. /\ WarmFrom(l + 1) \in Tasks /\ WithinBudget(WarmFrom(l + 1))
        /\ WarmFrom(l + 1).at = "done"
             \/ (WarmFrom(l + 1).at = "chat" /\ WarmFrom(l + 1).level = l + 1)
    BY <1>4, WarmFromTyped
  <2>3. /\ prewarm' \in Tasks /\ WithinBudget(prewarm')
        /\ prewarm'.at = "done" \/ (prewarm'.at = "chat" /\ prewarm'.level = l + 1)
    BY <1>7, <2>2 DEF WithinBudget
  <2>4. /\ \A m \in Levels : /\ Extra(m) \in {0, 1} /\ Extra(m)' \in {0, 1}
                             /\ Extra(m) <= Extra(m)' /\ Len(pool[m]) \in Nat
        /\ Extra(l) = 0 /\ Extra(l)' = 1
    BY <1>1, <1>3, <1>4, <2>1, <2>3 DEF Extra, Warmed
  <2>5. CASE text = NoText
    <3>1. pool' = pool
      BY <1>7, <2>5
    <3>2. \A m \in Levels : Len(pool'[m]) - Len(pool[m]) <= Extra(m)' - Extra(m)
      BY <2>4, <3>1
    <3> QED BY <1>1, <1>5, <2>3, <3>1, <3>2, WarmingKeepsInv
  <2>6. CASE text # NoText
    <3>1. text \in Texts /\ <<text, l>> \in Fits
      BY <1>3, <1>7, <2>6 DEF Generated, Accepts
    <3>2. pool' = [pool EXCEPT ![l] = Append(@, text)]
      BY <1>7, <2>6
    <3>3. /\ pool' \in [Levels -> Seq(Texts)]
          /\ \A m \in Levels : \A i \in DOMAIN pool'[m] : <<pool'[m][i], m>> \in Fits
          /\ Len(pool'[l]) = Len(pool[l]) + 1
          /\ \A m \in Levels \ {l} : pool'[m] = pool[m]
      BY <1>4, <3>1, <3>2, AddingKeepsPools
    <3>4. \A m \in Levels : Len(pool'[m]) - Len(pool[m]) <= Extra(m)' - Extra(m)
      BY <1>4, <2>4, <3>3
    <3> QED BY <1>1, <1>5, <2>3, <3>3, <3>4, WarmingKeepsInv
  <2> QED BY <2>5, <2>6
<1> QED BY <1>3, <1>6, <1>7 DEF PrewarmReply

LEMMA StopKeepsInv ==
    ASSUME Assumptions, Inv, Stop
    PROVE  Inv'
<1>1. /\ pool \in [Levels -> Seq(Texts)] /\ pressure \in Pressures
      /\ \A l \in Levels : \A i \in DOMAIN pool[l] : <<pool[l][i], l>> \in Fits
  BY DEF Inv, TypeOK, OnLevel
<1>2. 0 \in Levels
  BY DEF Assumptions, LevelsAssumption, Levels
<1>3. prewarm' \in Tasks /\ WithinBudget(prewarm') /\ prewarm'.at = "done"
  BY <1>2, TasksTyped DEF Stop, Idle, Tasks, WithinBudget
<1>4. up' \in BOOLEAN /\ UNCHANGED <<pressure, pool, last, tab, refill, read>>
         /\ answer' = NoAnswer
  BY DEF Stop
<1>5. \A l \in Levels : Extra(l) \in {0, 1} /\ Extra(l)' = 1 /\ Len(pool[l]) \in Nat
  BY <1>1, <1>3 DEF Extra, Warmed
<1>6. \A l \in Levels : Len(pool'[l]) - Len(pool[l]) <= Extra(l)' - Extra(l)
  BY <1>4, <1>5
<1> QED BY <1>1, <1>3, <1>4, <1>6, WarmingKeepsInv

LEMMA PressureKeepsInv ==
    ASSUME Assumptions, Inv, PressureChanges
    PROVE  Inv'
<1>1. /\ pool \in [Levels -> Seq(Texts)] /\ up \in BOOLEAN
      /\ \A l \in Levels : \A i \in DOMAIN pool[l] : <<pool[l][i], l>> \in Fits
      /\ prewarm \in Tasks /\ WithinBudget(prewarm)
  BY DEF Inv, TypeOK, OnLevel
<1>2. /\ UNCHANGED <<up, pool, last, tab, refill, prewarm, read>>
      /\ pressure' \in Pressures /\ answer' = NoAnswer
  BY DEF PressureChanges
<1>3. \A l \in Levels : Len(pool'[l]) - Len(pool[l]) <= Extra(l)' - Extra(l)
  <2>1. \A l \in Levels : Extra(l)' = Extra(l) /\ Extra(l) \in {0, 1} /\ Len(pool[l]) \in Nat
    BY <1>1, <1>2 DEF Extra, Warmed
  <2> QED BY <1>2, <2>1
<1>4. WithinBudget(prewarm')
  BY <1>1, <1>2 DEF WithinBudget
<1> QED BY <1>1, <1>2, <1>3, <1>4, WarmingKeepsInv

(***************************************************************************)
(* The invariant of the specification, and what follows from it.           *)
(***************************************************************************)
LEMMA InitEstablishesInv ==
    ASSUME Assumptions, Init
    PROVE  Inv
<1>1. 0 \in Levels
  BY DEF Assumptions, LevelsAssumption, Levels
<1>2. Idle \in Tasks /\ WithinBudget(Idle) /\ Idle.at = "idle" /\ Idle.level = 0
  BY <1>1, TasksTyped DEF Idle
<1>3. /\ [Idle EXCEPT !.at = "new"] \in Tasks /\ WithinBudget([Idle EXCEPT !.at = "new"])
      /\ [Idle EXCEPT !.at = "new"].level = 0
  BY <1>2 DEF Idle, Tasks, WithinBudget
<1>4. TypeOK
  BY <1>2, <1>3 DEF Init, TypeOK, IdleTab
<1>5. FromTheBottom /\ OneWriter /\ RoomToWrite
  BY <1>2, <1>3 DEF Init, FromTheBottom, OneWriter, RoomToWrite
<1>6. \A l \in Levels : Len(pool[l]) = 0 /\ Extra(l) \in {0, 1}
  BY DEF Init, Extra
<1>7. PoolBounded
  BY <1>6 DEF PoolBounded, Extra, Assumptions, SettingsAssumption
<1>8. OnLevel /\ last = read /\ PoolNeverRepeats
  BY DEF Init, OnLevel, PoolNeverRepeats, NoAnswer
<1> QED BY <1>4, <1>5, <1>7, <1>8 DEF Inv

LEMMA StutterKeepsInv ==
    ASSUME Inv, UNCHANGED vars
    PROVE  Inv'
<1>1. TypeOK' /\ FromTheBottom' /\ OneWriter'
  BY DEF vars, Inv, TypeOK, FromTheBottom, OneWriter, WithinBudget
<1>2. RoomToWrite' /\ PoolBounded'
  BY DEF vars, Inv, RoomToWrite, PoolBounded, Extra, Warmed
<1>3. OnLevel' /\ (last = read)' /\ PoolNeverRepeats'
  BY DEF vars, Inv, OnLevel, PoolNeverRepeats
<1> QED BY <1>1, <1>2, <1>3 DEF Inv

(* The inductive invariant holds for all time. *)
THEOREM Invariance == ASSUME Assumptions PROVE Spec => []Inv
<1>1. Init => Inv
  BY InitEstablishesInv
<1>2. Inv /\ [Next]_vars => Inv'
  <2> SUFFICES ASSUME Inv, [Next]_vars PROVE Inv'
    OBVIOUS
  <2>1. ASSUME NEW c \in Tabs, NEW l \in Levels, NEW u \in Readers \cup {NoUser},
               Get(c, u, l)
        PROVE  Inv'
    BY <2>1, GetKeepsInv
  <2>2. ASSUME NEW c \in Tabs, GetReply(c) PROVE Inv'
    BY <2>2, GetReplyKeepsInv
  <2>3. ASSUME NEW r \in Refills, StartRefill(r) PROVE Inv'
    BY <2>3, StartRefillKeepsInv
  <2>4. ASSUME NEW r \in Refills, TakeLock(r) PROVE Inv'
    BY <2>4, TakeLockKeepsInv
  <2>5. ASSUME NEW r \in Refills, RefillReply(r) PROVE Inv'
    BY <2>5, RefillReplyKeepsInv
  <2>6. CASE StartPrewarm
    BY <2>6, StartPrewarmKeepsInv
  <2>7. CASE PrewarmReply
    BY <2>7, PrewarmReplyKeepsInv
  <2>8. CASE Stop
    BY <2>8, StopKeepsInv
  <2>9. CASE PressureChanges
    BY <2>9, PressureKeepsInv
  <2>10. CASE UNCHANGED vars
    BY <2>10, StutterKeepsInv
  <2> QED BY <2>1, <2>2, <2>3, <2>4, <2>5, <2>6, <2>7, <2>8, <2>9, <2>10 DEF Next
<1> QED BY <1>1, <1>2, PTL DEF Spec

(***************************************************************************)
(* No pool ever holds more than its target and the one passage of the      *)
(* warm-up, however many refills and readers there are.                    *)
(***************************************************************************)
THEOREM PoolsStayBounded == ASSUME Assumptions PROVE Spec => []PoolBounded
<1>1. Inv => PoolBounded
  BY DEF Inv
<1> QED BY <1>1, Invariance, PTL

(***************************************************************************)
(* No text reaches a reader, or waits for one, that did not pass the check *)
(* for that level.                                                         *)
(***************************************************************************)
THEOREM NothingUnchecked == ASSUME Assumptions PROVE Spec => []OnLevel
<1>1. Inv => OnLevel
  BY DEF Inv
<1> QED BY <1>1, Invariance, PTL

(***************************************************************************)
(* The pool never repeats to a reader what that reader was handed last.    *)
(***************************************************************************)
THEOREM NeverTheSameTwice == ASSUME Assumptions PROVE Spec => []PoolNeverRepeats
<1>1. Inv => PoolNeverRepeats
  BY DEF Inv
<1> QED BY <1>1, Invariance, PTL

(***************************************************************************)
(* Every task stays a task, and no generation exceeds its attempts.        *)
(***************************************************************************)
THEOREM TypeCorrect == ASSUME Assumptions PROVE Spec => []TypeOK
<1>1. Inv => TypeOK
  BY DEF Inv
<1> QED BY <1>1, Invariance, PTL
=============================================================================
