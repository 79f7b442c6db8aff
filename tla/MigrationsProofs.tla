-------------------------- MODULE MigrationsProofs --------------------------
(***************************************************************************)
(* Proofs about migrate, for every list of scripts, any number of          *)
(* processes and of starts.                                                *)
(***************************************************************************)
EXTENDS Migrations, TLAPS

\* p itself has run statement i of the version it is applying.
Past(p, v, i) ==
    /\ version[p] = v
    /\ pc[p] = "record" \/ (pc[p] = "script" /\ next[p] > i)

\* ... or has recorded that version without having committed yet.
Holds(p, v, i) == open[p] = v \/ Past(p, v, i)

(***************************************************************************)
(* Where a process is in the list: what precedes its version is recorded,  *)
(* durably or by its own open transaction.                                 *)
(***************************************************************************)
Placed ==
    \A p \in Migrators :
        /\ seen[p] \subseteq recorded
        /\ pc[p] \in {"begin", "script", "record"} =>
               /\ version[p] \in Versions
               /\ 1 .. version[p] - 1 \subseteq recorded \cup {open[p]}
        /\ pc[p] = "script" => next[p] \in 1 .. Len(Scripts[version[p]])
        /\ pc[p] \notin {"begin", "commit"} => open[p] = 0
        /\ pc[p] = "commit" => Versions \subseteq recorded \cup {open[p]}
        /\ pc[p] = "up" => Versions \subseteq recorded
        /\ open[p] # 0 => 1 .. open[p] - 1 \subseteq recorded

\* The write lock.
OneWriter == \A p, q \in Migrators : p # q => open[p] = 0 \/ open[q] = 0

Durable ==
    /\ \A v \in recorded : Statements(v) \subseteq schema
    /\ \A p \in Migrators : \A v \in Versions : \A i \in 1 .. Len(Scripts[v]) :
           Holds(p, v, i) => <<v, i>> \in schema

StrictAt(v, i) == Strict(Scripts[v][i])

\* A column is added by one process only, and the version is then its alone.
Exclusive ==
    \A v \in Versions : \A i \in 1 .. Len(Scripts[v]) : \A p \in Migrators :
        StrictAt(v, i) /\ Holds(p, v, i) =>
            /\ v \notin recorded
            /\ \A q \in Migrators \ {p} : ~Holds(q, v, i)

\* A column of an unrecorded version has its process still at work, or a crash
\* left it behind.
Traced ==
    \A v \in Versions \ recorded : \A i \in 1 .. Len(Scripts[v]) :
        StrictAt(v, i) /\ <<v, i>> \in schema =>
            v \in interrupted \/ \E p \in Migrators : Holds(p, v, i)

Backfilled ==
    /\ veteran \subseteq practised
    /\ (\E v \in Versions \ recorded : HasBackfill(v)) => practised = veteran
    /\ flagged \subseteq veteran \cup chosen
    /\ \A v \in Versions : \A i \in 1 .. Len(Scripts[v]) :
           Scripts[v][i] = "backfill"
               /\ (v \in recorded \/ \E p \in Migrators : Holds(p, v, i))
           => veteran \subseteq flagged

Inv ==
    /\ TypeOK
    /\ Placed
    /\ OneWriter
    /\ Durable
    /\ Exclusive
    /\ Traced
    /\ Backfilled

-----------------------------------------------------------------------------
\* What the assumption on the scripts says, in the form the leaves below use.
LEMMA ScriptsTyped ==
    ASSUME NEW v \in Versions
    PROVE  /\ v \in Nat \ {0}
           /\ Scripts[v] \in Seq(Kinds)
           /\ Len(Scripts[v]) \in Nat \ {0}
           /\ DOMAIN Scripts[v] = 1 .. Len(Scripts[v])
           /\ \A i \in 1 .. Len(Scripts[v]) : Scripts[v][i] \in Kinds
<1>1. Scripts \in Seq(Seq(Kinds) \ {<<>>}) /\ Len(Scripts) \in Nat
  BY ScriptsAssumption
<1>2. Scripts[v] \in Seq(Kinds) /\ Scripts[v] # <<>> /\ v \in Nat \ {0}
  BY <1>1 DEF Versions
<1>3. Len(Scripts[v]) \in Nat \ {0}
  BY <1>2
<1> QED BY <1>2, <1>3

\* The database as an earlier build left it.
LEMMA InitInv == Init => Inv
<1> SUFFICES ASSUME Init PROVE Inv
  OBVIOUS
<1>1. PICK n \in 0 .. Len(Scripts) : recorded = 1 .. n
  BY DEF Init
<1>2. Len(Scripts) \in Nat /\ n \in Nat /\ n <= Len(Scripts)
  BY ScriptsAssumption
<1>3. recorded \subseteq Versions
  BY <1>1, <1>2 DEF Versions
<1>4. \A p \in Migrators : pc[p] = "off" /\ open[p] = 0 /\ seen[p] = {}
  BY DEF Init
<1>5. \A p \in Migrators, v \in Versions : \A i : ~Holds(p, v, i)
  BY <1>4, ScriptsTyped DEF Holds, Past
<1>6. TypeOK
  <2>1. recorded \subseteq Versions /\ \A v \in recorded : 1 .. v \subseteq recorded
    BY <1>1, <1>2, <1>3
  <2>2. schema \subseteq UNION {Statements(v) : v \in Versions}
    BY <1>3 DEF Init
  <2>3. flagged \subseteq Learners
    BY DEF Init
  <2> QED BY <2>1, <2>2, <2>3, StartsAssumption DEF Init, TypeOK
<1>7. Placed
  BY <1>3, <1>4 DEF Placed
<1>8. OneWriter
  BY <1>4 DEF OneWriter
<1>9. Durable
  BY <1>5 DEF Durable, Init
<1>10. Exclusive
  BY <1>5 DEF Exclusive
<1>11. Traced
  <2> SUFFICES ASSUME NEW v \in Versions \ recorded, NEW i, <<v, i>> \in schema
               PROVE  FALSE
    BY DEF Traced
  <2> QED BY DEF Init, Statements
<1>12. Backfilled
  <2>1. \A v \in Versions : \A i \in 1 .. Len(Scripts[v]) :
            Scripts[v][i] = "backfill" => HasBackfill(v)
    BY ScriptsTyped DEF HasBackfill
  <2>2. veteran = practised
    BY DEF Init
  <2>3. flagged \subseteq veteran
    BY DEF Init
  <2>4. (\E v \in recorded : HasBackfill(v)) => veteran \subseteq flagged
    BY DEF Init
  <2> QED BY <1>5, <2>1, <2>2, <2>3, <2>4 DEF Backfilled
<1> QED BY <1>6, <1>7, <1>8, <1>9, <1>10, <1>11, <1>12 DEF Inv

-----------------------------------------------------------------------------
(***************************************************************************)
(* One statement of a script. A strict one runs only when nobody has run   *)
(* it: its process is alone in the version from here on.                   *)
(***************************************************************************)
LEMMA StatementStep ==
    ASSUME Inv, NEW p \in Migrators, Statement(p)
    PROVE  Inv'
<1> DEFINE v0 == version[p]
           i0 == next[p]
<1>1. /\ v0 \in Versions
      /\ i0 \in 1 .. Len(Scripts[v0])
      /\ open[p] = 0
      /\ pc[p] = "script"
  BY DEF Inv, Placed, Statement
<1>2. /\ next' = [next EXCEPT ![p] = i0 + 1]
      /\ pc' = IF i0 = Len(Scripts[v0]) THEN [pc EXCEPT ![p] = "record"] ELSE pc
      /\ schema' = schema \cup {<<v0, i0>>}
      /\ UNCHANGED <<recorded, seen, version, open, practised, chosen, veteran,
                     interrupted, starts>>
  BY DEF Statement, Current, history
<1>3. flagged' = IF Scripts[v0][i0] = "backfill" THEN flagged \cup practised ELSE flagged
  BY DEF Statement, KindAt
<1>4. ~(StrictAt(v0, i0) /\ <<v0, i0>> \in schema)
  BY DEF Statement, KindAt, Current, StrictAt
<1>5. \A q \in Migrators \ {p} : \A v, i : Holds(q, v, i)' <=> Holds(q, v, i)
  BY <1>2 DEF Holds, Past, Inv, TypeOK
<1>6. \A v \in Versions : \A i \in 1 .. Len(Scripts[v]) :
          Holds(p, v, i)' <=> Holds(p, v, i) \/ (v = v0 /\ i = i0)
  <2> SUFFICES ASSUME NEW v \in Versions, NEW i \in 1 .. Len(Scripts[v])
               PROVE  Holds(p, v, i)' <=> Holds(p, v, i) \/ (v = v0 /\ i = i0)
    OBVIOUS
  <2>1. v \in Nat \ {0} /\ Len(Scripts[v]) \in Nat /\ Len(Scripts[v0]) \in Nat
    BY <1>1, ScriptsTyped
  <2>2. next' [p] = i0 + 1 /\ open'[p] = 0 /\ version'[p] = v0
    BY <1>1, <1>2 DEF Inv, TypeOK
  <2>3. pc'[p] = IF i0 = Len(Scripts[v0]) THEN "record" ELSE "script"
    BY <1>1, <1>2 DEF Inv, TypeOK
  <2> QED BY <1>1, <2>1, <2>2, <2>3 DEF Holds, Past
<1>7. TypeOK'
  <2>1. schema' \subseteq UNION {Statements(v) : v \in Versions}
    BY <1>1, <1>2 DEF Inv, TypeOK, Statements
  <2>2. next' \in [Migrators -> Nat \ {0}]
    BY <1>1, <1>2 DEF Inv, TypeOK
  <2>3. pc' \in [Migrators -> {"off", "scan", "begin", "script", "record", "commit", "up"}]
    BY <1>2 DEF Inv, TypeOK
  <2>4. flagged' \subseteq Learners
    BY <1>3 DEF Inv, TypeOK
  <2> QED BY <1>2, <2>1, <2>2, <2>3, <2>4 DEF Inv, TypeOK, Versions
<1>8. Placed'
  <2> SUFFICES ASSUME NEW q \in Migrators
               PROVE  Placed!(q)'
    BY DEF Placed
  <2>1. CASE q # p
    BY <1>2, <2>1 DEF Inv, TypeOK, Placed, Versions
  <2>2. CASE q = p
    <3>1. next'[p] = i0 + 1 /\ open'[p] = 0 /\ version'[p] = v0
      BY <1>1, <1>2 DEF Inv, TypeOK
    <3>2. pc'[p] = IF i0 = Len(Scripts[v0]) THEN "record" ELSE "script"
      BY <1>1, <1>2 DEF Inv, TypeOK
    <3>3. Len(Scripts[v0]) \in Nat
      BY <1>1, ScriptsTyped
    <3> QED BY <1>1, <1>2, <2>2, <3>1, <3>2, <3>3 DEF Inv, Placed, Versions
  <2> QED BY <2>1, <2>2
<1>9. OneWriter'
  BY <1>2 DEF Inv, OneWriter
<1>10. Durable'
  BY <1>2, <1>5, <1>6 DEF Inv, Durable, Versions
<1>11. Exclusive'
  <2> SUFFICES ASSUME NEW v \in Versions, NEW i \in 1 .. Len(Scripts[v]),
                      NEW q \in Migrators, StrictAt(v, i), Holds(q, v, i)'
               PROVE  /\ v \notin recorded
                      /\ \A r \in Migrators \ {q} : ~Holds(r, v, i)'
    BY <1>2 DEF Exclusive, StrictAt, Versions
  <2>1. CASE v = v0 /\ i = i0
    <3>1. <<v, i>> \notin schema
      BY <1>4, <2>1
    <3>2. v \notin recorded
      BY <3>1 DEF Inv, Durable, Statements
    <3>3. \A r \in Migrators : ~Holds(r, v, i)
      BY <3>1 DEF Inv, Durable
    <3> QED BY <1>5, <3>2, <3>3
  <2>2. CASE ~(v = v0 /\ i = i0)
    <3>1. \A r \in Migrators : Holds(r, v, i)' <=> Holds(r, v, i)
      BY <1>5, <1>6, <2>2
    <3> QED BY <3>1 DEF Inv, Exclusive
  <2> QED BY <2>1, <2>2
<1>12. Traced'
  BY <1>2, <1>5, <1>6 DEF Inv, Traced, StrictAt, Versions
<1>13. Backfilled'
  <2>1. veteran' \subseteq practised'
    BY <1>2 DEF Inv, Backfilled
  <2>2. (\E v \in Versions \ recorded : HasBackfill(v)) => practised = veteran
    BY DEF Inv, Backfilled
  <2>3. ASSUME Scripts[v0][i0] = "backfill" PROVE practised = veteran
    <3>1. PICK j \in 1 .. i0 - 1 : Scripts[v0][j] = "column"
      BY <1>1, <2>3, ScriptsTyped, BackfillAssumption DEF Versions
    <3>2. j \in 1 .. Len(Scripts[v0]) /\ j < i0
      BY <1>1, ScriptsTyped
    <3>3. Holds(p, v0, j) /\ StrictAt(v0, j)
      BY <1>1, <3>1, <3>2 DEF Holds, Past, StrictAt, Strict
    <3>4. v0 \notin recorded
      BY <1>1, <3>2, <3>3 DEF Inv, Exclusive
    <3>5. HasBackfill(v0)
      BY <1>1, <2>3, ScriptsTyped DEF HasBackfill
    <3> QED BY <1>1, <2>2, <3>4, <3>5
  <2>4. flagged' \subseteq veteran \cup chosen
    BY <1>3, <2>3 DEF Inv, Backfilled
  <2>5. ASSUME NEW v \in Versions, NEW i \in 1 .. Len(Scripts[v]),
               Scripts[v][i] = "backfill",
               v \in recorded \/ \E q \in Migrators : Holds(q, v, i)'
        PROVE  veteran \subseteq flagged'
    <3>1. CASE v = v0 /\ i = i0
      BY <1>3, <2>3, <2>5, <3>1
    <3>2. CASE ~(v = v0 /\ i = i0)
      <4>1. v \in recorded \/ \E q \in Migrators : Holds(q, v, i)
        BY <1>5, <1>6, <2>5, <3>2
      <4>2. veteran \subseteq flagged
        BY <2>5, <4>1 DEF Inv, Backfilled
      <4> QED BY <1>3, <4>2
    <3> QED BY <3>1, <3>2
  <2> QED BY <1>2, <2>1, <2>2, <2>4, <2>5 DEF Backfilled, HasBackfill, Versions
<1> QED BY <1>7, <1>8, <1>9, <1>10, <1>11, <1>12, <1>13 DEF Inv

(***************************************************************************)
(* The loop goes on: what it skips was seen recorded, and what it has just *)
(* recorded (`mine`, or nothing) is in its own transaction.                *)
(***************************************************************************)
LEMMA LoopGoesOn ==
    ASSUME TypeOK, NEW p \in Migrators, NEW mine \in Versions \cup {0},
           NEW known \in SUBSET recorded,
           1 .. mine - 1 \subseteq recorded,
           GoOn(p, {v \in Versions \ known : v > mine})
    PROVE  /\ pc' \in [Migrators -> {"off", "scan", "begin", "script", "record",
                                     "commit", "up"}]
           /\ version' \in [Migrators -> Versions \cup {0}]
           /\ \A q \in Migrators \ {p} : pc'[q] = pc[q] /\ version'[q] = version[q]
           /\ pc'[p] \in {"begin", "commit"}
           /\ pc'[p] = "begin" =>
                  /\ version'[p] \in Versions
                  /\ 1 .. version'[p] - 1 \subseteq recorded \cup {mine}
           /\ pc'[p] = "commit" => Versions \subseteq recorded \cup {mine}
<1> DEFINE pending == {v \in Versions \ known : v > mine}
<1>1. Len(Scripts) \in Nat
  BY ScriptsAssumption
<1>2. \A v \in Versions : v \notin pending => v \in recorded \cup {mine}
  <2> SUFFICES ASSUME NEW v \in Versions, v \notin pending, v \notin known, v # mine
               PROVE  v \in recorded
    OBVIOUS
  <2>1. v \in 1 .. mine - 1
    BY <1>1 DEF Versions
  <2> QED BY <2>1
<1>3. CASE /\ pending = {}
           /\ pc' = [pc EXCEPT ![p] = "commit"]
           /\ version' = version
  BY <1>2, <1>3 DEF TypeOK
<1>4. CASE \E v \in pending : /\ IsNext(v, pending)
                              /\ pc' = [pc EXCEPT ![p] = "begin"]
                              /\ version' = [version EXCEPT ![p] = v]
  <2>1. PICK v \in pending : /\ IsNext(v, pending)
                             /\ pc' = [pc EXCEPT ![p] = "begin"]
                             /\ version' = [version EXCEPT ![p] = v]
    BY <1>4
  <2>2. version'[p] = v /\ v \in Versions
    BY <2>1 DEF TypeOK
  <2>3. ASSUME NEW w \in 1 .. v - 1 PROVE w \in recorded \cup {mine}
    <3>1. w \in Versions /\ ~(v <= w)
      BY <1>1, <2>2 DEF Versions
    <3>2. w \notin pending
      BY <2>1, <3>1 DEF IsNext
    <3> QED BY <1>2, <3>1, <3>2
  <2> QED BY <2>1, <2>2, <2>3 DEF TypeOK
<1> QED BY <1>3, <1>4 DEF GoOn

\* Nothing is held at the start: who holds what changes for nobody else.
LEMMA StartStep ==
    ASSUME Inv, NEW p \in Migrators, Start(p)
    PROVE  Inv'
<1>1. /\ pc' = [pc EXCEPT ![p] = "scan"]
      /\ pc[p] = "off"
      /\ starts < MaxStarts /\ starts' = starts + 1
      /\ UNCHANGED <<recorded, schema, seen, version, next, open, practised,
                     flagged, chosen, veteran, interrupted>>
  BY DEF Start, database, learners
<1>2. \A q \in Migrators : \A v, i : Holds(q, v, i)' <=> Holds(q, v, i)
  BY <1>1 DEF Holds, Past, Inv, TypeOK
<1>3. TypeOK'
  BY <1>1, StartsAssumption DEF Inv, TypeOK, Versions, Statements
<1>4. Placed'
  BY <1>1 DEF Inv, TypeOK, Placed, Versions
<1>5. OneWriter'
  BY <1>1 DEF Inv, OneWriter
<1>6. Durable'
  BY <1>1, <1>2 DEF Inv, Durable, Versions, Statements
<1>7. Exclusive'
  BY <1>1, <1>2 DEF Inv, Exclusive, StrictAt, Versions
<1>8. Traced'
  BY <1>1, <1>2 DEF Inv, Traced, StrictAt, Versions
<1>9. Backfilled'
  BY <1>1, <1>2 DEF Inv, Backfilled, HasBackfill, Versions
<1> QED BY <1>3, <1>4, <1>5, <1>6, <1>7, <1>8, <1>9 DEF Inv

LEMMA ScanStep ==
    ASSUME Inv, NEW p \in Migrators, Scan(p)
    PROVE  Inv'
<1>1. /\ seen' = [seen EXCEPT ![p] = recorded]
      /\ pc[p] = "scan" /\ open[p] = 0
      /\ GoOn(p, Versions \ recorded)
      /\ UNCHANGED <<recorded, schema, next, open, practised, flagged, chosen,
                     veteran, interrupted, starts>>
  BY DEF Scan, database, learners, history, Inv, Placed
<1>2. Versions \ recorded = {v \in Versions \ recorded : v > 0}
  BY ScriptsTyped
<1>3. /\ pc' \in [Migrators -> {"off", "scan", "begin", "script", "record",
                                "commit", "up"}]
      /\ version' \in [Migrators -> Versions \cup {0}]
      /\ \A q \in Migrators \ {p} : pc'[q] = pc[q] /\ version'[q] = version[q]
      /\ pc'[p] \in {"begin", "commit"}
      /\ pc'[p] = "begin" =>
             /\ version'[p] \in Versions
             /\ 1 .. version'[p] - 1 \subseteq recorded \cup {0}
      /\ pc'[p] = "commit" => Versions \subseteq recorded \cup {0}
  <2> DEFINE known == recorded
  <2>1. known \in SUBSET recorded
    OBVIOUS
  <2>2. GoOn(p, {v \in Versions \ known : v > 0})
    BY <1>1, <1>2
  <2>3. 1 .. 0 - 1 \subseteq recorded
    OBVIOUS
  <2>4. TypeOK /\ 0 \in Versions \cup {0}
    BY DEF Inv
  <2> HIDE DEF known
  <2> QED BY <2>1, <2>2, <2>3, <2>4, LoopGoesOn
<1>4. \A q \in Migrators : \A v, i : Holds(q, v, i)' <=> Holds(q, v, i)
  BY <1>1, <1>3 DEF Holds, Past
<1>5. TypeOK'
  BY <1>1, <1>3 DEF Inv, TypeOK, Versions, Statements
<1>6. Placed'
  <2> SUFFICES ASSUME NEW q \in Migrators
               PROVE  Placed!(q)'
    BY DEF Placed
  <2>1. CASE q # p
    BY <1>1, <1>3, <2>1 DEF Inv, TypeOK, Placed, Versions
  <2>2. CASE q = p
    BY <1>1, <1>3, <2>2 DEF Inv, TypeOK, Versions
  <2> QED BY <2>1, <2>2
<1>7. OneWriter'
  BY <1>1 DEF Inv, OneWriter
<1>8. Durable'
  BY <1>1, <1>4 DEF Inv, Durable, Versions, Statements
<1>9. Exclusive'
  BY <1>1, <1>4 DEF Inv, Exclusive, StrictAt, Versions
<1>10. Traced'
  BY <1>1, <1>4 DEF Inv, Traced, StrictAt, Versions
<1>11. Backfilled'
  BY <1>1, <1>4 DEF Inv, Backfilled, HasBackfill, Versions
<1> QED BY <1>5, <1>6, <1>7, <1>8, <1>9, <1>10, <1>11 DEF Inv

(***************************************************************************)
(* A commit makes what the process held recorded; nobody else holds it.    *)
(***************************************************************************)
LEMMA CommitKeeps ==
    ASSUME Inv, NEW p \in Migrators, pc[p] \in {"begin", "commit"},
           recorded' = Committed(p), open' = [open EXCEPT ![p] = 0],
           pc'[p] \in {"script", "up"}, pc'[p] = "script" => next'[p] = 1,
           \A q \in Migrators \ {p} : pc'[q] = pc[q] /\ next'[q] = next[q],
           UNCHANGED <<schema, version, practised, flagged, chosen, veteran, interrupted>>
    PROVE  /\ recorded \subseteq recorded'
           /\ recorded' \subseteq Versions
           /\ \A v \in recorded' : 1 .. v \subseteq recorded'
           /\ OneWriter' /\ Durable' /\ Exclusive' /\ Traced' /\ Backfilled'
<1>1. recorded' = recorded \cup ({open[p]} \ {0})
  BY DEF Committed
<1>2. open'[p] = 0 /\ \A q \in Migrators \ {p} : open'[q] = open[q]
  BY DEF Inv, TypeOK
<1>3. open[p] \in Versions \cup {0}
  BY DEF Inv, TypeOK
<1>4. \A q \in Migrators \ {p} : \A v, i : Holds(q, v, i)' <=> Holds(q, v, i)
  BY <1>2 DEF Holds, Past
<1>5. \A v \in Versions : \A i \in 1 .. Len(Scripts[v]) : ~Holds(p, v, i)'
  BY <1>2, ScriptsTyped DEF Holds, Past
<1>6. \A v \in Versions : \A i \in 1 .. Len(Scripts[v]) : Holds(p, v, i) <=> open[p] = v
  BY DEF Holds, Past
<1>7. recorded \subseteq recorded' /\ recorded' \subseteq Versions
  BY <1>1, <1>3 DEF Inv, TypeOK
<1>8. ASSUME NEW v \in recorded' PROVE 1 .. v \subseteq recorded'
  <2>1. CASE v \in recorded
    BY <1>1, <2>1 DEF Inv, TypeOK
  <2>2. CASE v = open[p] /\ v # 0
    <3>1. 1 .. v - 1 \subseteq recorded
      BY <2>2 DEF Inv, Placed
    <3>2. v \in Nat
      BY <1>3, <2>2, ScriptsTyped
    <3>3. 1 .. v \subseteq (1 .. v - 1) \cup {v}
      BY <3>2
    <3> QED BY <1>1, <2>2, <3>1, <3>3
  <2> QED BY <1>1, <1>8, <2>1, <2>2
<1>9. OneWriter'
  BY <1>2 DEF Inv, OneWriter
<1>10. Durable'
  <2>1. ASSUME NEW v \in recorded' PROVE Statements(v) \subseteq schema
    <3>1. CASE v \in recorded
      BY <3>1 DEF Inv, Durable
    <3>2. CASE v = open[p] /\ v # 0
      BY <1>3, <1>6, <3>2 DEF Inv, Durable, Statements
    <3> QED BY <1>1, <2>1, <3>1, <3>2
  <2>2. ASSUME NEW q \in Migrators, NEW v \in Versions,
               NEW i \in 1 .. Len(Scripts[v]), Holds(q, v, i)'
        PROVE  <<v, i>> \in schema
    <3>1. Holds(q, v, i)
      BY <1>4, <1>5, <2>2
    <3> QED BY <3>1 DEF Inv, Durable
  <2> QED BY <2>1, <2>2 DEF Durable, Statements, Versions
<1>11. Exclusive'
  <2> SUFFICES ASSUME NEW v \in Versions, NEW i \in 1 .. Len(Scripts[v]),
                      NEW q \in Migrators, StrictAt(v, i), Holds(q, v, i)'
               PROVE  /\ v \notin recorded'
                      /\ \A r \in Migrators \ {q} : ~Holds(r, v, i)'
    BY DEF Exclusive, StrictAt, Versions
  <2>1. q # p /\ Holds(q, v, i)
    BY <1>4, <1>5
  <2>2. v \notin recorded /\ \A r \in Migrators \ {q} : ~Holds(r, v, i)
    BY <2>1 DEF Inv, Exclusive
  <2>3. open[p] # v
    BY <1>6, <2>1, <2>2
  <2> QED BY <1>1, <1>4, <1>5, <2>2, <2>3
<1>12. Traced'
  <2> SUFFICES ASSUME NEW v \in Versions \ recorded', NEW i \in 1 .. Len(Scripts[v]),
                      StrictAt(v, i), <<v, i>> \in schema
               PROVE  v \in interrupted \/ \E q \in Migrators : Holds(q, v, i)'
    BY DEF Traced, StrictAt, Versions
  <2>1. v \notin recorded /\ v # open[p]
    BY <1>1, ScriptsTyped
  <2>2. v \in interrupted \/ \E q \in Migrators : Holds(q, v, i)
    BY <2>1 DEF Inv, Traced
  <2> QED BY <1>4, <1>6, <2>1, <2>2
<1>13. Backfilled'
  <2>1. ASSUME NEW v \in Versions, NEW i \in 1 .. Len(Scripts[v]),
               Scripts[v][i] = "backfill",
               v \in recorded' \/ \E q \in Migrators : Holds(q, v, i)'
        PROVE  v \in recorded \/ \E q \in Migrators : Holds(q, v, i)
    BY <1>1, <1>4, <1>5, <1>6, <2>1
  <2> QED BY <1>7, <2>1 DEF Inv, Backfilled, HasBackfill, Versions
<1> QED BY <1>7, <1>8, <1>9, <1>10, <1>11, <1>12, <1>13

LEMMA BeginStep ==
    ASSUME Inv, NEW p \in Migrators, Begin(p)
    PROVE  Inv'
<1>1. /\ pc[p] = "begin"
      /\ recorded' = Committed(p)
      /\ open' = [open EXCEPT ![p] = 0]
      /\ next' = [next EXCEPT ![p] = 1]
      /\ pc' = [pc EXCEPT ![p] = "script"]
      /\ UNCHANGED <<schema, seen, version, practised, flagged, chosen, veteran,
                     interrupted, starts>>
  BY DEF Begin, learners, history
<1>2. /\ pc'[p] = "script" /\ next'[p] = 1 /\ open'[p] = 0
      /\ \A q \in Migrators \ {p} :
             pc'[q] = pc[q] /\ next'[q] = next[q] /\ open'[q] = open[q]
  BY <1>1 DEF Inv, TypeOK
<1>3. /\ recorded \subseteq recorded'
      /\ recorded' \subseteq Versions
      /\ \A v \in recorded' : 1 .. v \subseteq recorded'
      /\ OneWriter' /\ Durable' /\ Exclusive' /\ Traced' /\ Backfilled'
  BY <1>1, <1>2, CommitKeeps
<1>4. TypeOK'
  BY <1>1, <1>3 DEF Inv, TypeOK, Versions, Statements
<1>5. Placed'
  <2> SUFFICES ASSUME NEW q \in Migrators
               PROVE  Placed!(q)'
    BY DEF Placed
  <2>1. CASE q # p
    BY <1>1, <1>2, <1>3, <2>1 DEF Inv, Placed, Versions
  <2>2. CASE q = p
    <3>1. version[p] \in Versions /\ 1 .. version[p] - 1 \subseteq recorded \cup {open[p]}
      BY <1>1 DEF Inv, Placed
    <3>2. 0 \notin 1 .. version[p] - 1
      OBVIOUS
    <3>3. 1 .. version[p] - 1 \subseteq recorded'
      BY <1>1, <3>1, <3>2 DEF Committed
    <3>4. 1 \in 1 .. Len(Scripts[version[p]])
      BY <3>1, ScriptsTyped
    <3>5. seen[p] \subseteq recorded
      BY DEF Inv, Placed
    <3> QED BY <1>1, <1>2, <1>3, <2>2, <3>1, <3>3, <3>4, <3>5 DEF Versions
  <2> QED BY <2>1, <2>2
<1> QED BY <1>3, <1>4, <1>5 DEF Inv

LEMMA CommitStep ==
    ASSUME Inv, NEW p \in Migrators, Commit(p)
    PROVE  Inv'
<1>1. /\ pc[p] = "commit"
      /\ recorded' = Committed(p)
      /\ open' = [open EXCEPT ![p] = 0]
      /\ pc' = [pc EXCEPT ![p] = "up"]
      /\ UNCHANGED <<schema, seen, version, next, practised, flagged, chosen,
                     veteran, interrupted, starts>>
  BY DEF Commit, learners, history
<1>2. /\ pc'[p] = "up" /\ open'[p] = 0
      /\ \A q \in Migrators \ {p} :
             pc'[q] = pc[q] /\ next'[q] = next[q] /\ open'[q] = open[q]
  BY <1>1 DEF Inv, TypeOK
<1>3. /\ recorded \subseteq recorded'
      /\ recorded' \subseteq Versions
      /\ \A v \in recorded' : 1 .. v \subseteq recorded'
      /\ OneWriter' /\ Durable' /\ Exclusive' /\ Traced' /\ Backfilled'
  BY <1>1, <1>2, CommitKeeps
<1>4. TypeOK'
  BY <1>1, <1>3 DEF Inv, TypeOK, Versions, Statements
<1>5. Placed'
  <2> SUFFICES ASSUME NEW q \in Migrators
               PROVE  Placed!(q)'
    BY DEF Placed
  <2>1. CASE q # p
    BY <1>1, <1>2, <1>3, <2>1 DEF Inv, Placed, Versions
  <2>2. CASE q = p
    <3>1. Versions \subseteq recorded \cup {open[p]} /\ seen[p] \subseteq recorded
      BY <1>1 DEF Inv, Placed
    <3>2. 0 \notin Versions
      BY DEF Versions
    <3>3. Versions \subseteq recorded'
      BY <1>1, <3>1, <3>2 DEF Committed
    <3> QED BY <1>1, <1>2, <1>3, <2>2, <3>1, <3>3 DEF Versions
  <2> QED BY <2>1, <2>2
<1> QED BY <1>3, <1>4, <1>5 DEF Inv

\* The INSERT passes what the process has run on to its open transaction.
LEMMA RecordStep ==
    ASSUME Inv, NEW p \in Migrators, Record(p)
    PROVE  Inv'
<1>1. /\ pc[p] = "record" /\ open[p] = 0
      /\ LockFree(p)
      /\ version[p] \in Versions /\ version[p] \notin recorded
      /\ 1 .. version[p] - 1 \subseteq recorded
      /\ seen[p] \subseteq recorded
      /\ open' = [open EXCEPT ![p] = version[p]]
      /\ GoOn(p, {v \in Versions \ seen[p] : v > version[p]})
      /\ UNCHANGED <<recorded, schema, seen, next, practised, flagged, chosen,
                     veteran, interrupted, starts>>
  BY DEF Record, database, learners, history, Inv, Placed
<1>2. /\ pc' \in [Migrators -> {"off", "scan", "begin", "script", "record",
                                "commit", "up"}]
      /\ version' \in [Migrators -> Versions \cup {0}]
      /\ \A q \in Migrators \ {p} : pc'[q] = pc[q] /\ version'[q] = version[q]
      /\ pc'[p] \in {"begin", "commit"}
      /\ pc'[p] = "begin" =>
             /\ version'[p] \in Versions
             /\ 1 .. version'[p] - 1 \subseteq recorded \cup {version[p]}
      /\ pc'[p] = "commit" => Versions \subseteq recorded \cup {version[p]}
  <2> DEFINE known == seen[p]
             mine == version[p]
  <2>1. known \in SUBSET recorded /\ mine \in Versions \cup {0}
    BY <1>1
  <2>2. GoOn(p, {v \in Versions \ known : v > mine}) /\ 1 .. mine - 1 \subseteq recorded
    BY <1>1
  <2>3. TypeOK
    BY DEF Inv
  <2> HIDE DEF known, mine
  <2>4. /\ pc' \in [Migrators -> {"off", "scan", "begin", "script", "record",
                                  "commit", "up"}]
        /\ version' \in [Migrators -> Versions \cup {0}]
        /\ \A q \in Migrators \ {p} : pc'[q] = pc[q] /\ version'[q] = version[q]
        /\ pc'[p] \in {"begin", "commit"}
        /\ pc'[p] = "begin" =>
               /\ version'[p] \in Versions
               /\ 1 .. version'[p] - 1 \subseteq recorded \cup {mine}
        /\ pc'[p] = "commit" => Versions \subseteq recorded \cup {mine}
    BY <2>1, <2>2, <2>3, LoopGoesOn
  <2> QED BY <2>4 DEF mine
<1>3. open'[p] = version[p] /\ \A q \in Migrators \ {p} : open'[q] = 0 /\ open[q] = 0
  BY <1>1 DEF LockFree, Inv, TypeOK
<1>4. \A q \in Migrators \ {p} : \A v, i : Holds(q, v, i)' <=> Holds(q, v, i)
  BY <1>1, <1>2, <1>3 DEF Holds, Past
<1>5. \A v \in Versions : \A i : Holds(p, v, i)' <=> Holds(p, v, i)
  BY <1>1, <1>2, <1>3, ScriptsTyped DEF Holds, Past
<1>6. TypeOK'
  BY <1>1, <1>2 DEF Inv, TypeOK, Versions, Statements
<1>7. Placed'
  <2> SUFFICES ASSUME NEW q \in Migrators
               PROVE  Placed!(q)'
    BY DEF Placed
  <2>1. CASE q # p
    BY <1>1, <1>2, <1>3, <2>1 DEF Inv, Placed, Versions
  <2>2. CASE q = p
    BY <1>1, <1>2, <1>3, <2>2 DEF Versions
  <2> QED BY <2>1, <2>2
<1>8. OneWriter'
  BY <1>3 DEF OneWriter
<1>9. Durable'
  BY <1>1, <1>4, <1>5 DEF Inv, Durable, Versions, Statements
<1>10. Exclusive'
  BY <1>1, <1>4, <1>5 DEF Inv, Exclusive, StrictAt, Versions
<1>11. Traced'
  BY <1>1, <1>4, <1>5 DEF Inv, Traced, StrictAt, Versions
<1>12. Backfilled'
  BY <1>1, <1>4, <1>5 DEF Inv, Backfilled, HasBackfill, Versions
<1> QED BY <1>6, <1>7, <1>8, <1>9, <1>10, <1>11, <1>12 DEF Inv

(***************************************************************************)
(* A process that leaves holds nothing any more. It need only account for  *)
(* the columns it leaves behind.                                           *)
(***************************************************************************)
LEMMA LeavingKeeps ==
    ASSUME Inv, NEW p \in Migrators,
           pc' = [pc EXCEPT ![p] = "off"], open' = [open EXCEPT ![p] = 0],
           interrupted \subseteq interrupted', interrupted' \subseteq Versions,
           UNCHANGED <<recorded, schema, seen, version, next, practised, flagged,
                       chosen, veteran, starts>>,
           \A v \in Versions \ recorded : \A i \in 1 .. Len(Scripts[v]) :
               StrictAt(v, i) /\ Holds(p, v, i) => v \in interrupted'
    PROVE  Inv'
<1>1. /\ pc'[p] = "off" /\ open'[p] = 0
      /\ \A q \in Migrators \ {p} : pc'[q] = pc[q] /\ open'[q] = open[q]
  BY DEF Inv, TypeOK
<1>2. \A q \in Migrators \ {p} : \A v, i : Holds(q, v, i)' <=> Holds(q, v, i)
  BY <1>1 DEF Holds, Past
<1>3. \A v \in Versions : \A i : ~Holds(p, v, i)'
  BY <1>1, ScriptsTyped DEF Holds, Past
<1>4. TypeOK'
  BY DEF Inv, TypeOK, Versions, Statements
<1>5. Placed'
  BY <1>1 DEF Inv, Placed, Versions
<1>6. OneWriter'
  BY <1>1 DEF Inv, OneWriter
<1>7. Durable'
  BY <1>2, <1>3 DEF Inv, Durable, Versions, Statements
<1>8. Exclusive'
  BY <1>2, <1>3 DEF Inv, Exclusive, StrictAt, Versions
<1>9. Traced'
  <2> SUFFICES ASSUME NEW v \in Versions \ recorded, NEW i \in 1 .. Len(Scripts[v]),
                      StrictAt(v, i), <<v, i>> \in schema
               PROVE  v \in interrupted' \/ \E q \in Migrators : Holds(q, v, i)'
    BY DEF Traced, StrictAt, Versions
  <2>1. v \in interrupted \/ \E q \in Migrators : Holds(q, v, i)
    BY DEF Inv, Traced
  <2>2. CASE v \in interrupted
    BY <2>2
  <2>3. ASSUME NEW q \in Migrators, Holds(q, v, i)
        PROVE  v \in interrupted' \/ \E r \in Migrators : Holds(r, v, i)'
    BY <1>2, <2>3
  <2> QED BY <2>1, <2>2, <2>3
<1>10. Backfilled'
  BY <1>2, <1>3 DEF Inv, Backfilled, HasBackfill, Versions
<1> QED BY <1>4, <1>5, <1>6, <1>7, <1>8, <1>9, <1>10 DEF Inv

(***************************************************************************)
(* What a losing process trips over is another's, or a crash's: it has     *)
(* added no column of its own to a version that is still unrecorded.       *)
(***************************************************************************)
LEMMA RaiseStep ==
    ASSUME Inv, NEW p \in Migrators, Raise(p)
    PROVE  Inv'
<1>1. /\ pc' = [pc EXCEPT ![p] = "off"]
      /\ UNCHANGED <<recorded, schema, seen, version, next, open, practised,
                     flagged, chosen, veteran, interrupted, starts>>
      /\ \/ pc[p] = "script" /\ StrictAt(version[p], next[p])
                             /\ <<version[p], next[p]>> \in schema
         \/ pc[p] = "record" /\ version[p] \in recorded
  BY DEF Raise, database, learners, history, StrictAt, KindAt, Current
<1>2. open[p] = 0 /\ open' = [open EXCEPT ![p] = 0]
  BY <1>1 DEF Inv, Placed, TypeOK
<1>3. ASSUME NEW v \in Versions \ recorded, NEW i \in 1 .. Len(Scripts[v]),
             StrictAt(v, i), Holds(p, v, i)
      PROVE  v \in interrupted
  <2>1. Past(p, v, i)
    BY <1>2, <1>3, ScriptsTyped DEF Holds
  <2>2. pc[p] = "script" /\ version[p] = v /\ next[p] > i
    BY <1>1, <2>1 DEF Past
  <2>3. next[p] \in 1 .. Len(Scripts[v])
    BY <2>2 DEF Inv, Placed
  <2>4. v \in interrupted \/ \E q \in Migrators : Holds(q, v, next[p])
    BY <1>1, <2>2, <2>3 DEF Inv, Traced
  <2>5. ASSUME NEW q \in Migrators, Holds(q, v, next[p]) PROVE FALSE
    <3>1. q # p
      BY <1>2, <2>2, <2>3, <2>5, ScriptsTyped DEF Holds, Past
    <3>2. Holds(q, v, i)
      BY <2>2, <2>3, <2>5 DEF Holds, Past, Inv, TypeOK
    <3> QED BY <1>3, <3>1, <3>2 DEF Inv, Exclusive
  <2> QED BY <2>4, <2>5
<1>4. interrupted \subseteq interrupted' /\ interrupted' \subseteq Versions
  BY <1>1 DEF Inv, TypeOK
<1> QED BY <1>1, <1>2, <1>3, <1>4, LeavingKeeps

LEMMA DieStep ==
    ASSUME Inv, NEW p \in Migrators, Die(p)
    PROVE  Inv'
<1>1. /\ pc' = [pc EXCEPT ![p] = "off"]
      /\ open' = [open EXCEPT ![p] = 0]
      /\ interrupted' = interrupted
             \cup (IF pc[p] \in {"script", "record"} THEN {version[p]} ELSE {})
             \cup ({open[p]} \ {0})
      /\ UNCHANGED <<recorded, schema, seen, version, next, practised, flagged,
                     chosen, veteran, starts>>
  BY DEF Die, database, learners
<1>2. interrupted \subseteq interrupted' /\ interrupted' \subseteq Versions
  BY <1>1 DEF Inv, TypeOK, Placed
<1>3. ASSUME NEW v \in Versions \ recorded, NEW i \in 1 .. Len(Scripts[v]),
             StrictAt(v, i), Holds(p, v, i)
      PROVE  v \in interrupted'
  BY <1>1, <1>3, ScriptsTyped DEF Holds, Past
<1> QED BY <1>1, <1>2, <1>3, LeavingKeeps

(***************************************************************************)
(* While somebody serves every version is recorded, so no backfill is left *)
(* to run.                                                                 *)
(***************************************************************************)
LEMMA LearnerStep ==
    ASSUME Inv, NEW l \in Learners, Practise(l) \/ Choose(l)
    PROVE  Inv'
<1>1. /\ UNCHANGED <<recorded, schema, pc, seen, version, next, open, veteran,
                     interrupted, starts>>
      /\ practised \subseteq practised' /\ practised' \subseteq practised \cup {l}
      /\ flagged \subseteq flagged' /\ flagged' \subseteq flagged \cup (chosen' \cap {l})
      /\ chosen \subseteq chosen' /\ chosen' \subseteq chosen \cup {l}
  BY DEF Practise, Choose, database, process, history
<1>2. Versions \subseteq recorded
  BY DEF Practise, Choose, Serving, Inv, Placed
<1>3. \A q \in Migrators : \A v, i : Holds(q, v, i)' <=> Holds(q, v, i)
  BY <1>1 DEF Holds, Past
<1>4. TypeOK'
  BY <1>1 DEF Inv, TypeOK, Versions, Statements
<1>5. Placed' /\ OneWriter'
  BY <1>1 DEF Inv, Placed, OneWriter, Versions
<1>6. Durable' /\ Exclusive' /\ Traced'
  BY <1>1, <1>3 DEF Inv, Durable, Exclusive, Traced, StrictAt, Versions, Statements
<1>7. Backfilled'
  BY <1>1, <1>2, <1>3 DEF Inv, Backfilled, HasBackfill, Versions
<1> QED BY <1>4, <1>5, <1>6, <1>7 DEF Inv

LEMMA NextInv == Inv /\ [Next]_vars => Inv'
<1> SUFFICES ASSUME Inv, [Next]_vars PROVE Inv'
  OBVIOUS
<1>1. ASSUME NEW p \in Migrators, Start(p) PROVE Inv'
  BY <1>1, StartStep
<1>2. ASSUME NEW p \in Migrators, Scan(p) PROVE Inv'
  BY <1>2, ScanStep
<1>3. ASSUME NEW p \in Migrators, Begin(p) PROVE Inv'
  BY <1>3, BeginStep
<1>4. ASSUME NEW p \in Migrators, Statement(p) PROVE Inv'
  BY <1>4, StatementStep
<1>5. ASSUME NEW p \in Migrators, Record(p) PROVE Inv'
  BY <1>5, RecordStep
<1>6. ASSUME NEW p \in Migrators, Raise(p) PROVE Inv'
  BY <1>6, RaiseStep
<1>7. ASSUME NEW p \in Migrators, Commit(p) PROVE Inv'
  BY <1>7, CommitStep
<1>8. ASSUME NEW p \in Migrators, Die(p) PROVE Inv'
  BY <1>8, DieStep
<1>9. ASSUME NEW l \in Learners, Practise(l) \/ Choose(l) PROVE Inv'
  BY <1>9, LearnerStep
<1>10. CASE UNCHANGED vars
  <2>1. UNCHANGED <<recorded, schema, pc, seen, version, next, open, practised,
                    flagged, chosen, veteran, interrupted, starts>>
    BY <1>10 DEF vars, database, process, learners, history
  <2>2. \A q \in Migrators : \A v, i : Holds(q, v, i)' <=> Holds(q, v, i)
    BY <2>1 DEF Holds, Past
  <2>3. TypeOK' /\ OneWriter'
    BY <2>1 DEF Inv, TypeOK, OneWriter, Versions, Statements
  <2>4. Placed'
    BY <2>1 DEF Inv, Placed, Versions
  <2>5. Durable' /\ Exclusive' /\ Traced'
    BY <2>1, <2>2 DEF Inv, Durable, Exclusive, Traced, StrictAt, Versions, Statements
  <2>6. Backfilled'
    BY <2>1, <2>2 DEF Inv, Backfilled, HasBackfill, Versions
  <2> QED BY <2>3, <2>4, <2>5, <2>6 DEF Inv
<1> QED BY <1>1, <1>2, <1>3, <1>4, <1>5, <1>6, <1>7, <1>8, <1>9, <1>10 DEF Next

LEMMA Invariance == Spec => []Inv
BY InitInv, NextInv, PTL DEF Spec

-----------------------------------------------------------------------------
\* What is recorded is a prefix of the list, and every variable has its type.
THEOREM TypeCorrect == Spec => []TypeOK
<1>1. Inv => TypeOK
  BY DEF Inv
<1> QED BY <1>1, Invariance, PTL

(***************************************************************************)
(* A recorded version is wholly durable and a served schema is complete,   *)
(* however many processes migrate at once and wherever they are killed     *)
(* (migrate, and the implicit commits of executescript).                   *)
(***************************************************************************)
THEOREM RecordingIsSound == Spec => []RecordedIsComplete
<1>1. Inv => RecordedIsComplete
  BY DEF Inv, RecordedIsComplete, Durable, Placed
<1> QED BY <1>1, Invariance, PTL

(***************************************************************************)
(* Unless a crash interrupted a script that adds columns, a database that  *)
(* nobody is migrating can be upgraded by the next start: two migrating    *)
(* processes never strand it between them.                                 *)
(***************************************************************************)
THEOREM OnlyColumnsStrand == Spec => []StrandedOnlyInColumns
<1>1. Inv => StrandedOnlyInColumns
  <2> SUFFICES ASSUME Inv, Quiescent,
                      \A v \in interrupted : \A i \in DOMAIN Scripts[v] :
                          Scripts[v][i] # "column",
                      NEW v \in Versions \ recorded, NEW i \in DOMAIN Scripts[v],
                      Strict(Scripts[v][i]), <<v, i>> \in schema
               PROVE  FALSE
    BY DEF StrandedOnlyInColumns
  <2>1. i \in 1 .. Len(Scripts[v])
    BY ScriptsTyped
  <2>2. v \in interrupted \/ \E p \in Migrators : Holds(p, v, i)
    BY <2>1 DEF Inv, Traced, StrictAt
  <2>3. v \notin interrupted
    BY DEF Strict
  <2>4. ASSUME NEW p \in Migrators, Holds(p, v, i) PROVE FALSE
    BY <2>4, ScriptsTyped DEF Holds, Past, Quiescent, Inv, Placed
  <2> QED BY <2>2, <2>3, <2>4
<1> QED BY <1>1, Invariance, PTL

(***************************************************************************)
(* The backfill marks every veteran and no newcomer: its UPDATE never runs *)
(* while the application serves, because the column it fills is added by   *)
(* one process only, right before (migration 004).                         *)
(***************************************************************************)
THEOREM BackfillIsExact == Spec => []OnlyVeteransBackfilled
<1>1. Inv => OnlyVeteransBackfilled
  <2> SUFFICES ASSUME Inv, NEW v \in recorded, HasBackfill(v)
               PROVE  veteran \subseteq flagged
    BY DEF OnlyVeteransBackfilled, Inv, Backfilled
  <2>1. v \in Versions
    BY DEF Inv, TypeOK
  <2>2. PICK i \in 1 .. Len(Scripts[v]) : Scripts[v][i] = "backfill"
    BY <2>1, ScriptsTyped DEF HasBackfill
  <2> QED BY <2>1, <2>2 DEF Inv, Backfilled
<1> QED BY <1>1, Invariance, PTL
=============================================================================
