----------------------------- MODULE Migrations -----------------------------
(***************************************************************************)
(* backend/persistence/migrations.py: every process that opens the         *)
(* database (the server's lifespan, scripts/seed_user.py) first applies    *)
(* the migrations not yet recorded. Several may start at once, and each    *)
(* may be killed anywhere.                                                 *)
(*                                                                         *)
(* sqlite3 decides what is durable when: executescript commits what is     *)
(* open and then autocommits each of its statements; the INSERT that       *)
(* records a version opens a transaction, holds the write lock, and lasts  *)
(* until the next executescript or the connection's final commit. A writer *)
(* waits for the lock (busy_timeout; a lock held for that long is left     *)
(* out: there is no await between an INSERT and its commit).               *)
(*                                                                         *)
(* A statement is named <<version, position>>; an index belongs to its     *)
(* table's statement. Of the data only what migration 004 rewrites is      *)
(* kept: who has been assessed and whose level_selected is 1.              *)
(***************************************************************************)
EXTENDS Integers, Sequences

CONSTANTS
    Scripts,    \* the scripts of MIGRATIONS: for each version, its statements
    Migrators,  \* the processes that open the database
    Learners,
    MaxStarts   \* bound: process starts

\* CREATE TABLE IF NOT EXISTS; ALTER TABLE ADD COLUMN; UPDATE of old rows
Kinds == {"create", "column", "backfill"}

ASSUME ScriptsAssumption == Scripts \in Seq(Seq(Kinds) \ {<<>>})
\* A backfill fills a column its own script has just added.
ASSUME BackfillAssumption ==
    \A v \in DOMAIN Scripts : \A i \in DOMAIN Scripts[v] :
        Scripts[v][i] = "backfill" => \E j \in 1 .. i - 1 : Scripts[v][j] = "column"
ASSUME StartsAssumption == MaxStarts \in Nat

Versions == 1 .. Len(Scripts)
Statements(v) == {<<v, i>> : i \in 1 .. Len(Scripts[v])}

\* Mutant: the tables are created without IF NOT EXISTS.
StrictCreate(kind) == kind \in {"create", "column"}

\* The statements that raise when their effect is already there.
Strict(kind) == kind = "column"

VARIABLES
    recorded,    \* table schema_migrations, durable
    schema,      \* the statements whose effect is durable
    pc,          \* where each process is in migrate; "up" is past it
    seen,        \* the `done` set it read
    version,     \* the version it is applying
    next,        \* the statement of that version to run
    open,        \* the version its open transaction records, 0 for none
    practised,   \* learners with an assessment
    flagged,     \* learners whose level_selected is 1
    chosen,      \* learners who chose their level themselves
    veteran,     \* learners with an assessment before this build first ran
    interrupted, \* versions a crash has interrupted
    starts

database == <<recorded, schema>>
process == <<pc, seen, version, next, open>>
learners == <<practised, flagged, chosen>>
history == <<veteran, interrupted, starts>>
vars == <<database, process, learners, history>>

HasBackfill(v) == \E i \in DOMAIN Scripts[v] : Scripts[v][i] = "backfill"

\* A database as some earlier build left it, or an empty one.
Init ==
    /\ \E n \in 0 .. Len(Scripts) : recorded = 1 .. n
    /\ schema = UNION {Statements(v) : v \in recorded}
    /\ practised \in SUBSET Learners
    /\ recorded = {} => practised = {}
    /\ flagged = IF \E v \in recorded : HasBackfill(v) THEN practised ELSE {}
    /\ chosen = {}
    /\ veteran = practised
    /\ pc = [p \in Migrators |-> "off"]
    /\ seen = [p \in Migrators |-> {}]
    /\ version = [p \in Migrators |-> 0]
    /\ next = [p \in Migrators |-> 1]
    /\ open = [p \in Migrators |-> 0]
    /\ interrupted = {}
    /\ starts = 0

\* No other process is inside a write transaction.
LockFree(p) == \A q \in Migrators \ {p} : open[q] = 0

Start(p) ==
    /\ pc[p] = "off"
    /\ starts < MaxStarts
    /\ starts' = starts + 1
    /\ pc' = [pc EXCEPT ![p] = "scan"]
    /\ UNCHANGED <<database, seen, version, next, open, learners, veteran, interrupted>>

\* Mutant: newest first.
IsNewest(v, pending) == \A w \in pending : w <= v

IsNext(v, pending) == \A w \in pending : v <= w

\* The loop goes on to the first version it has not seen recorded, or is over.
GoOn(p, pending) ==
    \/ /\ pending = {}
       /\ pc' = [pc EXCEPT ![p] = "commit"]
       /\ version' = version
    \/ \E v \in pending :
         /\ IsNext(v, pending)
         /\ pc' = [pc EXCEPT ![p] = "begin"]
         /\ version' = [version EXCEPT ![p] = v]

\* The versions table is created if need be and read, once.
Scan(p) ==
    /\ pc[p] = "scan"
    /\ seen' = [seen EXCEPT ![p] = recorded]
    /\ GoOn(p, Versions \ recorded)
    /\ UNCHANGED <<database, next, open, learners, history>>

Committed(p) == recorded \cup ({open[p]} \ {0})

\* Mutant: the version is recorded before its script runs.
BeginRecords(p) ==
    /\ pc[p] = "begin"
    /\ recorded' = Committed(p) \cup {version[p]}
    /\ open' = [open EXCEPT ![p] = 0]
    /\ next' = [next EXCEPT ![p] = 1]
    /\ pc' = [pc EXCEPT ![p] = "script"]
    /\ UNCHANGED <<schema, seen, version, learners, history>>

\* executescript first commits the transaction that recorded the last version.
Begin(p) ==
    /\ pc[p] = "begin"
    /\ recorded' = Committed(p)
    /\ open' = [open EXCEPT ![p] = 0]
    /\ next' = [next EXCEPT ![p] = 1]
    /\ pc' = [pc EXCEPT ![p] = "script"]
    /\ UNCHANGED <<schema, seen, version, learners, history>>

Current(p) == <<version[p], next[p]>>
KindAt(p) == Scripts[version[p]][next[p]]

\* Mutant: a column that is already there is not an error.
StatementTolerant(p) ==
    /\ pc[p] = "script"
    /\ LockFree(p)
    /\ schema' = schema \cup {Current(p)}
    /\ flagged' = IF KindAt(p) = "backfill" THEN flagged \cup practised ELSE flagged
    /\ next' = [next EXCEPT ![p] = @ + 1]
    /\ pc' = IF next[p] = Len(Scripts[version[p]])
             THEN [pc EXCEPT ![p] = "record"] ELSE pc
    /\ UNCHANGED <<recorded, seen, version, open, practised, chosen, history>>

\* One statement of the script, durable as soon as it has run.
Statement(p) ==
    /\ pc[p] = "script"
    /\ LockFree(p)
    /\ ~(Strict(KindAt(p)) /\ Current(p) \in schema)
    /\ schema' = schema \cup {Current(p)}
    /\ flagged' = IF KindAt(p) = "backfill" THEN flagged \cup practised ELSE flagged
    /\ next' = [next EXCEPT ![p] = @ + 1]
    /\ pc' = IF next[p] = Len(Scripts[version[p]])
             THEN [pc EXCEPT ![p] = "record"] ELSE pc
    /\ UNCHANGED <<recorded, seen, version, open, practised, chosen, history>>

\* The INSERT: durable only with the next commit.
Record(p) ==
    /\ pc[p] = "record"
    /\ LockFree(p)
    /\ version[p] \notin recorded
    /\ open' = [open EXCEPT ![p] = version[p]]
    /\ GoOn(p, {v \in Versions \ seen[p] : v > version[p]})
    /\ UNCHANGED <<database, seen, next, learners, history>>

\* "duplicate column name", or a second row for the version: the connection
\* rolls back, migrate raises, and the process does not come up.
Raise(p) ==
    /\ \/ pc[p] = "script" /\ Strict(KindAt(p)) /\ Current(p) \in schema
       \/ pc[p] = "record" /\ LockFree(p) /\ version[p] \in recorded
    /\ pc' = [pc EXCEPT ![p] = "off"]
    /\ UNCHANGED <<database, seen, version, next, open, learners, history>>

\* db.connection's commit: the process goes on to serve.
Commit(p) ==
    /\ pc[p] = "commit"
    /\ recorded' = Committed(p)
    /\ open' = [open EXCEPT ![p] = 0]
    /\ pc' = [pc EXCEPT ![p] = "up"]
    /\ UNCHANGED <<schema, seen, version, next, learners, history>>

\* The process is killed, or a running one stops. An open INSERT is gone.
Die(p) ==
    /\ pc[p] # "off"
    /\ pc' = [pc EXCEPT ![p] = "off"]
    /\ open' = [open EXCEPT ![p] = 0]
    /\ interrupted' = interrupted
           \cup (IF pc[p] \in {"script", "record"} THEN {version[p]} ELSE {})
           \cup ({open[p]} \ {0})
    /\ UNCHANGED <<database, seen, version, next, learners, veteran, starts>>

Serving == /\ \E p \in Migrators : pc[p] = "up"
           /\ \A p \in Migrators : open[p] = 0

\* A learner is assessed, or chooses a level (POST /users/{id}/level).
Practise(l) ==
    /\ Serving
    /\ practised' = practised \cup {l}
    /\ UNCHANGED <<database, process, flagged, chosen, history>>

Choose(l) ==
    /\ Serving
    /\ flagged' = flagged \cup {l}
    /\ chosen' = chosen \cup {l}
    /\ UNCHANGED <<database, process, practised, history>>

Next ==
    \/ \E p \in Migrators :
         \/ Start(p) \/ Scan(p) \/ Begin(p) \/ Statement(p) \/ Record(p)
         \/ Raise(p) \/ Commit(p) \/ Die(p)
    \/ \E l \in Learners : Practise(l) \/ Choose(l)

Spec == Init /\ [][Next]_vars

-----------------------------------------------------------------------------
\* Migrations are forward-only: what is recorded is a prefix of the list.
TypeOK ==
    /\ recorded \subseteq Versions /\ \A v \in recorded : 1 .. v \subseteq recorded
    /\ schema \subseteq UNION {Statements(v) : v \in Versions}
    /\ pc \in [Migrators -> {"off", "scan", "begin", "script", "record", "commit", "up"}]
    /\ seen \in [Migrators -> SUBSET Versions]
    /\ version \in [Migrators -> Versions \cup {0}]
    /\ next \in [Migrators -> Nat \ {0}]
    /\ open \in [Migrators -> Versions \cup {0}]
    /\ practised \subseteq Learners /\ flagged \subseteq Learners
    /\ chosen \subseteq Learners /\ veteran \subseteq Learners
    /\ interrupted \subseteq Versions
    /\ starts \in 0 .. MaxStarts

(***************************************************************************)
(* A version is recorded only once its whole script is durable, and a      *)
(* process serves only a complete schema, whatever other process migrates  *)
(* or dies meanwhile (migrate skips a recorded version for good).          *)
(***************************************************************************)
RecordedIsComplete ==
    /\ \A v \in recorded : Statements(v) \subseteq schema
    /\ \A p \in Migrators : pc[p] = "up" =>
           \A v \in Versions : Statements(v) \subseteq schema

Quiescent == \A p \in Migrators : pc[p] \in {"off", "up"}

(***************************************************************************)
(* Two processes that migrate at once, and a crash inside a script of      *)
(* CREATE ... IF NOT EXISTS, leave a database the next start can upgrade:  *)
(* no unrecorded version would raise. Only a crash in a script that adds   *)
(* columns strands the database.                                           *)
(***************************************************************************)
StrandedOnlyInColumns ==
    (Quiescent /\ \A v \in interrupted : \A i \in DOMAIN Scripts[v] :
                      Scripts[v][i] # "column")
        => \A v \in Versions \ recorded : \A i \in DOMAIN Scripts[v] :
               Strict(Scripts[v][i]) => <<v, i>> \notin schema

(***************************************************************************)
(* Migration 004 marks the learners who had already been assessed, all of  *)
(* them, and never one who joined later (migrations.py:138-144): a late or *)
(* repeated UPDATE would take the question away from a newcomer.           *)
(***************************************************************************)
OnlyVeteransBackfilled ==
    /\ flagged \subseteq veteran \cup chosen
    /\ (\E v \in recorded : HasBackfill(v)) => veteran \subseteq flagged

(***************************************************************************)
(* "migrate applies any not yet recorded, inside a transaction"            *)
(* (migrations.py:4): when nobody is migrating, a version is either        *)
(* recorded with all its effects or has left none.                         *)
(***************************************************************************)
AllOrNothing ==
    Quiescent => \A v \in Versions :
        IF v \in recorded THEN Statements(v) \subseteq schema
                          ELSE Statements(v) \cap schema = {}
=============================================================================
