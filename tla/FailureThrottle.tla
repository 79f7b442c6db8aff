--------------------------- MODULE FailureThrottle ---------------------------
(***************************************************************************)
(* core/throttle.py: failures counted per key in a rolling window, a       *)
(* lockout when there are too many, a bounded table. Every method holds    *)
(* the lock of the throttle from its first read to its last write, so each *)
(* is one step. Both dictionaries are functions on the keys they hold.     *)
(*                                                                         *)
(* Time is relative: a failure is its age and a lockout the time it has    *)
(* left. Ages stop at Window + 1, which no comparison tells from more.     *)
(***************************************************************************)
EXTENDS Integers, Sequences, FiniteSets, SequencesExt

CONSTANTS
    Keys,         \* what failures are counted for
    MaxFailures,  \* auth_max_failed_logins
    Window,       \* auth_failure_window_s
    Lockout,      \* auth_lockout_s
    MaxKeys       \* _MAX_TRACKED_KEYS

\* Field(ge=1) in settings.py for the limits; the table holds at least one key.
ASSUME ThrottleAssumption ==
    /\ MaxFailures \in Nat \ {0} /\ Window \in Nat \ {0}
    /\ Lockout \in Nat \ {0} /\ MaxKeys \in Nat \ {0}

VARIABLES
    failures,   \* key |-> ages of its failures, oldest first
    lockedFor   \* key |-> time left of its lockout, 0 once it is over

throttleVars == <<failures, lockedFor>>

Tracked == DOMAIN failures
Locked(k) == k \in DOMAIN lockedFor /\ lockedFor[k] > 0

Without(f, gone) == [k \in DOMAIN f \ gone |-> f[k]]
With(f, k, x) == [j \in DOMAIN f \cup {k} |-> IF j = k THEN x ELSE f[j]]

ThrottleInit ==
    /\ failures = [k \in {} |-> <<>>]
    /\ lockedFor = [k \in {} |-> 0]

\* Mutant: asking during a lockout starts it again.
RetryProlongs(k) ==
    /\ failures' = failures
    /\ lockedFor' = IF Locked(k) THEN With(lockedFor, k, Lockout) ELSE lockedFor

\* An expired lockout is dropped with the failures that led to it.
RetryAfter(k) ==
    LET served == IF k \in DOMAIN lockedFor /\ ~Locked(k) THEN {k} ELSE {} IN
    /\ failures' = Without(failures, served)
    /\ lockedFor' = Without(lockedFor, served)

Forget(k) ==
    /\ failures' = Without(failures, {k})
    /\ lockedFor' = Without(lockedFor, {k})

\* _evict_if_crowded: the keys a full table loses before a failure is noted.
\* Of equally old ones dict order decides, which the model leaves open.
Stale == {k \in Tracked : Last(failures[k]) > Window /\ ~Locked(k)}
Oldest(tracked) ==
    {k \in tracked : \A j \in tracked : Last(failures[j]) <= Last(failures[k])}
\* Mutant: entries with nothing live in them go, and no other.
EvictStale == IF Cardinality(Tracked) < MaxKeys THEN {{}} ELSE {Stale}

Evictions ==
    IF Cardinality(Tracked) < MaxKeys THEN {{}}
    ELSE IF Cardinality(Tracked \ Stale) < MaxKeys THEN {Stale}
    ELSE {Stale \cup {k} : k \in Oldest(Tracked \ Stale)}

\* The failures with one more, without those at the front that are too old.
Recorded(attempts) ==
    LET all == Append(attempts, 0)
        over == {i \in DOMAIN all : \A j \in 1 .. i : all[j] > Window}
    IN  SubSeq(all, Cardinality(over) + 1, Len(all))

RecordFailure(k) ==
    \E gone \in Evictions :
        LET kept == Without(failures, gone)
            locks == Without(lockedFor, gone)
            attempts == Recorded(IF k \in DOMAIN kept THEN kept[k] ELSE <<>>)
        IN  /\ failures' = With(kept, k, attempts)
            /\ lockedFor' = IF Len(attempts) >= MaxFailures
                            THEN With(locks, k, Lockout) ELSE locks

\* The clock.
ThrottleTick ==
    /\ failures' = [k \in Tracked |->
                       [i \in DOMAIN failures[k] |->
                           IF failures[k][i] > Window THEN Window + 1
                           ELSE failures[k][i] + 1]]
    /\ lockedFor' = [k \in DOMAIN lockedFor |->
                        IF lockedFor[k] = 0 THEN 0 ELSE lockedFor[k] - 1]

ThrottleTypeOK ==
    /\ Tracked \subseteq Keys
    /\ \A k \in Tracked : failures[k] \in Seq(0 .. Window + 1) /\ failures[k] # <<>>
    /\ DOMAIN lockedFor \subseteq Keys
    /\ \A k \in DOMAIN lockedFor : lockedFor[k] \in 0 .. Lockout

\* The table stays within its limit, and a lockout is only ever kept for a key
\* the table holds: _evict_if_crowded looks at the failures alone, so a lockout
\* of an untracked key would never be evicted (throttle.py:79-102).
TableBounded ==
    /\ Cardinality(Tracked) <= MaxKeys
    /\ DOMAIN lockedFor \subseteq Tracked
=============================================================================
