-------------------------------- MODULE Reading --------------------------------
(***************************************************************************)
(* The read-aloud exercise after the passage has been read: score_reading  *)
(* of coldpath/reading.py over difflib's alignment, the reading_attempts   *)
(* table and the handlers of api/reading.py. A text is the sequence of its *)
(* words; a percentage, a rate and a duration that is shown are in tenths, *)
(* a WER in thousandths. The duration a client sends is any number: it is  *)
(* in parts of a tenth of a second, as fine as Finer says. Blank stands    *)
(* for a value the code leaves out.                                        *)
(***************************************************************************)
EXTENDS Listing

CONSTANTS
    Passages,     \* texts that are read, some with no word in them
    Transcripts,  \* what the recogniser may hear
    Finer,        \* parts of a tenth of a second, in which a client measures
    Durations,    \* durations of an attempt, or Blank
    ShownWords,   \* words listed in an answer (40)
    ShownPairs,   \* substitutions listed (20)
    HistoryRows,  \* attempts the history lists (50)
    MaxAttempts,  \* bound: attempts stored
    Blank

\* No more than what the handlers are given: words, and a duration that is not
\* negative or was left out.
ASSUME ReadingAssumption ==
    /\ \A text \in Passages \cup Transcripts : text \in Seq(ToSet(text))
    /\ Finer \in Nat \ {0}
    /\ Durations \subseteq Nat \cup {Blank}
    /\ Blank \notin Int

VARIABLES
    attempts,  \* reading_attempts of a learner, in the order they were made
    answer     \* the last answer, with what it was asked

readingVars == <<attempts, answer>>

-----------------------------------------------------------------------------
(* difflib.SequenceMatcher: the longest run of words the two have in       *)
(* common, the earliest of several, then the same on both sides of it.     *)

\* Mutant: words of b are matched wherever they stand.
MatchesAnywhere(a, b, I, J) ==
    {m \in [i : I, j : DOMAIN b, size : 1 .. Len(a)] :
        /\ m.i + m.size - 1 \in I /\ m.j + m.size - 1 \in DOMAIN b
        /\ \A k \in 0 .. m.size - 1 : a[m.i + k] = b[m.j + k]}

Matches(a, b, I, J) ==
    {m \in [i : I, j : J, size : 1 .. Len(a)] :
        /\ m.i + m.size - 1 \in I /\ m.j + m.size - 1 \in J
        /\ \A k \in 0 .. m.size - 1 : a[m.i + k] = b[m.j + k]}

Better(m, n) ==
    \/ m.size > n.size
    \/ m.size = n.size /\ m.i < n.i
    \/ m.size = n.size /\ m.i = n.i /\ m.j <= n.j

Longest(found) == CHOOSE m \in found : \A n \in found : Better(m, n)

\* Within the places I and J of a and b: a match leaves fewer words of a, so that
\* as many steps are enough as a has words.
get_matching_blocks(a, b) ==
    LET within[n \in 0 .. Len(a)] ==
            [r \in (SUBSET DOMAIN a) \X (SUBSET DOMAIN b) |->
                LET found == Matches(a, b, r[1], r[2])
                    m == Longest(found)
                    before == <<{i \in r[1] : i < m.i}, {j \in r[2] : j < m.j}>>
                    after == <<{i \in r[1] : i >= m.i + m.size},
                               {j \in r[2] : j >= m.j + m.size}>>
                IN  IF n = 0 \/ found = {} THEN <<>>
                    ELSE within[n - 1][before] \o <<m>> \o within[n - 1][after]]
    IN  within[Len(a)][<<DOMAIN a, DOMAIN b>>]

\* get_opcodes: what lies before each block, and after the last.
get_opcodes(a, b, blocks) ==
    LET From(k) == IF k = 1 THEN [i |-> 1, j |-> 1]
                   ELSE [i |-> blocks[k - 1].i + blocks[k - 1].size,
                         j |-> blocks[k - 1].j + blocks[k - 1].size]
        To(k) == IF k > Len(blocks) THEN [i |-> Len(a), j |-> Len(b)]
                 ELSE [i |-> blocks[k].i - 1, j |-> blocks[k].j - 1]
    IN  [k \in 1 .. Len(blocks) + 1 |->
            [missed |-> SubSeq(a, From(k).i, To(k).i),
             added |-> SubSeq(b, From(k).j, To(k).j)]]

-----------------------------------------------------------------------------
(* score_reading.                                                          *)

Pace(wpm) ==
    CASE wpm = Blank -> Blank
      [] wpm # Blank /\ wpm < 600 -> "slow"
      [] wpm # Blank /\ wpm \in 600 .. 900 -> "measured"
      [] wpm # Blank /\ wpm \in 901 .. 1700 -> "natural"
      [] OTHER -> "rushed"

verdict(accuracy) ==
    CASE accuracy = Blank -> "nothing"
      [] accuracy # Blank /\ accuracy >= 950 -> "excellent"
      [] accuracy # Blank /\ accuracy \in 850 .. 949 -> "good"
      [] accuracy # Blank /\ accuracy \in 700 .. 849 -> "understandable"
      [] OTHER -> "drifted"

Compared(ref, said, duration, blocks, ops) ==
    LET matched == SumOf([k \in DOMAIN blocks |-> blocks[k].size])
        missed == FlattenSeq([k \in DOMAIN ops |-> ops[k].missed])
        added == FlattenSeq([k \in DOMAIN ops |-> ops[k].added])
        pairs == FlattenSeq([k \in DOMAIN ops |-> Zip(ops[k].missed, ops[k].added)])
        accuracy == IF ref = <<>> THEN Blank ELSE Rounded(1000 * matched, Len(ref))
        wpm == IF duration \in {Blank, 0} \/ matched = 0 THEN Blank
               ELSE Rounded(6000 * Finer * matched, duration)
    IN  [reference_words |-> Len(ref),
         spoken_words |-> Len(said),
         matched_words |-> matched,
         accuracy |-> accuracy,
         wer |-> IF ref = <<>> THEN Blank
                 ELSE Rounded(1000 * (Len(missed) + Len(added)), Len(ref)),
         wpm |-> wpm,
         pace |-> Pace(wpm),
         duration_s |-> IF duration \in {Blank, 0} THEN Blank
                        ELSE Rounded(duration, Finer),
         missed_words |-> First(ShownWords, missed),
         extra_words |-> First(ShownWords, added),
         substitutions |-> First(ShownPairs, pairs),
         verdict |-> verdict(accuracy)]

score_reading(ref, said, duration) ==
    LET blocks == get_matching_blocks(ref, said)
    IN  Compared(ref, said, duration, blocks, get_opcodes(ref, said, blocks))

-----------------------------------------------------------------------------
(* ReadingRepository and the handlers.                                     *)

\* The columns of an attempt; the words themselves are not stored.
Row(result) == [column \in {"accuracy", "wpm", "reference_words", "duration_s"} |->
                   result[column]]

\* AVG, MAX and SUM pass over NULL.
Stored(column) == {i \in DOMAIN attempts : attempts[i][column] # Blank}
Total(column, S) == SumOf([i \in S |-> attempts[i][column]])
Mean(column) == IF Stored(column) = {} THEN Blank
                ELSE Average([i \in Stored(column) |-> attempts[i][column]])

summary ==
    LET scored == Kept([i \in DOMAIN attempts |-> attempts[i].accuracy],
                       Stored("accuracy"))
        half == Len(scored) \div 2
        sum(S) == SumOf([i \in S |-> scored[i]])
        older == 1 .. half
        newer == half + 1 .. Len(scored)
    IN  [attempts |-> Len(attempts),
         avg_accuracy |-> Mean("accuracy"),
         best_accuracy |-> IF scored = <<>> THEN Blank ELSE Max(ToSet(scored)),
         avg_wpm |-> Mean("wpm"),
         total_seconds |-> IF Stored("duration_s") = {} THEN Blank
                           ELSE Total("duration_s", Stored("duration_s")),
         words_read |-> Total("reference_words", DOMAIN attempts),
         delta |-> IF half = 0 THEN Blank
                   ELSE Rounded(sum(newer) * half - sum(older) * (Len(scored) - half),
                                half * (Len(scored) - half))]

reading_history ==
    [summary |-> summary,
     attempts |-> First(HistoryRows, Reverse(attempts))]

ReadingInit ==
    /\ attempts = <<>>
    /\ answer = Blank

\* The result is answered even when it could not be stored.
ScoreAttempt(ref, said, duration) ==
    \E result \in {score_reading(ref, said, duration)}, stored \in BOOLEAN :
        /\ stored => Len(attempts) < MaxAttempts
        /\ attempts' = IF stored THEN Append(attempts, Row(result)) ELSE attempts
        /\ answer' = [ref |-> ref, said |-> said, result |-> result, stored |-> stored]

score_attempt ==
    \E ref \in Passages, said \in Transcripts, duration \in Durations :
        ScoreAttempt(ref, said, duration)

ReadingSpec == ReadingInit /\ [][score_attempt]_readingVars

-----------------------------------------------------------------------------
(* Properties.                                                             *)

\* The rate beside the duration: that of so many words at most. Each of the two is
\* rounded by itself, by half a tenth at most.
NoFaster(r, words) ==
    (2 * r.duration_s - 1) * (2 * r.wpm - 1) <= 24000 * words

\* What is counted adds up, in the order it was read: every word of the passage
\* is matched or missed once and every word heard is matched or extra once, the
\* matched ones stand in both texts in one order, and the rate does not exceed
\* what reading the whole passage in the time shown beside it would give. The
\* passage itself has neither omissions nor additions, and nothing else is shown
\* as free of errors, unless it is so long that one wrong word is rounded away.
\* An attempt that could not be stored is still answered.
\* reading.py:121-184, api/reading.py:91-101
AttemptAddsUp ==
    answer # Blank =>
    LET ref == answer.ref
        said == answer.said
        r == answer.result
        ops == get_opcodes(ref, said, get_matching_blocks(ref, said))
    IN  /\ r.matched_words + SumOf([k \in DOMAIN ops |-> Len(ops[k].missed)]) = Len(ref)
        /\ r.matched_words + SumOf([k \in DOMAIN ops |-> Len(ops[k].added)]) = Len(said)
        /\ \E I \in SUBSET DOMAIN ref :
              /\ Cardinality(I) = r.matched_words
              /\ \E heard \in [I -> DOMAIN said] :
                    /\ \A i \in I : said[heard[i]] = ref[i]
                    /\ \A i, k \in I : i < k => heard[i] < heard[k]
        /\ ref = said /\ ref # <<>> => r.accuracy = 1000 /\ r.wer = 0
        /\ r.accuracy = 1000 /\ r.wer = 0 /\ Len(ref) < 2000 => ref = said
        /\ r.wpm # Blank => NoFaster(r, Len(ref))
        /\ answer.stored => Last(attempts) = Row(r)

\* The average and the improvement the history reports lie within what was
\* measured, and it takes two scored attempts to report an improvement.
\* repositories.py:561-596
HistoryAddsUp ==
    LET seen == {attempts[i].accuracy : i \in Stored("accuracy")}
    IN  /\ seen # {} => summary.avg_accuracy \in Min(seen) .. Max(seen)
        /\ summary.delta = Blank <=> Cardinality(Stored("accuracy")) < 2
        /\ summary.delta # Blank =>
              summary.delta \in Min(seen) - Max(seen) .. Max(seen) - Min(seen)

\* What is told of the attempts at reading aloud.
ReadingAddsUp == AttemptAddsUp /\ HistoryAddsUp
=============================================================================
