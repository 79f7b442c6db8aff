----------------------------- MODULE WsSession -----------------------------
(***************************************************************************)
(* One live session: the WebSocket handler of hotpath/ws_session.py with   *)
(* its reader task, the segmenter of hotpath/vad.py and the turn it runs   *)
(* through hotpath/pipeline.py.                                            *)
(*                                                                         *)
(* The reader and the loop are two coroutines of one event loop. A step of *)
(* the loop is what it does between two awaits that can really suspend:    *)
(* waiting for a message, for the transcript, for a phrase, for a chunk of *)
(* speech. The stop flag is looked at when an event of the turn arrives,   *)
(* never while the stage behind it is running.                             *)
(*                                                                         *)
(* Audio arrives in messages of up to FrameUnits units, which need not be  *)
(* aligned with the VAD's frames of FrameUnits units. A unit               *)
(* carries whether it is speech and its epoch, the take it was recorded    *)
(* for: a discard begins a new one, and so does the button of push-to-talk.*)
(* The crash of the process and the separate transactions of _finalize are *)
(* in ColdPath.                                                            *)
(***************************************************************************)
EXTENDS Integers, Sequences, FiniteSets, SequencesExt

CONSTANTS
    FrameUnits,   \* frame_bytes, in units
    MinUnits,     \* shortest take of push-to-talk, in units
    MinSpeech,    \* Segmenter.min_speech_frames
    Hangover,     \* Segmenter.silence_hangover_frames
    MaxPhrases,   \* bound: phrases of one reply
    MaxSent       \* bound: messages the client sends

ASSUME FrameAssumption == FrameUnits \in Nat \ {0}
ASSUME BoundsAssumption == MaxPhrases \in Nat /\ MaxSent \in Nat
\* max(1, ...) in Segmenter; the sample rate makes a minimum take non-empty.
ASSUME SegmenterAssumption ==
    /\ MinSpeech \in Nat \ {0} /\ Hangover \in Nat \ {0} /\ MinUnits \in Nat \ {0}

VARIABLES
    ptt,         \* ?ptt=: the button ends the turn, not the silence
    reply,       \* ?reply=: FALSE in reading practice
    client,      \* "open", "done" (has said bye) or "left"
    sent,        \* messages the client has sent
    epoch,       \* the take the client is recording
    wire,        \* messages on their way to the server
    reader,      \* the reader task: "off", "reading" or "done"
    inbox,       \* the asyncio.Queue between reader and loop
    stop,        \* the asyncio.Event: bye or disconnect was read
    loop,        \* where the handler is
    pending,     \* bytes received and not yet cut into frames (or ended)
    seg,         \* the segmenter
    turn,        \* the running turn: its audio and what was said in it
    history,     \* TurnContext.history: whose turn each entry is
    session,     \* the sessions row: "none", "open" or "ended"
    out,         \* every message sent to the client, by type
    asked,       \* takes the client is owed a closing message for
    utterances,  \* audio of the learner utterances persisted
    published    \* number of UtteranceFinalized events published

clientVars == <<client, sent, epoch>>
query == <<ptt, reply>>
results == <<utterances, published>>
vars == <<query, clientVars, wire, reader, inbox, stop, loop, pending, seg, turn,
          history, session, out, asked, results>>

Control == {"end", "discard", "bye", "garbage", "array"}
Message(kind, units) == [kind |-> kind, units |-> units]

EmptySeg == [buf |-> <<>>, speech |-> 0, silence |-> 0, in |-> FALSE]
NoTurn == [audio |-> <<>>, heard |-> FALSE, phrases |-> 0]

Init ==
    /\ ptt \in BOOLEAN
    /\ reply \in BOOLEAN
    /\ client = "open"
    /\ sent = 0
    /\ epoch = 0
    /\ wire = <<>>
    /\ reader = "off"
    /\ inbox = <<>>
    /\ stop = FALSE
    /\ loop = "accept"
    /\ pending = <<>>
    /\ seg = EmptySeg
    /\ turn = NoTurn
    /\ history = <<>>
    /\ session = "none"
    /\ out = <<>>
    /\ asked = 0
    /\ utterances = <<>>
    /\ published = 0

-----------------------------------------------------------------------------
(* The client: any order of frames and control messages.                   *)

ClientSends(kind, units) ==
    /\ client = "open"
    /\ sent < MaxSent
    /\ wire' = Append(wire, Message(kind, units))
    /\ sent' = sent + 1
    /\ epoch' = IF kind = "discard" \/ (ptt /\ kind = "end") THEN epoch + 1 ELSE epoch
    /\ client' = IF kind = "bye" THEN "done" ELSE client
    /\ UNCHANGED <<query, reader, inbox, stop, loop, pending, seg, turn, history,
                   session, out, asked, results>>

\* Only the segmenter listens to what a unit holds.
SendAudio ==
    \E speech \in (IF ptt THEN {TRUE} ELSE BOOLEAN), n \in 1 .. FrameUnits :
        ClientSends("audio", [i \in 1 .. n |-> [speech |-> speech, epoch |-> epoch]])

SendControl == \E kind \in Control : ClientSends(kind, <<>>)

\* The connection goes away; what was received before is still delivered.
Leave ==
    /\ client # "left"
    /\ client' = "left"
    /\ UNCHANGED <<query, sent, epoch, wire, reader, inbox, stop, loop, pending,
                   seg, turn, history, session, out, asked, results>>

-----------------------------------------------------------------------------
(* Accepting the connection.                                               *)

\* Not authenticated, not this profile, or no such user: an error and a close.
Refuse ==
    /\ loop = "accept"
    /\ loop' = "closed"
    /\ UNCHANGED <<query, clientVars, wire, reader, inbox, stop, pending, seg, turn,
                   history, session, out, asked, results>>

\* The session row, then the greeting; the reader starts after the greeting.
Accept ==
    /\ loop = "accept"
    /\ session' = "open"
    /\ loop' = "greet"
    /\ UNCHANGED <<query, clientVars, wire, reader, inbox, stop, pending, seg, turn,
                   history, out, asked, results>>

Greet ==
    /\ loop = "greet"
    /\ out' = Append(out, "session")
    /\ reader' = "reading"
    /\ loop' = "receive"
    /\ UNCHANGED <<query, clientVars, wire, inbox, stop, pending, seg, turn, history,
                   session, asked, results>>

\* The greeting fails before the try: nothing ends the session row.
GreetFails ==
    /\ loop = "greet"
    /\ client = "left"
    /\ loop' = "closed"
    /\ UNCHANGED <<query, clientVars, wire, reader, inbox, stop, pending, seg, turn,
                   history, session, out, asked, results>>

-----------------------------------------------------------------------------
(* The reader task.                                                        *)

ReadMessage ==
    /\ reader = "reading"
    /\ wire # <<>>
    /\ wire' = Tail(wire)
    /\ inbox' = Append(inbox, Head(wire))
    /\ stop' = (stop \/ Head(wire).kind = "bye")
    /\ reader' = IF stop' THEN "done" ELSE "reading"
    /\ UNCHANGED <<query, clientVars, loop, pending, seg, turn, history, session,
                   out, asked, results>>

ReadDisconnect ==
    /\ reader = "reading"
    /\ client = "left" /\ wire = <<>>
    /\ inbox' = Append(inbox, Message("disconnect", <<>>))
    /\ stop' = TRUE
    /\ reader' = "done"
    /\ UNCHANGED <<query, clientVars, wire, loop, pending, seg, turn, history,
                   session, out, asked, results>>

-----------------------------------------------------------------------------
(* The segmenter: push, flush and reset, each with what it returns.        *)

Heard(frame) == \E i \in DOMAIN frame : frame[i].speech

\* The state after a frame, before it is known whether speech has ended.
WithFrame(s, frame) ==
    IF Heard(frame)
    THEN [buf |-> s.buf \o frame, speech |-> s.speech + 1, silence |-> 0, in |-> TRUE]
    ELSE IF s.in
         THEN [s EXCEPT !.buf = @ \o frame, !.silence = @ + 1]
         ELSE s

EndOfSpeech(s) == s.in /\ s.silence >= Hangover /\ s.speech >= MinSpeech

\* Mutant: whatever was heard is an utterance.
FlushAnything(s) == s.buf

Flush(s) == IF s.in /\ s.speech >= MinSpeech THEN s.buf ELSE <<>>

-----------------------------------------------------------------------------
(* The loop, between turns.                                                *)

Receives(kind) ==
    /\ loop = "receive"
    /\ inbox # <<>>
    /\ Head(inbox).kind = kind
    /\ inbox' = Tail(inbox)

\* The message is sent and the handler goes on at `next`, or the peer is gone
\* and the WebSocketDisconnect leaves the loop.
SendAndGo(message, next) ==
    \/ /\ out' = Append(out, message)
       /\ loop' = next
    \/ /\ client = "left"
       /\ out' = out
       /\ loop' = "close"

StartTurn(audio) ==
    /\ turn' = [NoTurn EXCEPT !.audio = audio]
    /\ loop' = "stt"
    /\ asked' = asked + 1
    /\ out' = out

\* Mutant: the frame handed to the segmenter stays in the buffer.
RestAll(bytes) == bytes

\* del pending[:frame_bytes]
Rest(bytes) == SubSeq(bytes, FrameUnits + 1, Len(bytes))

\* Push-to-talk accumulates; otherwise every whole frame goes to the segmenter,
\* and a finished utterance is a turn of its own.
OnAudio ==
    /\ Receives("audio")
    /\ LET bytes == pending \o Head(inbox).units
           frame == SubSeq(bytes, 1, FrameUnits)
           next  == WithFrame(seg, frame)
       IN  IF ptt \/ Len(bytes) < FrameUnits
           THEN pending' = bytes /\ UNCHANGED <<seg, turn, loop, asked, out>>
           ELSE /\ pending' = Rest(bytes)
                /\ IF ~Heard(frame) /\ EndOfSpeech(next)
                   THEN StartTurn(next.buf) /\ seg' = EmptySeg
                   ELSE seg' = next /\ UNCHANGED <<turn, loop, asked, out>>
    /\ UNCHANGED <<query, clientVars, wire, reader, stop, history, session, results>>

\* Mutant: the received bytes of a discarded take stay.
OnDiscardKeepsPending ==
    /\ Receives("discard")
    /\ seg' = EmptySeg
    /\ SendAndGo("discarded", "receive")
    /\ UNCHANGED <<query, clientVars, wire, reader, stop, pending, turn, history,
                   session, asked, results>>

OnDiscard ==
    /\ Receives("discard")
    /\ pending' = <<>>
    /\ seg' = EmptySeg
    /\ SendAndGo("discarded", "receive")
    /\ UNCHANGED <<query, clientVars, wire, reader, stop, turn, history, session,
                   asked, results>>

\* What an `end` makes of the take: the whole of it, or what was segmented.
TakeOf == IF ptt THEN (IF Len(pending) >= MinUnits THEN pending ELSE <<>>)
                 ELSE Flush(seg)

\* Mutant: a short take is dropped without a word.
OnEndSilent ==
    /\ Receives("end")
    /\ pending' = IF ptt THEN <<>> ELSE pending
    /\ seg' = IF ptt THEN seg ELSE EmptySeg
    /\ \/ /\ TakeOf # <<>>
          /\ StartTurn(TakeOf)
       \/ /\ TakeOf = <<>>
          /\ asked' = asked + 1
          /\ UNCHANGED <<turn, out, loop>>
    /\ UNCHANGED <<query, clientVars, wire, reader, stop, history, session, results>>

OnEnd ==
    /\ Receives("end")
    /\ pending' = IF ptt THEN <<>> ELSE pending
    /\ seg' = IF ptt THEN seg ELSE EmptySeg
    /\ \/ /\ TakeOf # <<>>
          /\ StartTurn(TakeOf)
       \/ /\ TakeOf = <<>>
          /\ asked' = asked + 1
          /\ turn' = turn
          /\ SendAndGo("turn_skipped", "receive")
    /\ UNCHANGED <<query, clientVars, wire, reader, stop, history, session, results>>

\* Not JSON: ignored.
OnGarbage ==
    /\ Receives("garbage")
    /\ UNCHANGED <<query, clientVars, wire, reader, stop, loop, pending, seg, turn,
                   history, session, out, asked, results>>

\* Mutant: only a bye ends the loop.
LeaveLoopOnBye ==
    /\ \E kind \in {"bye", "array"} : Receives(kind)
    /\ loop' = "close"
    /\ UNCHANGED <<query, clientVars, wire, reader, stop, pending, seg, turn, history,
                   session, out, asked, results>>

\* bye, a disconnect, or JSON that is not an object (its .get raises through the
\* finally): the loop is over.
LeaveLoop ==
    /\ \E kind \in {"bye", "disconnect", "array"} : Receives(kind)
    /\ loop' = "close"
    /\ UNCHANGED <<query, clientVars, wire, reader, stop, pending, seg, turn, history,
                   session, out, asked, results>>

\* The finally: the reader is cancelled and the session row is ended.
Close ==
    /\ loop = "close"
    /\ reader' = "done"
    /\ session' = "ended"
    /\ loop' = "closed"
    /\ UNCHANGED <<query, clientVars, wire, inbox, stop, pending, seg, turn, history,
                   out, asked, results>>

-----------------------------------------------------------------------------
(* One turn: HotPathPipeline.run_turn driven by _run_turn.                 *)

\* Mutant: the transcript is remembered before it is forwarded.
RememberedEarly(t) == history \o <<"user">>

\* What _run_turn remembers of a turn once it is over.
Remembered(t) ==
    history \o (IF t.heard THEN <<"user">> ELSE <<>>)
            \o (IF t.phrases > 0 THEN <<"assistant">> ELSE <<>>)

\* Mutant: the next event is forwarded whether or not the learner has left.
HandleRegardless(message, t, next) ==
    /\ \/ /\ out' = Append(out, message)
          /\ loop' = next
          /\ IF next = "receive"
             THEN history' = Remembered(t) /\ turn' = NoTurn
             ELSE history' = history /\ turn' = t
       \/ /\ client = "left"
          /\ loop' = "close"
          /\ UNCHANGED <<turn, history, out>>
    /\ UNCHANGED <<query, clientVars, wire, reader, inbox, stop, pending, seg,
                   session, asked>>

\* An event of the turn reaches _run_turn: it unwinds if the learner has left
\* (the generator is closed where it stands), forwards the event otherwise. The
\* turn is then `t`; when next is "receive" it is over and is remembered.
Handle(message, t, next) ==
    /\ \/ /\ stop
          /\ loop' = "receive"
          /\ history' = Remembered(turn)
          /\ turn' = NoTurn
          /\ out' = out
       \/ /\ ~stop
          /\ out' = Append(out, message)
          /\ loop' = next
          /\ IF next = "receive"
             THEN history' = Remembered(t) /\ turn' = NoTurn
             ELSE history' = history /\ turn' = t
       \/ /\ ~stop
          /\ client = "left"
          /\ loop' = "close"
          /\ UNCHANGED <<turn, history, out>>
    /\ UNCHANGED <<query, clientVars, wire, reader, inbox, stop, pending, seg,
                   session, asked>>

\* FINAL, then the reply; in reading practice straight to the end of the turn.
Transcribe ==
    /\ loop = "stt"
    /\ \E heard \in BOOLEAN :      \* silence transcribes to an empty string
         Handle("final", [turn EXCEPT !.heard = heard],
                IF reply THEN "reply" ELSE "finalize")
    /\ UNCHANGED results

\* Mutant: a failed stage ends the turn without an event.
StageFailsSilently ==
    /\ loop \in {"stt", "reply", "speak"}
    /\ loop' = "receive"
    /\ turn' = NoTurn
    /\ UNCHANGED <<query, clientVars, wire, reader, inbox, stop, pending, seg,
                   history, session, out, asked, results>>

\* Any stage raises: an ERROR event closes the turn, and nothing is persisted.
StageFails ==
    /\ loop \in {"stt", "reply", "speak"}
    /\ Handle("error", turn, "receive")
    /\ UNCHANGED results

Phrase ==
    /\ loop = "reply"
    /\ turn.phrases < MaxPhrases
    /\ Handle("reply", [turn EXCEPT !.phrases = @ + 1], "speak")
    /\ UNCHANGED results

\* A chunk of speech. The next one, the next phrase or the end may follow.
Speak ==
    /\ loop = "speak"
    /\ Handle("audio", turn, "reply")
    /\ UNCHANGED results

\* Nothing speakable in the phrase, or no chunk from the synthesizer.
SpeakNothing ==
    /\ loop = "speak"
    /\ loop' = "reply"
    /\ UNCHANGED <<query, clientVars, wire, reader, inbox, stop, pending, seg, turn,
                   history, session, out, asked, results>>

\* The phrases are over.
ReplyEnds ==
    /\ loop = "reply"
    /\ loop' = "finalize"
    /\ UNCHANGED <<query, clientVars, wire, reader, inbox, stop, pending, seg, turn,
                   history, session, out, asked, results>>

\* Mutant: the timings go out and nothing is persisted or published.
FinalizeNothing ==
    /\ loop = "finalize"
    /\ Handle("turn_end", turn, "receive")
    /\ UNCHANGED results

\* _finalize never awaits: persisted (best effort), published, then TIMINGS.
Finalize ==
    /\ loop = "finalize"
    /\ \/ utterances' = Append(utterances, turn.audio)
       \/ utterances' = utterances
    /\ published' = published + 1
    /\ Handle("turn_end", turn, "receive")

-----------------------------------------------------------------------------
ClientStep == SendAudio \/ SendControl \/ Leave
ReaderStep == ReadMessage \/ ReadDisconnect
LoopStep ==
    \/ Refuse \/ Accept \/ Greet \/ GreetFails
    \/ OnAudio \/ OnDiscard \/ OnEnd \/ OnGarbage \/ LeaveLoop \/ Close
    \/ Transcribe \/ StageFails \/ Phrase \/ Speak \/ SpeakNothing \/ ReplyEnds
    \/ Finalize

Next == ClientStep \/ ReaderStep \/ LoopStep

Spec == Init /\ [][Next]_vars

(***************************************************************************)
(* Both coroutines are scheduled while they are ready, and the stages of a *)
(* turn answer or fail. The client owes nothing.                           *)
(***************************************************************************)
FairSpec == Spec /\ WF_vars(ReaderStep) /\ WF_vars(LoopStep)

-----------------------------------------------------------------------------
Units == [speech : BOOLEAN, epoch : 0 .. MaxSent]
Messages == [kind : Control \cup {"audio", "disconnect"}, units : Seq(Units)]
Sendable == {"session", "discarded", "turn_skipped", "turn_end", "error",
             "final", "reply", "audio"}

TypeOK ==
    /\ ptt \in BOOLEAN /\ reply \in BOOLEAN /\ stop \in BOOLEAN
    /\ client \in {"open", "done", "left"}
    /\ sent \in 0 .. MaxSent /\ epoch \in 0 .. MaxSent
    /\ wire \in Seq(Messages) /\ inbox \in Seq(Messages)
    /\ reader \in {"off", "reading", "done"}
    /\ loop \in {"accept", "greet", "receive", "stt", "reply", "speak", "finalize",
                 "close", "closed"}
    /\ pending \in Seq(Units)
    /\ ~ptt => Len(pending) < FrameUnits
    /\ seg \in [buf : Seq(Units), speech : Nat, silence : Nat, in : BOOLEAN]
    /\ turn \in [audio : Seq(Units), heard : BOOLEAN, phrases : 0 .. MaxPhrases]
    /\ history \in Seq({"user", "assistant"})
    /\ session \in {"none", "open", "ended"}
    /\ out \in Seq(Sendable)
    /\ asked \in Nat /\ published \in Nat
    /\ utterances \in Seq(Seq(Units))

Count(s, kinds) == Cardinality({i \in DOMAIN s : s[i] \in kinds})
Sent(kinds) == Count(out, kinds)
Closings == Sent({"turn_end", "turn_skipped", "error"})

(***************************************************************************)
(* Every take that was ended gets one closing message, never two           *)
(* (ws_session.py:8-10): none is owed while the loop waits for the next    *)
(* message of a learner who is still there, whatever failed in the turn.   *)
(***************************************************************************)
EveryTakeClosedOnce ==
    /\ Closings <= asked
    /\ loop = "receive" /\ ~stop => Closings = asked

(***************************************************************************)
(* A discarded take never becomes an utterance and the next recording does *)
(* not inherit its frames (vad.py:134-136): no turn mixes two takes, with  *)
(* the frames cut at any boundary.                                         *)
(***************************************************************************)
TakesDoNotMix ==
    \A audio \in ToSet(utterances) \cup {turn.audio} :
        \A i, j \in DOMAIN audio : audio[i].epoch = audio[j].epoch

(***************************************************************************)
(* Noise is not scored: a take that reaches the pipeline held enough       *)
(* speech for its mode (Segmenter.push and flush, the minimum length of a  *)
(* push-to-talk take).                                                     *)
(***************************************************************************)
TurnsHoldSpeech ==
    loop = "stt" =>
        IF ptt THEN Len(turn.audio) >= MinUnits
        ELSE Cardinality({i \in DOMAIN turn.audio : turn.audio[i].speech}) >= MinSpeech

(***************************************************************************)
(* What is scored was shown to the learner, and a turn reported as over    *)
(* has been handed to the cold path (pipeline.py:97-103, 149-159).         *)
(***************************************************************************)
TurnEndMeansPublished ==
    /\ Sent({"turn_end"}) <= published
    /\ published <= Sent({"final"})

(***************************************************************************)
(* The conversation the next reply is generated from holds nothing the     *)
(* learner did not see: no more user turns than transcripts sent, and no   *)
(* more coach turns than phrases (ws_session.py:335-340).                  *)
(***************************************************************************)
HistoryWasSeen ==
    /\ Count(history, {"user"}) <= Sent({"final"})
    /\ Count(history, {"assistant"}) <= Sent({"reply"})

(***************************************************************************)
(* Once bye or the disconnect is read, the running turn unwinds without a  *)
(* further event (ws_session.py:12-14): only the control messages that     *)
(* were queued before it are still answered.                               *)
(***************************************************************************)
UnwindsOnStop ==
    [][stop /\ out' # out => Last(out') \in {"discarded", "turn_skipped"}]_vars

(***************************************************************************)
(* A learner who leaves is let go: the handler ends and so does the        *)
(* session row it opened.                                                  *)
(***************************************************************************)
LeavingEndsSession == stop ~> (loop = "closed" /\ session = "ended")

(***************************************************************************)
(* The client's mic is never stranded (ws_session.py:258-260): a take that *)
(* is owed a closing message gets it, or the session ends.                 *)
(***************************************************************************)
MicComesBack == asked > Closings ~> (asked = Closings \/ loop = "closed")
=============================================================================
