------------------------------ MODULE LiveClient ------------------------------
(***************************************************************************)
(* The push-to-talk button of the web client:                              *)
(* frontend-next/components/LiveSession.tsx. Its handlers run one at a     *)
(* time and interleave at the awaits of ensureSession and at the delayed   *)
(* close of endSession; a socket's messages and its closing arrive in      *)
(* between, of a socket that is no longer the current one too.             *)
(*                                                                         *)
(* The audio is left out: what matters here is who gives the microphone    *)
(* back. The server answers every end once, which WsSession shows.         *)
(***************************************************************************)
EXTENDS Integers, Sequences, FiniteSets

CONSTANTS
    MaxSockets,  \* bound: sockets made in a run
    MaxAsking,   \* bound: presses that wait for the microphone at once
    MaxTimers,   \* bound: delayed closes pending at once
    MaxOwed      \* bound: answers outstanding on a socket

VARIABLES
    st,         \* stateRef
    handsFree,  \* handsFree.current
    ws,         \* ws.current, an index of socks, or NoSocket
    socks,      \* sockets made: their readyState and the answers they owe
    micStream,  \* micStream.current is set
    asking,     \* presses awaiting getUserMedia, or the audio context
    timers,     \* pending timeouts of endSession
    endShown,   \* the End button is on the screen, as last rendered
    overlapped  \* history: a press began while another was still connecting

clientVars == <<st, handsFree, ws, socks, micStream, asking, timers, endShown,
                overlapped>>

NoSocket == 0
Ready(s) == s # NoSocket /\ socks[s].ready = "open"

ClientInit ==
    /\ st = "idle"
    /\ handsFree = FALSE
    /\ ws = NoSocket
    /\ socks = <<>>
    /\ micStream = FALSE
    /\ asking = 0
    /\ timers = 0
    /\ endShown = FALSE
    /\ overlapped = FALSE

\* A change of state renders the page again; anything else may.
Rendered ==
    LET connected == ws' # NoSocket /\ socks'[ws'].ready = "open"
    IN  IF st' # st THEN endShown' = connected ELSE endShown' \in {endShown, connected}

-----------------------------------------------------------------------------
(* ensureSession, and onMic around it.                                     *)

Connect ==
    /\ Len(socks) < MaxSockets
    /\ socks' = Append(socks, [ready |-> "connecting", owed |-> 0])
    /\ ws' = Len(socks)'

Waiting == asking > 0 \/ \E s \in DOMAIN socks : socks[s].ready = "connecting"

\* Straight on with an open socket; otherwise the microphone is asked for, or a
\* suspended audio context resumed, and a socket made. Until it opens the state
\* is idle.
onMic ==
    \/ /\ Ready(ws)
       /\ st' = "recording"
       /\ UNCHANGED <<ws, socks, asking, overlapped>>
    \/ /\ ~Ready(ws)
       /\ st' = "idle"
       /\ overlapped' = (overlapped \/ Waiting)
       /\ \/ asking < MaxAsking /\ asking' = asking + 1 /\ UNCHANGED <<ws, socks>>
          \/ micStream /\ Connect /\ UNCHANGED asking

MicrophoneGranted ==
    /\ asking > 0
    /\ asking' = asking - 1
    /\ micStream' = TRUE
    /\ Connect
    /\ UNCHANGED <<st, handsFree, timers, overlapped>>
    /\ Rendered

MicrophoneDenied ==
    /\ asking > 0
    /\ asking' = asking - 1
    /\ UNCHANGED <<st, handsFree, ws, socks, micStream, timers, overlapped>>
    /\ Rendered

\* onopen: the press that made the socket goes on, whatever happened meanwhile.
SocketOpens(s) ==
    /\ socks[s].ready = "connecting"
    /\ socks' = [socks EXCEPT ![s].ready = "open"]
    /\ st' = "recording"
    /\ UNCHANGED <<handsFree, ws, micStream, asking, timers, overlapped>>
    /\ Rendered

-----------------------------------------------------------------------------
(* The learner's hands.                                                    *)

micDown ==
    /\ \/ /\ st = "recording" /\ handsFree
          /\ st' = "held"
          /\ UNCHANGED <<ws, socks, asking, overlapped>>
       \/ st = "idle" /\ onMic
    /\ handsFree' = FALSE
    /\ UNCHANGED <<micStream, timers>>
    /\ Rendered

\* Enter or Space on the button, which is disabled while busy.
Keyboard ==
    /\ \/ /\ st \in {"recording", "held"} /\ st' = "held"
          /\ UNCHANGED <<ws, socks, asking, overlapped>>
       \/ st = "idle" /\ onMic
    /\ handsFree' = TRUE
    /\ UNCHANGED <<micStream, timers>>
    /\ Rendered

\* sendTurn once the take is held: what an unready socket is sent is lost.
Send ==
    /\ st' = "busy"
    /\ IF Ready(ws) THEN /\ socks[ws].owed < MaxOwed
                         /\ socks' = [socks EXCEPT ![ws].owed = @ + 1]
       ELSE UNCHANGED socks

\* The press is over: a tap goes on hands-free, a hold is sent.
micUp ==
    /\ st = "recording" /\ ~handsFree
    /\ \/ handsFree' = TRUE /\ UNCHANGED <<st, socks>>
       \/ Send /\ UNCHANGED handsFree
    /\ UNCHANGED <<ws, micStream, asking, timers, overlapped>>
    /\ Rendered

sendTurn ==
    /\ st = "held"
    /\ Send
    /\ UNCHANGED <<handsFree, ws, micStream, asking, timers, overlapped>>
    /\ Rendered

\* Re-record: the take is discarded and the microphone pressed again.
redo ==
    /\ st = "held"
    /\ onMic
    /\ UNCHANGED <<handsFree, micStream, timers>>
    /\ Rendered

\* End: bye, the microphone is released, and in 400 ms the socket is closed.
endSession ==
    /\ endShown /\ timers < MaxTimers
    /\ timers' = timers + 1
    /\ micStream' = FALSE
    /\ UNCHANGED <<st, handsFree, ws, socks, asking, overlapped>>
    /\ Rendered

\* The timeout closes the socket that is current by now.
DelayedClose ==
    /\ timers > 0
    /\ timers' = timers - 1
    /\ socks' = IF ws # NoSocket /\ socks[ws].ready \in {"connecting", "open"}
                THEN [socks EXCEPT ![ws].ready = "closing"] ELSE socks
    /\ ws' = NoSocket
    /\ st' = "idle"
    /\ UNCHANGED <<handsFree, micStream, asking, overlapped>>
    /\ Rendered

-----------------------------------------------------------------------------
(* What the sockets do.                                                    *)

\* turn_end, turn_skipped or error: of any socket that is still open.
Answered(s) ==
    /\ socks[s].ready = "open" /\ socks[s].owed > 0
    /\ socks' = [socks EXCEPT ![s].owed = @ - 1]
    /\ st' = "idle"
    /\ UNCHANGED <<handsFree, ws, micStream, asking, timers, overlapped>>
    /\ Rendered

\* Mutant: a socket without an onclose.
ClosesUnnoticed(s) ==
    /\ socks[s].ready # "closed"
    /\ socks' = [socks EXCEPT ![s] = [ready |-> "closed", owed |-> 0]]
    /\ UNCHANGED <<st, handsFree, ws, micStream, asking, timers, overlapped>>
    /\ Rendered

\* onclose, of a socket that was refused, lost, ended or closed here.
SocketCloses(s) ==
    /\ socks[s].ready # "closed"
    /\ socks' = [socks EXCEPT ![s] = [ready |-> "closed", owed |-> 0]]
    /\ st' = "idle"
    /\ UNCHANGED <<handsFree, ws, micStream, asking, timers, overlapped>>
    /\ Rendered

ClientNext ==
    \/ MicrophoneGranted
    \/ MicrophoneDenied
    \/ \E s \in DOMAIN socks : SocketOpens(s) \/ Answered(s) \/ SocketCloses(s)
    \/ micDown
    \/ Keyboard
    \/ micUp
    \/ sendTurn
    \/ redo
    \/ endSession
    \/ DelayedClose

ClientSpec == ClientInit /\ [][ClientNext]_clientVars

-----------------------------------------------------------------------------
(* Properties.                                                             *)

Live(s) == socks[s].ready \in {"connecting", "open"}

\* Someone gives the microphone back, and there is one session at a time: while
\* the coach is said to respond, the current socket owes an answer or one is
\* closing, and no socket but the current one is live, unless the learner pressed
\* again while a press was still connecting: that leaves a socket behind which
\* nothing closes, and can strand the button until it drops. A take is recorded
\* or held only with a socket to send it to. LiveSession.tsx:135-192, 260-273
MicrophoneComesBack ==
    LET left == {s \in DOMAIN socks : s # ws /\ Live(s)}
        closing == {s \in DOMAIN socks : socks[s].ready = "closing"}
    IN  /\ left # {} => overlapped
        /\ st = "busy" => \/ ws # NoSocket /\ Live(ws) /\ socks[ws].owed > 0
                          \/ closing # {}
                          \/ left # {}
        /\ st \in {"recording", "held"} => left # {} \/ closing # {} \/ Ready(ws)
=============================================================================
