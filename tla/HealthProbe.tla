---------------------------- MODULE HealthProbe ----------------------------
(***************************************************************************)
(* One health probe after another, as the health monitor thread runs them: *)
(* TCPClient::setup, Send, receiveAll and exit called by a fetch function  *)
(* of HttpUtil, then ServiceProcess::healthTest on what fetch returned.    *)
(* The application at the other end of the connection is the environment:  *)
(* it accepts or not, sends its reply in pieces at its own pace, and then  *)
(* closes the connection or keeps it open and silent.                      *)
(***************************************************************************)
EXTENDS HttpHealth, Integers

CONSTANTS
  Method,        \* wrapper.app.healthAPI.requestMethod
  ContentType,   \* wrapper.app.healthAPI.responseContentType: "json" or not
  ReceiveTimeout,\* wrapper.ping.healthCheckReceiveTimeout; SO_RCVTIMEO of 0
                 \* lets recv() wait for ever
  Replies,       \* the texts the application may answer with
  Pieces         \* a bound: a reply comes in 1..Pieces pieces, or, when
                 \* Pieces is 0, in pieces without end

ASSUME ProbeAssumption ==
  /\ Method \in {"GET", "POST"}
  /\ ContentType \in {"json", "other"}
  /\ ReceiveTimeout \in Nat
  /\ Replies \subseteq Texts
  /\ Pieces \in Nat

VARIABLES
  pc,        \* where the monitor thread is
  sock,      \* TCPClient::sock: -1, or an open socket
  peer,      \* the connection at the application's end
  inflight,  \* a piece has been sent and not yet received
  missing,   \* pieces of the reply not yet received
  reply,     \* the text the application answers this probe with
  verdict    \* what the last probe that ended said

vars == <<pc, sock, peer, inflight, missing, reply, verdict>>

NoSocket == -1
Socket   == 3

TypeOK ==
  /\ pc \in {"idle", "setup", "send", "receive", "exit", "judge", "dead"}
  /\ sock \in {NoSocket, Socket}
  /\ peer \in {"none", "open", "closed"}
  /\ inflight \in BOOLEAN
  /\ missing \in 0..(Pieces + 1)
  /\ reply \in Replies \cup {Empty}
  /\ verdict \in Verdicts \cup {"none"}

Init ==
  /\ pc = "idle"
  /\ sock = NoSocket
  /\ peer = "none"
  /\ inflight = FALSE
  /\ missing = 0
  /\ reply = Empty
  /\ verdict = "none"

\* What receiveAll returns: the reply once every piece has arrived, and text
\* without a usable body when it gave up before the end.
Received ==
  IF missing = 0 THEN reply ELSE [reply EXCEPT !.body = "garbage"]

-----------------------------------------------------------------------------
\* healthTest enters fetch.
Start ==
  /\ pc = "idle"
  /\ pc' = "setup"
  /\ UNCHANGED <<sock, peer, inflight, missing, reply, verdict>>

\* (A bug to be caught: fetch returns without tcp.exit() when setup fails.)
SetupFailsMutant ==
  /\ pc = "setup" /\ sock' \in {sock, Socket} /\ pc' = "judge"
  /\ UNCHANGED <<peer, inflight, missing, reply, verdict>>

\* socket() may fail, and connect() is called on -1 then; an open socket left
\* by an earlier probe would be used again, and connect() refuses it.
SetupFails ==
  /\ pc = "setup"
  /\ sock' \in {sock, Socket}
  /\ pc' = "exit"
  /\ UNCHANGED <<peer, inflight, missing, reply, verdict>>

SetupConnects ==
  /\ pc = "setup"
  /\ sock = NoSocket
  /\ sock' = Socket
  /\ peer' = "open"
  /\ reply' \in Replies
  /\ missing' \in IF Pieces = 0 THEN {1} ELSE 1..Pieces
  /\ pc' = "send"
  /\ UNCHANGED <<inflight, verdict>>

\* A failed send skips receiveAll; tcp.exit() is called all the same.
Send ==
  /\ pc = "send"
  /\ pc' \in {"receive", "exit"}
  /\ UNCHANGED <<sock, peer, inflight, missing, reply, verdict>>

\* (A bug to be caught: a recv() that returned nothing is counted as a piece.)
RecvPieceMutant ==
  /\ pc = "receive" /\ inflight' = FALSE
  /\ missing' = IF Pieces = 0 THEN missing ELSE missing - 1
  /\ UNCHANGED <<pc, sock, peer, reply, verdict>>

RecvPiece ==
  /\ pc = "receive"
  /\ inflight
  /\ inflight' = FALSE
  /\ missing' = IF Pieces = 0 THEN missing ELSE missing - 1
  /\ UNCHANGED <<pc, sock, peer, reply, verdict>>

\* (A bug to be caught: receiveAll goes on while recv() >= 0.)
RecvEndMutant ==
  /\ pc = "receive" /\ ~inflight /\ peer = "closed"
  /\ UNCHANGED vars

\* recv() returns 0: the peer has closed and everything sent has been read.
RecvEnd ==
  /\ pc = "receive"
  /\ ~inflight
  /\ peer = "closed"
  /\ pc' = "exit"
  /\ UNCHANGED <<sock, peer, inflight, missing, reply, verdict>>

\* recv() returns -1: nothing came for ReceiveTimeout seconds.  The timeout
\* is that of one recv() call, never of the whole reply.
RecvTimeout ==
  /\ pc = "receive"
  /\ ~inflight
  /\ peer = "open"
  /\ ReceiveTimeout > 0
  /\ pc' = "exit"
  /\ UNCHANGED <<sock, peer, inflight, missing, reply, verdict>>

\* tcp.exit(), on every path out of fetch.
Exit ==
  /\ pc = "exit"
  /\ sock' = NoSocket
  /\ pc' = "judge"
  /\ UNCHANGED <<peer, inflight, missing, reply, verdict>>

\* healthTest judges the string fetch returned.
Judge ==
  /\ pc = "judge"
  /\ verdict' \in HealthTest(Fetch(Method, Received), ContentType)
  /\ pc' = IF verdict' = "crash" THEN "dead" ELSE "idle"
  /\ peer' = "none"
  /\ inflight' = FALSE
  /\ missing' = 0
  /\ reply' = Empty
  /\ UNCHANGED sock

-----------------------------------------------------------------------------
\* The application: the next piece of its reply, and the end of it.
PeerSends ==
  /\ peer = "open"
  /\ ~inflight
  /\ missing > 0
  /\ inflight' = TRUE
  /\ UNCHANGED <<pc, sock, peer, missing, reply, verdict>>

PeerCloses ==
  /\ peer = "open"
  /\ peer' = "closed"
  /\ UNCHANGED <<pc, sock, inflight, missing, reply, verdict>>

Probe == \/ Start \/ SetupFails \/ SetupConnects \/ Send
         \/ RecvPiece \/ RecvEnd \/ RecvTimeout \/ Exit \/ Judge

Application == PeerSends \/ PeerCloses

Next == Probe \/ Application

\* The monitor thread runs whenever the kernel lets it: a call that can
\* return does return.  Nothing is assumed of the application.
Spec == Init /\ [][Next]_vars /\ WF_vars(Probe)

-----------------------------------------------------------------------------
\* Between two probes no socket is left open: TCPClient::setup makes a new
\* socket only when sock is -1, so one that leaked would fail every later
\* probe (EISCONN) and take the application for dead.
SocketReleased == pc \in {"idle", "judge", "dead"} => sock = NoSocket

\* (Not so when a reply drips: no recv() takes too long, and receiveAll goes on
\* for as long as anything comes.)  A probe ends, whatever the application does
\* with the connection: an endless probe is a health monitor that will never
\* restart anything again.
ProbeEnds == (pc = "setup") ~> (pc \in {"idle", "dead"})

\* A probe ends when recv() is timed and a reply has an end: the application may
\* refuse the connection, fall silent at any point of its reply, or close.
FiniteReplyEnds == (ReceiveTimeout > 0 /\ Pieces > 0) => ProbeEnds

=============================================================================
