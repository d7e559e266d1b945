------------------------------ MODULE Streamer ------------------------------
(***************************************************************************)
(* streamer.cpp on top of websocket.cpp and websocketSession.cpp: login,   *)
(* subscriptions and their restoration, pause, resume and stop, with every *)
(* thread that takes part: the application's (Callers), the request daemon,*)
(* the io thread and the session's sender.                                 *)
(*                                                                         *)
(* A request is the number under which m_subscriptionRecord keeps it; 0 is *)
(* the login request.  The request queue is a FIFO channel, see            *)
(* SenderDaemon.tla.                                                       *)
(***************************************************************************)
EXTENDS WebsocketSession, FiniteSets

CONSTANTS
    Callers,             \* application threads
    MaxSubs,             \* bound: subscriptions
    MaxLogins,           \* bound: login requests waiting to be written
    MaxPauses,           \* bound: pauses
    MayStop              \* the application stops the streamer

ASSUME StreamerAssumption ==
    /\ MaxSubs \in Nat
    /\ MaxLogins \in Nat
    /\ MaxPauses \in Nat
    /\ MayStop \in BOOLEAN

VARIABLES
    state,               \* CVState::_state
    runDaemon,           \* flag RunRequestDaemon
    websocket,           \* m_websocket: "none", "live", "closing" or "gone"
    reqQueue,            \* m_requestQueue
    daemon,              \* where the request daemon is
    held,                \* what the daemon popped and is handing over
    recorded,            \* m_subscriptionRecord holds requests 1..recorded
    restoring,           \* the handshake was a reconnection's
    restore,             \* requests the restoring loop has still to visit
    at,                  \* where each caller is
    asking,              \* the request each caller recorded and not yet queued
    pauses,              \* pauses so far
    replies,             \* environment: logins the server has yet to answer
    loggedIn,            \* history: login succeeded on this connection
    served               \* history: requests the server took on this connection

streamerVars == <<state, runDaemon, websocket, reqQueue, daemon, held, recorded,
                  restoring, restore, at, asking, pauses, replies, loggedIn, served>>
vars == <<sessionVars, io, aborted, streamerVars>>

daemonVars  == <<runDaemon, reqQueue, daemon, held>>
restoreVars == <<recorded, restoring, restore>>
callerVars  == <<at, asking, pauses>>
serverVars  == <<replies, loggedIn, served>>

Login == 0
LoginsQueued == Cardinality({i \in DOMAIN msgQueue : msgQueue[i] = Login})
Requests == 1..MaxSubs

TypeOK ==
    /\ SessionTypeOK
    /\ io \in {"idle", "handshaked", "login", "loginRead", "restore", "accepted",
               "refused", "loopFlag", "loopTest", "loopMark", "loopRead", "recheck",
               "stopLoop", "stopReconnect", "reconnect", "closeStream", "join"}
    /\ msgQueue \in Seq({Login} \cup Requests)
    /\ outgoing \in Seq({Login} \cup Requests)
    /\ state \in {"Inactive", "Active", "Paused"}
    /\ runDaemon \in BOOLEAN
    /\ websocket \in {"none", "live", "closing", "gone"}
    /\ reqQueue \in Seq(Requests)
    /\ daemon \in {"none", "wait", "loop", "hold", "exited"}
    /\ held \in Seq(Requests)
    /\ recorded \in 0..MaxSubs
    /\ restoring \in BOOLEAN
    /\ restore \subseteq Requests
    /\ at \in [Callers -> {"idle", "queue", "stopLoop", "loopFlag", "loopTest",
                           "loopMark", "loopRead", "activate", "reset", "closeStream",
                           "joinIo"}]
    /\ asking \in [Callers -> 0..MaxSubs]
    /\ pauses \in 0..MaxPauses
    /\ replies \in Nat
    /\ loggedIn \in BOOLEAN
    /\ served \subseteq Requests

Init ==
    /\ SessionInit
    /\ state = "Inactive"
    /\ runDaemon = FALSE
    /\ websocket = "none"
    /\ reqQueue = <<>> /\ daemon = "none" /\ held = <<>>
    /\ recorded = 0 /\ restoring = FALSE /\ restore = {}
    /\ at = [c \in Callers |-> "idle"]
    /\ asking = [c \in Callers |-> 0]
    /\ pauses = 0
    /\ replies = 0 /\ loggedIn = FALSE /\ served = {}

CallerAt(c, place) == aborted = "no" /\ at[c] = place
DaemonAt(place)    == aborted = "no" /\ daemon = place

GoTo(c, place) == at' = [at EXCEPT ![c] = place]

\* A call through m_websocket after stop() released it.
NoWebsocket ==
    /\ websocket # "live"
    /\ Crash("null_websocket")
    /\ UNCHANGED streamerVars

-----------------------------------------------------------------------------
(***************************************************************************)
(* Starting                                                                *)
(***************************************************************************)
Start(c) ==
    /\ CallerAt(c, "idle")
    /\ websocket = "none"
    /\ websocket' = "live"
    /\ AsyncConnect("connected", FALSE)
    /\ runDaemon' = TRUE
    /\ daemon' = "wait"
    /\ UNCHANGED <<io, aborted, state, reqQueue, held, restoreVars, callerVars,
                   serverVars>>

\* A second start finds the thread object of the first still joinable.
StartAgain(c) ==
    /\ CallerAt(c, "idle")
    /\ MayStop
    /\ websocket = "gone"
    /\ Crash("thread_replaced")
    /\ UNCHANGED streamerVars

-----------------------------------------------------------------------------
(***************************************************************************)
(* Logging in, on the io thread.                                           *)
(***************************************************************************)
\* The handshake starts a connection the server knows nothing of.
Handshake ==
    /\ \/ /\ WebsocketIsUp("live")
          /\ replies' = 0
          /\ loggedIn' = FALSE
          /\ served' = {}
       \/ WebsocketIsUp("dead") /\ UNCHANGED serverVars
    /\ UNCHANGED <<state, websocket, daemonVars, restoreVars, callerVars>>

StaysOnReconnect == state                       \* mutant: state kept

InactiveOnReconnect == IF onHandshake = "reconnected" THEN "Inactive" ELSE state

\* onWebsocketConnected and onWebsocketReconnected
OnWebsocketUp ==
    /\ IoAt("handshaked")
    /\ state' = InactiveOnReconnect
    /\ restoring' = (onHandshake = "reconnected")
    /\ io' = "login"
    /\ UNCHANGED <<sessionVars, aborted, websocket, daemonVars, recorded, restore,
                   callerVars, serverVars>>

\* startLoginAndReceiveProcedure: queue the login request ...
SendLogin ==
    /\ IoAt("login")
    /\ \/ NoWebsocket
       \/ /\ websocket = "live"
          /\ LoginsQueued < MaxLogins
          /\ AsyncSend(Login)
          /\ io' = "loginRead"
          /\ UNCHANGED <<aborted, streamerVars>>

ToRestoreNothing == {}                          \* mutant: subscriptions not restored

ToRestore == IF restoring THEN 1..recorded ELSE {}

\* ... and ask for the response.  After a reconnection the loop over the
\* subscription record follows.
ReadLogin ==
    /\ IoAt("loginRead")
    /\ \/ NoWebsocket
       \/ stream = "null" /\ Crash("null_stream") /\ UNCHANGED streamerVars
       \/ /\ websocket = "live"
          /\ AsyncReceive
          /\ ReadReturns
          /\ io' = IF restoring THEN "restore" ELSE "idle"
          /\ restore' = ToRestore
          /\ restoring' = FALSE
          /\ UNCHANGED <<aborted, state, websocket, daemonVars, recorded, callerVars,
                         serverVars>>

RestoreSubscription ==
    /\ IoAt("restore")
    /\ IF restore = {}
       THEN io' = "idle" /\ UNCHANGED <<reqQueue, restore>>
       ELSE LET r == CHOOSE x \in restore : \A y \in restore : x <= y
            IN  /\ reqQueue' = Append(reqQueue, r)
                /\ restore' = restore \ {r}
                /\ UNCHANGED io
    /\ UNCHANGED <<sessionVars, aborted, state, runDaemon, websocket, daemon, held,
                   recorded, restoring, callerVars, serverVars>>

\* The response arrives, or the read fails.
LoginAnswered ==
    \/ /\ OnReadError
       /\ UNCHANGED streamerVars
    \/ /\ replies > 0
       /\ \E answer \in {"accepted", "refused"} : OnReadData(answer)
       /\ replies' = replies - 1
       /\ UNCHANGED <<state, websocket, daemonVars, restoreVars, callerVars, loggedIn,
                      served>>

\* at(0) of an empty list of responses throws what the handler does not catch.
LoginAnswerEmpty ==
    /\ IoAt("idle")
    /\ \E l \in Life : Brings("login", l)
    /\ buffer = "clean"
    /\ replies > 0
    /\ faults < MaxFaults
    /\ Crash("empty_response")
    /\ UNCHANGED streamerVars

\* Accepted: Active, under the mutex, whatever the state was ...
LoginAccepted ==
    /\ IoAt("accepted")
    /\ state' = "Active"
    /\ loggedIn' = TRUE
    /\ io' = "loopFlag"
    /\ UNCHANGED <<sessionVars, aborted, websocket, daemonVars, restoreVars, callerVars,
                   replies, served>>

\* ... then the receiver loop, unless one is believed to be running ...
LoginStartsLoop ==
    \/ /\ IoAt("loopFlag")
       /\ \/ NoWebsocket
          \/ /\ websocket = "live"
             /\ SetReceiverFlag
             /\ io' = "loopTest"
             /\ UNCHANGED <<aborted, streamerVars>>
    \/ /\ IoAt("loopTest")
       /\ io' = IF loopRunning THEN "recheck" ELSE "loopMark"
       /\ UNCHANGED <<sessionVars, aborted, streamerVars>>
    \/ /\ IoAt("loopMark")
       /\ MarkLoop
       /\ io' = "loopRead"
       /\ UNCHANGED <<aborted, streamerVars>>
    \/ /\ IoAt("loopRead")
       /\ \/ LaunchLoop /\ io' = "recheck" /\ UNCHANGED aborted
          \/ stream = "null" /\ Crash("null_stream")
       /\ UNCHANGED streamerVars

RecheckAlwaysRestarts ==                        \* mutant: state not looked at
    /\ IoAt("refused") \/ IoAt("recheck")
    /\ io' = "login"
    /\ UNCHANGED <<sessionVars, aborted, streamerVars>>

\* ... and, accepted or refused, a look at the state: not Active means failed, and
\* the procedure is repeated from within the callback.
RecheckLogin ==
    /\ IoAt("refused") \/ IoAt("recheck")
    /\ \/ /\ state = "Active"
          /\ io' = "idle"
          /\ UNCHANGED ops
          /\ ReadReturns
       \/ /\ state # "Active"
          /\ io' = "login"
          /\ UNCHANGED <<ops, buffer>>
    /\ UNCHANGED <<connVars, aborted, streamerVars>>

-----------------------------------------------------------------------------
(***************************************************************************)
(* Subscribing: the request is recorded first, then queued.                *)
(***************************************************************************)
Record(c) ==
    /\ CallerAt(c, "idle")
    /\ recorded < MaxSubs
    /\ recorded' = recorded + 1
    /\ asking' = [asking EXCEPT ![c] = recorded + 1]
    /\ GoTo(c, "queue")
    /\ UNCHANGED <<sessionVars, io, aborted, state, websocket, daemonVars, restoring,
                   restore, pauses, serverVars>>

\* push_back while the io thread iterates over the same vector, or while another
\* caller subscribes too: undefined.  It may go well (Record) or not.
RecordRaces(c) ==
    /\ CallerAt(c, "idle")
    /\ recorded < MaxSubs
    /\ \/ IoAt("restore") /\ restore # {}
       \/ recorded + 1 < MaxSubs /\ \E d \in Callers \ {c} : CallerAt(d, "idle")
    /\ Crash("record_race")
    /\ UNCHANGED streamerVars


\* asyncRequest; the request daemon is notified.
AsyncRequest(c) ==
    /\ CallerAt(c, "queue")
    /\ reqQueue' = Append(reqQueue, asking[c])
    /\ asking' = [asking EXCEPT ![c] = 0]
    /\ GoTo(c, "idle")
    /\ UNCHANGED <<sessionVars, io, aborted, state, runDaemon, websocket, daemon, held,
                   restoreVars, pauses, serverVars>>

-----------------------------------------------------------------------------

PauseState(c) ==
    /\ CallerAt(c, "idle")
    /\ state = "Active"
    /\ pauses < MaxPauses
    /\ pauses' = pauses + 1
    /\ state' = "Paused"
    /\ GoTo(c, "stopLoop")
    /\ UNCHANGED <<sessionVars, io, aborted, websocket, daemonVars, restoreVars, asking,
                   serverVars>>

PauseLoop(c) ==
    /\ CallerAt(c, "stopLoop")
    /\ \/ NoWebsocket
       \/ /\ websocket = "live"
          /\ StopReceiverLoop
          /\ GoTo(c, "idle")
          /\ UNCHANGED <<io, aborted, state, websocket, daemonVars, restoreVars, asking, pauses,
                         serverVars>>

Pause(c) == PauseState(c) \/ PauseLoop(c)

ResumeBegins(c) ==
    /\ CallerAt(c, "idle")
    /\ state = "Paused"
    /\ GoTo(c, "loopFlag")
    /\ UNCHANGED <<sessionVars, io, aborted, state, websocket, daemonVars, restoreVars,
                   asking, pauses, serverVars>>

\* The receiver loop is started first, as by the login ...
ResumeLoop(c) ==
    /\ \/ /\ CallerAt(c, "loopFlag")
          /\ websocket = "live"
          /\ SetReceiverFlag
          /\ GoTo(c, "loopTest")
       \/ /\ CallerAt(c, "loopTest")
          /\ GoTo(c, IF loopRunning THEN "activate" ELSE "loopMark")
          /\ UNCHANGED sessionVars
       \/ /\ CallerAt(c, "loopMark")
          /\ MarkLoop
          /\ GoTo(c, "loopRead")
       \/ /\ CallerAt(c, "loopRead")
          /\ websocket # "gone"
          /\ LaunchLoop
          /\ GoTo(c, "activate")
    /\ UNCHANGED <<io, aborted, state, websocket, daemonVars, restoreVars, asking, pauses,
                   serverVars>>

\* stop() may have released the websocket, the stream, or the io context on which
\* the read would run.
ResumeCrashes(c) ==
    \/ CallerAt(c, "loopFlag") /\ NoWebsocket
    \/ /\ CallerAt(c, "loopRead")
       /\ \/ stream = "null" /\ Crash("null_stream")
          \/ websocket = "gone" /\ Crash("null_websocket")
       /\ UNCHANGED streamerVars

\* ... and then the state set, whatever it has become meanwhile.
ResumeState(c) ==
    /\ CallerAt(c, "activate")
    /\ state' = "Active"
    /\ GoTo(c, "idle")
    /\ UNCHANGED <<sessionVars, io, aborted, websocket, daemonVars, restoreVars, asking, pauses,
                   serverVars>>

Resume(c) == ResumeBegins(c) \/ ResumeLoop(c) \/ ResumeCrashes(c) \/ ResumeState(c)

-----------------------------------------------------------------------------
(***************************************************************************)
(* Stopping: stop() and what ~Websocket and shutdown() do inside it.       *)
(***************************************************************************)
StopForgetsDaemon(c) ==                         \* mutant: run flag kept
    /\ MayStop
    /\ CallerAt(c, "idle")
    /\ websocket \in {"live", "gone"}
    /\ state' = "Inactive"
    /\ GoTo(c, "reset")
    /\ UNCHANGED <<sessionVars, io, aborted, websocket, daemonVars, restoreVars,
                   asking, pauses, serverVars>>

Stop(c) ==
    /\ MayStop
    /\ CallerAt(c, "idle")
    /\ websocket \in {"live", "gone"}
    /\ state' = "Inactive"
    /\ runDaemon' = FALSE
    /\ GoTo(c, "reset")
    /\ UNCHANGED <<sessionVars, io, aborted, websocket, reqQueue, daemon, held,
                   restoreVars, asking, pauses, serverVars>>

\* m_websocket.reset(): the pointer is null before the destructor runs, and the
\* destructor shuts the session down ...
ResetWebsocket(c) ==
    /\ CallerAt(c, "reset")
    /\ IF websocket = "live"
       THEN websocket' = "closing" /\ Disconnect /\ GoTo(c, "closeStream")
       ELSE GoTo(c, "idle") /\ UNCHANGED <<websocket, sessionVars>>
    /\ UNCHANGED <<io, aborted, state, daemonVars, restoreVars, asking, pauses, serverVars>>

ShutdownCloses(c) ==
    /\ CallerAt(c, "closeStream")
    /\ CloseStream("nothing")
    /\ GoTo(c, "joinIo")
    /\ UNCHANGED <<io, aborted, state, websocket, daemonVars, restoreVars, asking, pauses,
                   serverVars>>

JoinIoAtOnce(c) ==                              \* mutant: the io thread is not awaited
    /\ CallerAt(c, "joinIo")
    /\ websocket' = "gone"
    /\ GoTo(c, "idle")
    /\ UNCHANGED <<sessionVars, io, aborted, state, daemonVars, restoreVars, asking, pauses,
                   serverVars>>

\* ... and waits for the io thread, which ends when it has nothing left to do.
JoinIo(c) ==
    /\ CallerAt(c, "joinIo")
    /\ IoAt("idle") /\ NothingInFlight
    /\ websocket' = "gone"
    /\ GoTo(c, "idle")
    /\ UNCHANGED <<sessionVars, io, aborted, state, daemonVars, restoreVars, asking, pauses,
                   serverVars>>

\* Only the sender still owns the session: ~Websocket dropped its reference, and
\* no handler holds one.
SessionReleased ==
    /\ websocket = "gone" \/ \E c \in Callers : CallerAt(c, "joinIo")
    /\ IoAt("idle") /\ NothingInFlight

-----------------------------------------------------------------------------
(***************************************************************************)
(* The request daemon                                                      *)
(***************************************************************************)
MayHandOver ==
    /\ reqQueue # <<>>
    /\ state = "Active"
    /\ DaemonAt("loop") \/ (DaemonAt("wait") /\ runDaemon)

DaemonTakes ==
    /\ MayHandOver
    /\ held' = <<Head(reqQueue)>>
    /\ reqQueue' = Tail(reqQueue)
    /\ daemon' = "hold"
    /\ UNCHANGED <<sessionVars, io, aborted, state, runDaemon, websocket, restoreVars,
                   callerVars, serverVars>>

DaemonHandsOverIfActive ==                      \* mutant: dropped when paused
    /\ DaemonAt("hold")
    /\ websocket = "live"
    /\ IF state = "Active" THEN AsyncSend(Head(held)) ELSE UNCHANGED sessionVars
    /\ held' = <<>>
    /\ daemon' = "loop"
    /\ UNCHANGED <<io, aborted, state, runDaemon, websocket, reqQueue, restoreVars,
                   callerVars, serverVars>>

\* m_websocket is used here with no mutex held.
DaemonHandsOver ==
    /\ DaemonAt("hold")
    /\ \/ NoWebsocket
       \/ /\ websocket = "live"
          /\ AsyncSend(Head(held))
          /\ held' = <<>>
          /\ daemon' = "loop"
          /\ UNCHANGED <<io, aborted, state, runDaemon, websocket, reqQueue, restoreVars,
                         callerVars, serverVars>>

DaemonRests ==
    /\ \/ DaemonAt("loop") /\ ~MayHandOver /\ daemon' = "wait"
       \/ DaemonAt("wait") /\ ~runDaemon /\ daemon' = "exited"
    /\ UNCHANGED <<sessionVars, io, aborted, state, runDaemon, websocket, reqQueue, held,
                   restoreVars, callerVars, serverVars>>

-----------------------------------------------------------------------------
(***************************************************************************)
(* The sender, and the server at the other end: it answers logins, takes   *)
(* requests once logged in and ignores them before.                        *)
(***************************************************************************)
ServerTakes(m) ==
    /\ replies' = IF link /\ m = Login THEN replies + 1 ELSE replies
    /\ served' = IF link /\ m # Login /\ loggedIn THEN served \cup {m} ELSE served
    /\ UNCHANGED loggedIn

SenderStep ==
    \/ (SenderTakes \/ SenderRests \/ SenderExits(SessionReleased)) /\ UNCHANGED streamerVars
    \/ SenderCrashes /\ UNCHANGED streamerVars
    \/ /\ SenderWrites
       /\ ServerTakes(Head(outgoing))
       /\ UNCHANGED <<state, websocket, daemonVars, restoreVars, callerVars>>

-----------------------------------------------------------------------------
\* Another thread is about to update the session's flags.  (Of its update only
\* that of the run flags can matter: what asyncSend says of the message queue is
\* said again by the login that follows every connection.)
FlagsInUse ==
    DaemonAt("hold") \/ \E c \in Callers : at[c] \in {"stopLoop", "loopFlag", "reset"}

SessionHandlers ==
    \/ OnResolve \/ OnConnect \/ OnSSLHandshake \/ WebsocketIsRefused
    \/ OnReceiveLoop \/ OnClose \/ ClosedWithoutStream \/ DrainOnClose
    \/ AsyncReconnect(FlagsInUse)

IoStep ==
    \/ SessionHandlers /\ UNCHANGED streamerVars
    \/ Handshake \/ OnWebsocketUp \/ SendLogin \/ ReadLogin \/ RestoreSubscription
    \/ LoginAnswered \/ LoginAnswerEmpty \/ LoginAccepted \/ LoginStartsLoop \/ RecheckLogin

DaemonStep == DaemonTakes \/ DaemonHandsOver \/ DaemonRests

\* What a caller may call, and what it does once it has called.
CallerStep(c) ==
    \/ Start(c) \/ StartAgain(c) \/ Record(c) \/ RecordRaces(c) \/ AsyncRequest(c)
    \/ Pause(c) \/ Resume(c)
    \/ Stop(c) \/ ResetWebsocket(c) \/ ShutdownCloses(c) \/ JoinIo(c)

Next ==
    \/ IoStep \/ DaemonStep \/ SenderStep
    \/ \E c \in Callers : CallerStep(c)
    \/ LoseLink /\ UNCHANGED streamerVars

Spec == Init /\ [][Next]_vars

(***************************************************************************)
(* Fairness: every thread keeps running, operations in flight complete,    *)
(* the server answers.  Callers finish what they called but need not call. *)
(* Only the login's read has no timeout: when the link is lost in silence, *)
(* it need not end before the stream is closed.                            *)
(***************************************************************************)
UnheardLoginFails ==
    /\ stream = "open" /\ ~link
    /\ ops'[<<"login", "live">>] < ops[<<"login", "live">>]

Fairness ==
    /\ WF_vars(IoStep /\ ~UnheardLoginFails)
    /\ WF_vars(DaemonStep)
    /\ WF_vars(SenderStep)
    /\ \A c \in Callers : WF_vars(at[c] # "idle" /\ CallerStep(c))

FairSpec == Spec /\ Fairness

-----------------------------------------------------------------------------
(***************************************************************************)
(* Properties                                                              *)
(***************************************************************************)
Elements(q) == {q[i] : i \in DOMAIN q}
Pipeline == Elements(reqQueue) \cup Elements(held) \cup Elements(msgQueue)
                \cup Elements(outgoing)
Submitted == (1..recorded) \ {asking[c] : c \in Callers}
CallersIdle == \A c \in Callers : at[c] = "idle"
Settled == io = "idle" /\ conn = "WebsocketHandshaked" /\ loggedIn

\* Beast allows one read on a stream at a time; login, receiver loop and drain
\* are started from different places and must take turns (without pauses or stops).
OneReadOutstanding ==
    ops[<<"login", "live">>] + ops[<<"loop", "live">>] + ops[<<"drain", "live">>] <= 1

\* The streamer is Active, and so hands requests over, only on a connection it is
\* logged in to.  Between a handshake and the reconnection callback it is not so.
ActiveMeansLoggedIn ==
    state = "Active" /\ conn = "WebsocketHandshaked" /\ io # "handshaked" => loggedIn

\* A streamer that is Active and at rest reads: there is always a loop read that
\* brings data or notices that the connection is lost.
ActiveIsReading ==
    state = "Active" /\ Settled /\ CallersIdle => ops[<<"loop", "live">>] = 1

\* What the receiver loop hands to the data handler never begins with bytes of
\* another message: not those of a login response, nor of a message that a lost
\* connection cut short (without pauses or stops).
NothingGlued ==
    ops[<<"loop", "live">>] > 0 /\ io = "idle" => buffer \notin {"response", "leftover"}

\* After any number of reconnections, as soon as the streamer is logged in again,
\* every subscription is with the server or still on its way.
Resubscribed == loggedIn /\ link => Submitted \subseteq Pipeline \cup served

\* While the connection holds, no pause or resume loses a request.
NothingLost == websocket = "live" => Submitted \subseteq Pipeline \cup served

\* The destructor of the websocket waits for every operation in flight: nothing
\* calls back into a stopped streamer.
QuietAfterStop == websocket = "gone" => NothingInFlight /\ io = "idle"

\* A stopped streamer keeps no connection open, whoever pauses, resumes or stops it
\* at the same time.
StopDisconnects == websocket = "gone" => stream # "open"

\* The four ways in which a connection may come to nothing for good: the host is not
\* reached; a login is retried with a buffer in which no answer arrives whole
\* (OnReadData), or waits for its answer on a link that was lost in silence; or the new
\* sender found its run flag undone and exited.
Connecting ==
    \E op \in {"resolve", "connect", "ssl", "websocket"}, l \in Life : ops[<<op, l>>] > 0
Unanswered == buffer \in {"response", "torn"} /\ ~loggedIn
Unheard    == stream = "open" /\ ~link /\ ops[<<"login", "live">>] > 0
Senderless == sender = "exited" /\ conn = "WebsocketHandshaked"
Stalled    == Connecting \/ Unanswered \/ Unheard \/ Senderless

\* Unless it stalls for good in one of these ways, a started streamer always gets
\* (back) to being logged in over a link that holds.
Up == link /\ loggedIn
Recovers == websocket = "live" /\ ~Up ~> Up \/ aborted # "no" \/ []Stalled


\* Nothing is under way but the reads of the receiver loop.
AtRest ==
    /\ aborted = "no" /\ io = "idle" /\ CallersIdle
    /\ \A x \in (Op \X Life) \ {<<"loop", "live">>} : ops[x] = 0
    /\ daemon \in {"wait", "exited"} /\ ~MayHandOver
    /\ sender \in {"wait", "exited"} /\ ~MaySendMessage


\* stop() returns, although it waits for the io thread, unless a handshake that nobody
\* wants any more is retried for ever.
StopReturns ==
    \A c \in Callers :
        at[c] = "reset" ~> at[c] = "idle" \/ aborted # "no" \/ []Connecting

\* And both daemons end.
StopEndsDaemons ==
    websocket = "gone" ~> (daemon = "exited" /\ sender = "exited") \/ aborted # "no"

-----------------------------------------------------------------------------
(***************************************************************************)
(* What the comments say and the code does not do (violation runs).        *)
(***************************************************************************)
\* "start the receiver loop" (resume): after it, the loop is running.
ResumeStartsLoop ==
    state = "Active" /\ Settled /\ CallersIdle => ops[<<"loop", "live">>] > 0

\* "Will retry in 5 seconds..." (login response handler): a login that was refused
\* is retried, and over a link that holds the retry can succeed.
LoginRetrySucceeds == io = "refused" ~> loggedIn \/ aborted # "no"

\* "You can call stop() to terminate the streamer [...] It will cleanup after
\* itself" (streamer.h): a stop does not leave handlers with dangling pointers.
StopLeavesNothingDangling == aborted \notin {"null_stream", "null_websocket"}
=============================================================================
