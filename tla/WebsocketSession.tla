-------------------------- MODULE WebsocketSession --------------------------
(***************************************************************************)
(* websocketSession.cpp: one websocket connection, its reconnection, its   *)
(* receiver loop and its sender.  Three kinds of threads act on it: the io *)
(* thread, on which every handler runs; the sender daemon; and the threads *)
(* of the owner.  `io` is where the io thread is: "idle" in the event loop,*)
(* any other value in the middle of a handler, at a point where the code   *)
(* takes or has just released a mutex or reads a field no mutex guards.    *)
(*                                                                         *)
(* The module defines the steps; Streamer.tla, the owner, composes them.   *)
(* The message queue is the FIFO channel SenderDaemon.tla implements, its  *)
(* flag and wakeups left out.                                              *)
(***************************************************************************)
EXTENDS Naturals, Sequences

CONSTANT MaxFaults       \* bound: lost links, refused logins

ASSUME MaxFaultsAssumption == MaxFaults \in Nat

VARIABLES
    conn,                \* CVState::_state
    runSender,           \* flag RunSenderDaemon
    runReceiver,         \* flag RunReceiverLoop
    loopRunning,         \* m_receiverLoopRunning, guarded by no mutex
    shouldReconnect,     \* m_shouldReconnectReceiverLoop, guarded by no mutex
    stream,              \* m_websocketStream and what is_open() says of it
    link,                \* the peer is still there
    ops,                 \* asynchronous operations in flight
    buffer,              \* m_buffer: what a read finds in it
    msgQueue,            \* m_messageQueue
    sender,              \* where the sender daemon is
    outgoing,            \* what the sender popped and is writing
    onHandshake,         \* the callback bound to the handshake
    onClosed,            \* the callback bound to the close
    io,                  \* where the io thread is
    faults,              \* faults so far
    aborted              \* why the process died, "no" while it runs

sessionVars == <<conn, runSender, runReceiver, loopRunning, shouldReconnect,
                 stream, link, ops, buffer, msgQueue, sender, outgoing, onHandshake,
                 onClosed, faults>>

flagVars   == <<conn, runSender, runReceiver>>
loopVars   == <<loopRunning, shouldReconnect>>
senderVars == <<msgQueue, sender, outgoing>>
boundVars  == <<onHandshake, onClosed>>
connVars   == <<flagVars, loopVars, stream, link, senderVars, boundVars, faults>>

ConnState == {"Disconnected", "HostResolved", "Connected", "SSLHandshaked",
              "WebsocketHandshaked"}

\* "null"; "fresh" before the handshake; "open"; "closing" once async_close was
\* called; "failed" after a read failed.  is_open() holds of "open" only.
StreamState == {"null", "fresh", "open", "closing", "failed"}

Op == {"resolve", "connect", "ssl", "websocket", "login", "loop", "close", "drain"}
Reads == {"login", "loop", "drain"}

\* An operation is live, or dead: its stream was destroyed, and its handler is
\* still going to be called, with an error or, if it had completed just before, with
\* success.
Life == {"live", "dead"}

SessionTypeOK ==
    /\ conn \in ConnState
    /\ {runSender, runReceiver, loopRunning, shouldReconnect, link} \subseteq BOOLEAN
    /\ stream \in StreamState
    /\ ops \in [Op \X Life -> Nat]
    /\ buffer \in {"clean", "leftover", "response", "torn"}
    /\ sender \in {"none", "wait", "loop", "write", "exited"}
    /\ onHandshake \in {"connected", "reconnected"}
    /\ onClosed \in {"nothing", "reconnect"}
    /\ faults \in 0..MaxFaults
    /\ aborted \in {"no", "null_stream", "null_websocket", "write_error",
                    "thread_replaced", "self_join", "record_race", "empty_response"}

SessionInit ==
    /\ conn = "Disconnected"
    /\ runSender = FALSE /\ runReceiver = FALSE
    /\ loopRunning = FALSE /\ shouldReconnect = FALSE
    /\ stream = "null" /\ link = FALSE
    /\ ops = [x \in Op \X Life |-> 0] /\ buffer = "clean"
    /\ msgQueue = <<>> /\ sender = "none" /\ outgoing = <<>>
    /\ onHandshake = "connected" /\ onClosed = "nothing"
    /\ io = "idle"
    /\ faults = 0
    /\ aborted = "no"

-----------------------------------------------------------------------------
(***************************************************************************)
(* Operations in flight                                                    *)
(***************************************************************************)
Started(o, op)     == [o EXCEPT ![<<op, "live">>] = @ + 1]
Completed(o, op, l) == [o EXCEPT ![<<op, l>>] = @ - 1]

\* Destroying the stream cancels what runs on it; the resolver is not part of it.
Cancelled(o) ==
    [x \in Op \X Life |->
        IF x[1] = "resolve" THEN o[x]
        ELSE IF x[2] = "live" THEN 0 ELSE o[<<x[1], "live">>] + o[x]]

NothingInFlight == \A x \in Op \X Life : ops[x] = 0

\* Where a thread is, while the process lives.
IoAt(place)     == aborted = "no" /\ io = place
SenderAt(place) == aborted = "no" /\ sender = place

Crash(why) ==
    /\ aborted' = why
    /\ UNCHANGED <<sessionVars, io>>

-----------------------------------------------------------------------------
(***************************************************************************)
(* Connecting: asyncConnect and the four handshake handlers.               *)
(***************************************************************************)
\* The run flag is set without the mutex.  An update of the same byte by another
\* thread (`contended`) that overlaps it may undo it, as SenderDaemon!LaunchTorn.
AsyncConnect(callback, contended) ==
    /\ runSender' = TRUE \/ (contended /\ UNCHANGED runSender)
    /\ sender' = "wait"
    /\ stream' = "fresh"
    /\ ops' = Started(Cancelled(ops), "resolve")
    /\ onHandshake' = callback
    /\ UNCHANGED <<conn, runReceiver, loopVars, link, buffer, msgQueue, outgoing,
                   onClosed, faults>>

\* A handshake step that succeeds records how far it got and starts the next ...
Advance(op, reached, next) ==
    \E l \in Life :
        /\ IoAt("idle")
        /\ ops[<<op, l>>] > 0
        /\ stream # "null"
        /\ conn' = reached
        /\ ops' = Started(Completed(ops, op, l), next)
        /\ UNCHANGED <<runSender, runReceiver, loopVars, stream, link, buffer,
                       senderVars, boundVars, io, faults, aborted>>

\* ... on a stream that asyncDisconnect may have released meanwhile.
AdvanceWithoutStream(op) ==
    /\ IoAt("idle")
    /\ \E l \in Life : ops[<<op, l>>] > 0
    /\ stream = "null"
    /\ Crash("null_stream")

RetrySwapped(op) ==                             \* mutant: cancelled, then counted
    \E l \in Life :
        /\ IoAt("idle")
        /\ ops[<<op, l>>] > 0
        /\ stream' = "fresh"
        /\ ops' = Started(Completed(Cancelled(ops), op, l), "resolve")
        /\ UNCHANGED <<flagVars, loopVars, link, buffer, senderVars, boundVars, io,
                       faults, aborted>>

\* One that fails, as often as it does, sleeps, makes a new stream and starts from the
\* beginning.  It asks nobody whether the connection is still wanted.
Retry(op) ==
    \E l \in Life :
        /\ IoAt("idle")
        /\ ops[<<op, l>>] > 0
        /\ stream' = "fresh"
        /\ ops' = Started(Cancelled(Completed(ops, op, l)), "resolve")
        /\ UNCHANGED <<flagVars, loopVars, link, buffer, senderVars, boundVars, io,
                       faults, aborted>>

HandshakeStep(op, reached, next) ==
    Advance(op, reached, next) \/ AdvanceWithoutStream(op) \/ Retry(op)

OnResolve      == HandshakeStep("resolve", "HostResolved", "connect")
OnConnect      == HandshakeStep("connect", "Connected", "ssl")
OnSSLHandshake == HandshakeStep("ssl", "SSLHandshaked", "websocket")

\* The connection is up, unless its stream is gone already; the owner's callback
\* runs next, on this thread, in either case.
WebsocketIsUp(l) ==
    /\ IoAt("idle")
    /\ ops[<<"websocket", l>>] > 0
    /\ conn' = "WebsocketHandshaked"
    /\ stream' = IF l = "live" THEN "open" ELSE stream
    /\ link' = (link \/ l = "live")
    /\ ops' = Completed(ops, "websocket", l)
    /\ io' = "handshaked"
    /\ UNCHANGED <<runSender, runReceiver, loopVars, buffer, senderVars, boundVars,
                   faults, aborted>>

WebsocketIsRefused == Retry("websocket")

\* The network loses the connection; nobody notices before the next read.
LoseLink ==
    /\ aborted = "no"
    /\ link
    /\ stream = "open"
    /\ faults < MaxFaults
    /\ link' = FALSE
    /\ faults' = faults + 1
    /\ UNCHANGED <<flagVars, loopVars, stream, ops, buffer, senderVars, boundVars, io,
                   aborted>>

-----------------------------------------------------------------------------
(***************************************************************************)
(* Reading: asyncReceive and the receiver loop.                            *)
(***************************************************************************)
\* Data can still arrive while the stream is being closed.
Healthy == stream = "open" /\ link
CanRead == stream \in {"open", "closing"} /\ link

\* A read brings data: it is live and can, or it is dead and did so just before.
Brings(op, l) == ops[<<op, l>>] > 0 /\ (l = "live" => CanRead)

\* m_buffer.clear().  A read in flight has its place in the buffer prepared, and
\* loses it: what it reads first is dropped.
Cleared(o) == IF \E op \in Reads : o[<<op, "live">>] > 0 THEN "torn" ELSE "clean"

\* What a read that failed or was abandoned may have left there.
Remains == {IF buffer = "torn" THEN "clean" ELSE buffer, "leftover"}

\* async_read for the login response, and for the loop.
AsyncReceive ==
    /\ stream # "null"
    /\ ops' = Started(ops, "login")
    /\ UNCHANGED connVars

\* A read that fails leaves a stream that is no longer open.
ReadFails(op, l) ==
    /\ ops[<<op, l>>] > 0
    /\ l = "live" => ~Healthy
    /\ stream' = IF l = "live" /\ stream = "open" THEN "failed" ELSE stream
    /\ ops' = Completed(ops, op, l)

\* onRead: the callback runs with the response still in the buffer, which is
\* cleared only when it returns.
OnReadError ==
    \E l \in Life :
        /\ IoAt("idle")
        /\ ReadFails("login", l)
        /\ buffer' = "response"
        /\ io' = "refused"
        /\ UNCHANGED <<flagVars, loopVars, link, senderVars, boundVars, faults,
                       aborted>>

\* A response that is glued to something, or lost its beginning, is no JSON.
OnReadData(answer) ==
    \E l \in Life :
        /\ IoAt("idle")
        /\ Brings("login", l)
        /\ IF buffer = "clean"
           THEN /\ answer = "refused" => faults < MaxFaults
                /\ faults' = IF answer = "refused" THEN faults + 1 ELSE faults
           ELSE answer = "refused" /\ UNCHANGED faults
        /\ ops' = Completed(ops, "login", l)
        /\ buffer' = "response"
        /\ io' = answer
        /\ UNCHANGED <<flagVars, loopVars, stream, link, senderVars, boundVars, aborted>>

ReadKeepsResponse == UNCHANGED buffer           \* mutant: buffer not cleared

\* The end of onRead, if that is what the io thread is in.
ReadReturns == buffer' = IF buffer = "response" THEN Cleared(ops') ELSE buffer

\* asyncConnect's update of the flags may undo one that overlaps it.
Overwritten == io = "join"

\* startReceiverLoop, first the flag (under the mutex) ...
SetReceiverFlag ==
    /\ runReceiver' = TRUE \/ (Overwritten /\ UNCHANGED runReceiver)
    /\ UNCHANGED <<conn, runSender, loopVars, stream, link, ops, buffer, senderVars,
                   boundVars, faults>>

\* ... then, under none, unless a loop is believed to be running when that is tested
\* (by Streamer.tla), the two fields and the read.
MarkLoop ==
    /\ loopRunning' = TRUE
    /\ UNCHANGED <<flagVars, shouldReconnect, stream, link, ops, buffer, senderVars,
                   boundVars, faults>>

LaunchLoop ==
    /\ stream # "null"
    /\ shouldReconnect' = TRUE
    /\ ops' = Started(ops, "loop")
    /\ UNCHANGED <<flagVars, loopRunning, stream, link, buffer, senderVars, boundVars,
                   faults>>

StopReceiverLoop ==
    /\ runReceiver' = FALSE \/ (Overwritten /\ UNCHANGED runReceiver)
    /\ UNCHANGED <<conn, runSender, loopVars, stream, link, ops, buffer, senderVars,
                   boundVars, faults>>

ReceiveLoopFailsQuietly(l) ==                   \* mutant: loop believed running
    /\ IoAt("idle")
    /\ ReadFails("loop", l)
    /\ buffer' \in Remains
    /\ runReceiver' = FALSE
    /\ io' = IF shouldReconnect THEN "reconnect" ELSE "idle"
    /\ UNCHANGED <<conn, runSender, loopVars, link, senderVars, boundVars, faults,
                   aborted>>

\* onReceiveLoop, the read failed: the loop is over and, unless it had been
\* stopped, the connection is made anew.  The test reads shouldReconnect without
\* a mutex, and asyncDisconnect comes after it.
ReceiveLoopFails(l) ==
    /\ IoAt("idle")
    /\ ReadFails("loop", l)
    /\ buffer' \in Remains
    /\ runReceiver' = FALSE
    /\ loopRunning' = FALSE
    /\ io' = IF shouldReconnect THEN "reconnect" ELSE "idle"
    /\ UNCHANGED <<conn, runSender, shouldReconnect, link, senderVars, boundVars,
                   faults, aborted>>

\* onReceiveLoop, data: hand it to the data handler and read on ...
ReceiveLoopReadsOn(l) ==
    /\ IoAt("idle")
    /\ Brings("loop", l)
    /\ stream # "null"
    /\ conn = "WebsocketHandshaked"
    /\ runReceiver
    /\ ops' = Started(Completed(ops, "loop", l), "loop")
    /\ buffer' = Cleared(Completed(ops, "loop", l))
    /\ UNCHANGED <<connVars, io, aborted>>

\* ... or, the connection being torn down, read no more ...
ReceiveLoopDisconnected(l) ==
    /\ IoAt("idle")
    /\ Brings("loop", l)
    /\ stream # "null"
    /\ conn # "WebsocketHandshaked"
    /\ ops' = Completed(ops, "loop", l)
    /\ buffer' = Cleared(ops')
    /\ UNCHANGED <<connVars, io, aborted>>

\* ... or, the loop being stopped, say so in two more steps, the mutex released.
ReceiveLoopStopping(l) ==
    /\ IoAt("idle")
    /\ Brings("loop", l)
    /\ stream # "null"
    /\ conn = "WebsocketHandshaked"
    /\ ~runReceiver
    /\ ops' = Completed(ops, "loop", l)
    /\ buffer' = "leftover"
    /\ io' = "stopLoop"
    /\ UNCHANGED <<connVars, aborted>>

ReceiveLoopStopped ==
    /\ \/ /\ IoAt("stopLoop")
          /\ loopRunning' = FALSE
          /\ io' = "stopReconnect"
          /\ UNCHANGED shouldReconnect
       \/ /\ IoAt("stopReconnect")
          /\ shouldReconnect' = FALSE
          /\ io' = "idle"
          /\ UNCHANGED loopRunning
    /\ UNCHANGED <<flagVars, stream, link, ops, buffer, senderVars, boundVars, faults,
                   aborted>>

\* The first thing a successful read does is to use the stream.
ReceivedWithoutStream(l) ==
    /\ IoAt("idle")
    /\ Brings("loop", l)
    /\ stream = "null"
    /\ Crash("null_stream")

OnReceiveLoop ==
    \/ \E l \in Life :
          ReceiveLoopFails(l) \/ ReceiveLoopReadsOn(l) \/ ReceiveLoopDisconnected(l)
              \/ ReceiveLoopStopping(l) \/ ReceivedWithoutStream(l)
    \/ ReceiveLoopStopped

-----------------------------------------------------------------------------
(***************************************************************************)
(* Disconnecting: asyncDisconnect in its two parts, and what follows.      *)
(***************************************************************************)
DisconnectKeepsSender ==                        \* mutant: sender left running
    /\ conn' = "Disconnected"
    /\ runReceiver' = FALSE
    /\ shouldReconnect' = FALSE
    /\ UNCHANGED <<runSender, loopRunning, stream, link, ops, buffer, senderVars,
                   boundVars, faults>>

\* Under the mutex: the state and every flag.  The sender is notified.
Disconnect ==
    /\ conn' = "Disconnected"
    /\ runReceiver' = FALSE \/ (Overwritten /\ UNCHANGED runReceiver)
    /\ runSender' = FALSE
    /\ shouldReconnect' = FALSE
    /\ UNCHANGED <<loopRunning, stream, link, ops, buffer, senderVars, boundVars,
                   faults>>

CloseStreamUnlessOpen(callback) ==              \* mutant: open streams left alone
    /\ IF stream = "open"
       THEN UNCHANGED <<stream, ops>>
       ELSE stream' = "null" /\ ops' = Cancelled(ops)
    /\ UNCHANGED <<flagVars, loopVars, link, buffer, senderVars, boundVars, faults>>

\* After it: close an open stream, release any other.  The callback is called at
\* once unless there is something to wait for.
CloseStream(callback) ==
    /\ IF stream = "open"
       THEN /\ stream' = "closing"
            /\ ops' = Started(ops, "close")
            /\ onClosed' = callback
       ELSE /\ stream' = "null"
            /\ ops' = Cancelled(ops)
            /\ UNCHANGED onClosed
    /\ UNCHANGED <<flagVars, loopVars, link, buffer, senderVars, onHandshake, faults>>

Closed == IF onClosed = "reconnect" THEN "join" ELSE "idle"

\* onClose: gone already, drain what is left, or only log an error, such as a
\* timeout.
OnClose ==
    \E l \in Life :
        /\ IoAt("idle")
        /\ ops[<<"close", l>>] > 0
        /\ \/ /\ stream' = "null"               \* stream_truncated
              /\ ops' = Cancelled(Completed(ops, "close", l))
              /\ io' = Closed
           \/ /\ l = "live" => link             \* success
              /\ stream # "null"
              /\ ops' = Started(Completed(ops, "close", l), "drain")
              /\ UNCHANGED <<stream, io>>
           \/ /\ ops' = Completed(ops, "close", l) \* any other error
              /\ UNCHANGED <<stream, io>>
        /\ UNCHANGED <<flagVars, loopVars, link, buffer, senderVars, boundVars,
                       faults, aborted>>

\* A close that succeeded, of a stream that is gone since, has nothing to drain.
ClosedWithoutStream ==
    /\ IoAt("idle")
    /\ ops[<<"close", "dead">>] > 0
    /\ stream = "null"
    /\ Crash("null_stream")

DrainForever ==                                 \* mutant: error::closed not awaited
    \E l \in Life :
        /\ IoAt("idle")
        /\ ops[<<"drain", l>>] > 0
        /\ l = "live" => ~link
        /\ ops' = Completed(ops, "drain", l)
        /\ UNCHANGED <<flagVars, loopVars, stream, link, buffer, senderVars,
                       boundVars, io, faults, aborted>>

\* drainOnClose: reads on (not a step here) until the peer's close arrives.
DrainOnClose ==
    \E l \in Life :
        /\ IoAt("idle")
        /\ ops[<<"drain", l>>] > 0
        /\ \/ /\ stream' = "null"               \* error::closed
              /\ ops' = Cancelled(Completed(ops, "drain", l))
              /\ io' = Closed
           \/ /\ ops' = Completed(ops, "drain", l) \* any other error
              /\ UNCHANGED <<stream, io>>
        /\ buffer' \in Remains
        /\ UNCHANGED <<flagVars, loopVars, link, senderVars, boundVars, faults, aborted>>

\* asyncReconnect: disconnect, and then, from the callback, join and connect.
ReconnectDisconnects ==
    /\ IoAt("reconnect")
    /\ Disconnect
    /\ io' = "closeStream"
    /\ UNCHANGED aborted

ReconnectCloses ==
    /\ IoAt("closeStream")
    /\ CloseStream("reconnect")
    /\ io' = IF stream = "open" THEN "idle" ELSE "join"
    /\ UNCHANGED aborted

ReconnectConnects(contended) ==
    /\ IoAt("join")
    /\ sender \in {"none", "exited"}
    /\ AsyncConnect("reconnected", contended)
    /\ io' = "idle"
    /\ UNCHANGED aborted

AsyncReconnect(contended) ==
    ReconnectDisconnects \/ ReconnectCloses \/ ReconnectConnects(contended)

-----------------------------------------------------------------------------
(***************************************************************************)
(* Sending: the sender daemon.  "wait" is the condition variable, "loop"   *)
(* the inner loop, "write" a popped message, both mutexes released.        *)
(***************************************************************************)
AsyncSend(m) ==
    /\ msgQueue' = Append(msgQueue, m)
    /\ UNCHANGED <<flagVars, loopVars, stream, link, ops, buffer, sender, outgoing,
                   boundVars, faults>>

MaySendMessage ==
    /\ msgQueue # <<>>
    /\ conn = "WebsocketHandshaked"
    /\ SenderAt("loop") \/ (SenderAt("wait") /\ runSender)

SenderTakes ==
    /\ MaySendMessage
    /\ outgoing' = <<Head(msgQueue)>>
    /\ msgQueue' = Tail(msgQueue)
    /\ sender' = "write"
    /\ UNCHANGED <<flagVars, loopVars, stream, link, ops, buffer, boundVars, io,
                   faults, aborted>>

SenderRests ==
    /\ SenderAt("loop")
    /\ ~MaySendMessage
    /\ sender' = "wait"
    /\ UNCHANGED <<flagVars, loopVars, stream, link, ops, buffer, msgQueue, outgoing,
                   boundVars, io, faults, aborted>>

\* A write on a stream that is not open throws, and nothing on the sender's
\* thread catches it.  On a lost link it may still seem to succeed.
SenderWrites ==
    /\ SenderAt("write")
    /\ stream = "open"
    /\ outgoing' = <<>>
    /\ sender' = "loop"
    /\ UNCHANGED <<flagVars, loopVars, stream, link, ops, buffer, msgQueue, boundVars,
                   io, faults, aborted>>

SenderCrashes ==
    /\ SenderAt("write")
    /\ ~Healthy
    /\ Crash(IF stream = "null" THEN "null_stream" ELSE "write_error")

\* `released`: nobody else owns the session any more, so that its destructor
\* runs on the sender's own thread, which then joins itself.
SenderExits(released) ==
    /\ SenderAt("wait")
    /\ ~runSender
    /\ sender' = "exited"
    /\ aborted' = IF released THEN "self_join" ELSE "no"
    /\ UNCHANGED <<flagVars, loopVars, stream, link, ops, buffer, msgQueue, outgoing,
                   boundVars, io, faults>>
=============================================================================
