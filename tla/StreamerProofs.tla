--------------------------- MODULE StreamerProofs ---------------------------
(***************************************************************************)
(* Proofs about Streamer.tla for any number of threads, subscriptions,     *)
(* logins, pauses and faults: what a streamer that was stopped leaves      *)
(* behind.                                                                 *)
(***************************************************************************)
EXTENDS Streamer, TLAPS

Closers == {"closeStream", "joinIo"}
Places == {"idle", "queue", "stopLoop", "loopFlag", "loopTest", "loopMark", "loopRead",
           "activate", "reset"} \cup Closers

\* One thread at a time is inside ~Websocket, and it was the one that reset the
\* pointer.
OneCloser ==
    /\ at \in [Callers -> Places]
    /\ \A c \in Callers : at[c] \in Closers => websocket = "closing"
    /\ \A c, d \in Callers : at[c] \in Closers /\ at[d] \in Closers => c = d

\* A stream can be open again after it was closed, if a connection was being made
\* anew at that moment; then the io thread is on its way to the login, where it
\* finds no websocket.
ReopenedIsLost ==
    \A c \in Callers :
        at[c] = "joinIo" /\ stream = "open" => io \in {"handshaked", "login"}

StopInv == OneCloser /\ ReopenedIsLost /\ QuietAfterStop /\ StopDisconnects

\* Nothing was stopped at the start.
LEMMA StopInit == Init => StopInv
  BY DEF Init, SessionInit, StopInv, OneCloser, ReopenedIsLost, QuietAfterStop,
         StopDisconnects, Closers, Places

\* A step that leaves callers and websocket alone keeps the invariant if it cannot
\* be taken once the websocket is gone, and opens the stream only on the way to the
\* login.
LEMMA IoKeeps ==
  ASSUME StopInv,
         UNCHANGED <<at, websocket>>,
         websocket # "gone",
         stream' = "open" =>
             \/ io' = "handshaked"
             \/ /\ stream = "open"
                /\ io \in {"handshaked", "login"} => io' \in {"handshaked", "login"}
  PROVE  StopInv'
  BY DEF StopInv, OneCloser, ReopenedIsLost, QuietAfterStop, StopDisconnects

\* A step that leaves stream, operations, io thread and websocket alone keeps it as
\* long as no caller enters ~Websocket.
LEMMA CallerKeeps ==
  ASSUME StopInv,
         UNCHANGED <<stream, ops, io, websocket>>,
         at' \in [Callers -> Places],
         \A c \in Callers : at'[c] \in Closers => at'[c] = at[c]
  PROVE  StopInv'
  BY DEF StopInv, OneCloser, ReopenedIsLost, QuietAfterStop, StopDisconnects,
         NothingInFlight, Closers

\* Handlers run on operations in flight, of which a websocket that is gone has none.
LEMMA HandlerBefore ==
  ASSUME StopInv, NEW x \in Op \X Life, ops[x] > 0
  PROVE  websocket # "gone"
  BY DEF StopInv, QuietAfterStop, NothingInFlight

\* The same for the places of the io thread.
LEMMA PlaceBefore ==
  ASSUME StopInv, io # "idle"
  PROVE  websocket # "gone"
  BY DEF StopInv, QuietAfterStop

\* The handlers of the session.
LEMMA SessionStep ==
  ASSUME StopInv, SessionHandlers, UNCHANGED streamerVars
  PROVE  StopInv'
  <1> USE DEF streamerVars, IoAt, Crash, flagVars, loopVars, senderVars, boundVars
  <1>1. ASSUME NEW op \in Op, Retry(op) PROVE StopInv'
    <2> PICK l \in Life : ops[<<op, l>>] > 0 /\ stream' = "fresh"
      BY <1>1 DEF Retry
    <2>1. websocket # "gone"
      BY HandlerBefore
    <2> QED
      BY <2>1, IoKeeps
  <1>2. ASSUME NEW op \in Op, NEW reached, NEW next, Advance(op, reached, next)
        PROVE  StopInv'
    <2> PICK l \in Life : ops[<<op, l>>] > 0 /\ UNCHANGED <<stream, io>>
      BY <1>2 DEF Advance
    <2>1. websocket # "gone"
      BY HandlerBefore
    <2> QED
      BY <2>1, IoKeeps
  <1>0. ASSUME Crash("null_stream") PROVE StopInv'
    BY <1>0, CallerKeeps DEF sessionVars, StopInv, OneCloser
  <1>3. CASE OnResolve
    BY <1>0, <1>1, <1>2, <1>3 DEF OnResolve, HandshakeStep, AdvanceWithoutStream, Op
  <1>4. CASE OnConnect
    BY <1>0, <1>1, <1>2, <1>4 DEF OnConnect, HandshakeStep, AdvanceWithoutStream, Op
  <1>5. CASE OnSSLHandshake
    BY <1>0, <1>1, <1>2, <1>5 DEF OnSSLHandshake, HandshakeStep, AdvanceWithoutStream, Op
  <1>6. CASE WebsocketIsRefused
    BY <1>1, <1>6 DEF WebsocketIsRefused, Op
  <1>7. CASE OnReceiveLoop
    <2>1. ASSUME NEW l \in Life, ReceiveLoopFails(l) PROVE StopInv'
      <3>1. websocket # "gone"
        BY <2>1, HandlerBefore DEF ReceiveLoopFails, ReadFails, Op
      <3> QED
        BY <2>1, <3>1, IoKeeps DEF ReceiveLoopFails, ReadFails
    <2>2. ASSUME NEW l \in Life, ReceiveLoopReadsOn(l) PROVE StopInv'
      <3>1. websocket # "gone"
        BY <2>2, HandlerBefore DEF ReceiveLoopReadsOn, Brings, Op
      <3> QED
        BY <2>2, <3>1, IoKeeps DEF ReceiveLoopReadsOn, connVars
    <2>3. ASSUME NEW l \in Life, ReceiveLoopDisconnected(l) PROVE StopInv'
      <3>1. websocket # "gone"
        BY <2>3, HandlerBefore DEF ReceiveLoopDisconnected, Brings, Op
      <3> QED
        BY <2>3, <3>1, IoKeeps DEF ReceiveLoopDisconnected, connVars
    <2>4. ASSUME NEW l \in Life, ReceiveLoopStopping(l) PROVE StopInv'
      <3>1. websocket # "gone"
        BY <2>4, HandlerBefore DEF ReceiveLoopStopping, Brings, Op
      <3> QED
        BY <2>4, <3>1, IoKeeps DEF ReceiveLoopStopping, connVars
    <2>5. CASE ReceiveLoopStopped
      <3>1. websocket # "gone"
        BY <2>5, PlaceBefore DEF ReceiveLoopStopped
      <3> QED
        BY <2>5, <3>1, IoKeeps DEF ReceiveLoopStopped
    <2> QED
      BY <1>0, <1>7, <2>1, <2>2, <2>3, <2>4, <2>5 DEF OnReceiveLoop, ReceivedWithoutStream
  <1>8. CASE OnClose
    <2> PICK l \in Life : ops[<<"close", l>>] > 0
      BY <1>8 DEF OnClose
    <2>1. websocket # "gone"
      BY HandlerBefore DEF Op
    <2> QED
      BY <1>8, <2>1, IoKeeps DEF OnClose, Closed
  <1>9. CASE DrainOnClose
    <2> PICK l \in Life : ops[<<"drain", l>>] > 0
      BY <1>9 DEF DrainOnClose
    <2>1. websocket # "gone"
      BY HandlerBefore DEF Op
    <2> QED
      BY <1>9, <2>1, IoKeeps DEF DrainOnClose, Closed
  <1>10. CASE AsyncReconnect(FlagsInUse)
    <2>1. io \in {"reconnect", "closeStream", "join"}
      BY <1>10 DEF AsyncReconnect, ReconnectDisconnects, ReconnectCloses, ReconnectConnects
    <2>2. websocket # "gone"
      BY <2>1, PlaceBefore
    <2>3. CASE ReconnectDisconnects
      BY <2>1, <2>2, <2>3, IoKeeps DEF ReconnectDisconnects, Disconnect
    <2>4. CASE ReconnectCloses
      BY <2>1, <2>2, <2>4, IoKeeps DEF ReconnectCloses, CloseStream
    <2>5. CASE ReconnectConnects(FlagsInUse)
      BY <2>1, <2>2, <2>5, IoKeeps DEF ReconnectConnects, AsyncConnect
    <2> QED
      BY <1>10, <2>3, <2>4, <2>5 DEF AsyncReconnect
  <1>11. CASE ClosedWithoutStream
    BY <1>0, <1>11 DEF ClosedWithoutStream
  <1> QED
    BY <1>3, <1>4, <1>5, <1>6, <1>7, <1>8, <1>9, <1>10, <1>11 DEF SessionHandlers

\* What the streamer does on the io thread.
LEMMA IoThreadStep ==
  ASSUME StopInv, IoStep
  PROVE  StopInv'
  <1> USE DEF streamerVars, serverVars, callerVars, daemonVars, restoreVars, IoAt
  <1>0. ASSUME Crash("null_websocket") \/ Crash("null_stream") \/ Crash("empty_response"),
               UNCHANGED streamerVars
        PROVE  StopInv'
    BY <1>0, CallerKeeps DEF Crash, sessionVars, StopInv, OneCloser
  <1>1. CASE SessionHandlers /\ UNCHANGED streamerVars
    BY <1>1, SessionStep
  <1>2. CASE Handshake
    <2> PICK l \in Life : WebsocketIsUp(l)
      BY <1>2 DEF Handshake, Life
    <2>1. websocket # "gone"
      BY HandlerBefore DEF WebsocketIsUp, Op
    <2> QED
      BY <1>2, <2>1, IoKeeps DEF Handshake, WebsocketIsUp
  <1>3. CASE OnWebsocketUp
    <2>1. websocket # "gone"
      BY <1>3, PlaceBefore DEF OnWebsocketUp
    <2> QED
      BY <1>3, <2>1, IoKeeps DEF OnWebsocketUp, sessionVars
  <1>4. CASE SendLogin
    <2>1. CASE NoWebsocket
      BY <1>0, <2>1 DEF NoWebsocket
    <2>2. CASE websocket = "live" /\ AsyncSend(Login) /\ io' = "loginRead"
                  /\ UNCHANGED streamerVars
      BY <2>2 DEF AsyncSend, StopInv, OneCloser, ReopenedIsLost, QuietAfterStop,
                  StopDisconnects, Closers
    <2> QED
      BY <1>4, <2>1, <2>2 DEF SendLogin
  <1>5. CASE ReadLogin
    <2>1. CASE NoWebsocket
      BY <1>0, <2>1 DEF NoWebsocket
    <2>2. CASE Crash("null_stream") /\ UNCHANGED streamerVars
      BY <1>0, <2>2
    <2>3. CASE websocket = "live" /\ UNCHANGED <<websocket, at>>
      BY <2>3 DEF StopInv, OneCloser, ReopenedIsLost, QuietAfterStop, StopDisconnects,
                  Closers
    <2>4. \/ NoWebsocket
          \/ Crash("null_stream") /\ UNCHANGED streamerVars
          \/ websocket = "live" /\ UNCHANGED <<websocket, at>>
      BY <1>5 DEF ReadLogin
    <2> QED
      BY <2>1, <2>2, <2>3, <2>4
  <1>6. CASE RestoreSubscription
    <2>1. websocket # "gone"
      BY <1>6, PlaceBefore DEF RestoreSubscription
    <2> QED
      BY <1>6, <2>1, IoKeeps DEF RestoreSubscription, sessionVars
  <1>7. CASE LoginAnswered
    <2>1. websocket # "gone"
      BY <1>7, HandlerBefore
         DEF LoginAnswered, OnReadError, OnReadData, ReadFails, Brings, Op, Life
    <2> QED
      BY <1>7, <2>1, IoKeeps DEF LoginAnswered, OnReadError, OnReadData, ReadFails
  <1>8. CASE LoginAnswerEmpty
    BY <1>0, <1>8 DEF LoginAnswerEmpty
  <1>9. CASE LoginAccepted
    <2>1. websocket # "gone"
      BY <1>9, PlaceBefore DEF LoginAccepted
    <2> QED
      BY <1>9, <2>1, IoKeeps DEF LoginAccepted, sessionVars
  <1>10. CASE LoginStartsLoop
    <2>1. websocket # "gone"
      BY <1>10, PlaceBefore DEF LoginStartsLoop
    <2>2. CASE NoWebsocket
      BY <1>0, <2>2 DEF NoWebsocket
    <2> QED
      BY <1>0, <1>10, <2>1, <2>2, IoKeeps
         DEF LoginStartsLoop, SetReceiverFlag, MarkLoop, LaunchLoop, sessionVars
  <1>11. CASE RecheckLogin
    <2>1. websocket # "gone"
      BY <1>11, PlaceBefore DEF RecheckLogin
    <2> QED
      BY <1>11, <2>1, IoKeeps DEF RecheckLogin, connVars
  <1> QED
    BY <1>1, <1>2, <1>3, <1>4, <1>5, <1>6, <1>7, <1>8, <1>9, <1>10, <1>11 DEF IoStep

\* What the daemons and the network do.
LEMMA OtherThreadStep ==
  ASSUME StopInv, DaemonStep \/ SenderStep \/ (LoseLink /\ UNCHANGED streamerVars)
  PROVE  StopInv'
  <1> USE DEF streamerVars, serverVars, callerVars, daemonVars, restoreVars, sessionVars
  <1>1. UNCHANGED <<stream, ops, io, websocket, at>>
    <2>1. CASE DaemonTakes \/ DaemonRests
      BY <2>1 DEF DaemonTakes, DaemonRests
    <2>2. CASE DaemonHandsOver
      BY <2>2 DEF DaemonHandsOver, NoWebsocket, Crash, AsyncSend
    <2>3. CASE SenderStep
      BY <2>3 DEF SenderStep, SenderTakes, SenderRests, SenderExits, SenderCrashes,
                  SenderWrites, Crash
    <2>4. CASE LoseLink /\ UNCHANGED streamerVars
      BY <2>4 DEF LoseLink
    <2> QED
      BY <2>1, <2>2, <2>3, <2>4 DEF DaemonStep
  <1> QED
    BY <1>1, CallerKeeps DEF StopInv, OneCloser

\* What a caller does outside ~Websocket.
LEMMA CallStep ==
  ASSUME StopInv, NEW c \in Callers,
         \/ Start(c) \/ StartAgain(c) \/ Record(c) \/ RecordRaces(c) \/ AsyncRequest(c)
         \/ Pause(c) \/ Resume(c) \/ Stop(c)
  PROVE  StopInv'
  <1> USE DEF streamerVars, serverVars, callerVars, daemonVars, restoreVars, sessionVars,
              CallerAt, GoTo, Crash, NoWebsocket, Places, Closers
  <1>1. CASE Start(c)
    BY <1>1 DEF Start, AsyncConnect, StopInv, OneCloser, ReopenedIsLost, QuietAfterStop,
                StopDisconnects
  <1>2. CASE StartAgain(c) \/ RecordRaces(c)
    BY <1>2, CallerKeeps DEF StartAgain, RecordRaces, StopInv, OneCloser
  <1>3. CASE Record(c) \/ AsyncRequest(c)
    BY <1>3, CallerKeeps DEF Record, AsyncRequest, StopInv, OneCloser
  <1>4. CASE Pause(c)
    <2>1. CASE PauseState(c)
      BY <2>1, CallerKeeps DEF PauseState, StopInv, OneCloser
    <2>2. CASE PauseLoop(c)
      BY <2>2, CallerKeeps DEF PauseLoop, StopReceiverLoop, StopInv, OneCloser
    <2> QED
      BY <1>4, <2>1, <2>2 DEF Pause
  <1>5. CASE Resume(c)
    <2>1. CASE ResumeBegins(c) \/ ResumeState(c)
      BY <2>1, CallerKeeps DEF ResumeBegins, ResumeState, StopInv, OneCloser
    <2>2. CASE ResumeCrashes(c)
      BY <2>2, CallerKeeps DEF ResumeCrashes, StopInv, OneCloser
    <2>3. CASE ResumeLoop(c)
      <3>1. CASE CallerAt(c, "loopFlag")
        BY <2>3, <3>1, CallerKeeps DEF ResumeLoop, SetReceiverFlag, StopInv, OneCloser
      <3>2. CASE CallerAt(c, "loopTest")
        BY <2>3, <3>2, CallerKeeps DEF ResumeLoop, StopInv, OneCloser
      <3>3. CASE CallerAt(c, "loopMark")
        BY <2>3, <3>3, CallerKeeps DEF ResumeLoop, MarkLoop, StopInv, OneCloser
      <3>4. CASE CallerAt(c, "loopRead")
        <4>1. /\ websocket # "gone"
              /\ LaunchLoop
              /\ at' = [at EXCEPT ![c] = "activate"]
              /\ UNCHANGED <<io, websocket>>
          BY <2>3, <3>4 DEF ResumeLoop
        <4> QED
          BY <4>1 DEF LaunchLoop, StopInv, OneCloser, ReopenedIsLost, QuietAfterStop,
                      StopDisconnects
      <3> QED
        BY <2>3, <3>1, <3>2, <3>3, <3>4 DEF ResumeLoop
    <2> QED
      BY <1>5, <2>1, <2>2, <2>3 DEF Resume
  <1>6. CASE Stop(c)
    BY <1>6, CallerKeeps DEF Stop, StopInv, OneCloser
  <1> QED
    BY <1>1, <1>2, <1>3, <1>4, <1>5, <1>6

\* Resetting the pointer, and what ~Websocket does.
LEMMA CloserStep ==
  ASSUME StopInv, NEW c \in Callers,
         ResetWebsocket(c) \/ ShutdownCloses(c) \/ JoinIo(c)
  PROVE  StopInv'
  <1> USE DEF callerVars, sessionVars, CallerAt, GoTo, IoAt, Places, Closers
  <1>1. CASE ResetWebsocket(c)
    <2>1. CASE websocket = "live"
      BY <1>1, <2>1 DEF ResetWebsocket, Disconnect, StopInv, OneCloser, ReopenedIsLost,
                        QuietAfterStop, StopDisconnects
    <2>2. CASE websocket # "live"
      BY <1>1, <2>2, CallerKeeps DEF ResetWebsocket, StopInv, OneCloser
    <2> QED
      BY <2>1, <2>2
  <1>2. CASE ShutdownCloses(c)
    BY <1>2 DEF ShutdownCloses, CloseStream, StopInv, OneCloser, ReopenedIsLost,
                QuietAfterStop, StopDisconnects
  <1>3. CASE JoinIo(c)
    BY <1>3 DEF JoinIo, NothingInFlight, StopInv, OneCloser, ReopenedIsLost,
                QuietAfterStop, StopDisconnects
  <1> QED
    BY <1>1, <1>2, <1>3

\* Every step of every thread keeps the invariant.
LEMMA StopStep == StopInv /\ [Next]_vars => StopInv'
  <1> SUFFICES ASSUME StopInv, [Next]_vars
               PROVE  StopInv'
    OBVIOUS
  <1>1. CASE IoStep
    BY <1>1, IoThreadStep
  <1>2. CASE DaemonStep \/ SenderStep \/ (LoseLink /\ UNCHANGED streamerVars)
    BY <1>2, OtherThreadStep
  <1>3. CASE \E c \in Callers : CallerStep(c)
    BY <1>3, CallStep, CloserStep DEF CallerStep
  <1>4. CASE UNCHANGED vars
    BY <1>4, CallerKeeps DEF vars, streamerVars, sessionVars, StopInv, OneCloser
  <1> QED
    BY <1>1, <1>2, <1>3, <1>4 DEF Next

\* The invariant holds in every state.
LEMMA StopInvariant == Spec => []StopInv
  BY StopInit, StopStep, PTL DEF Spec

\* Once stop() has got rid of the websocket nothing is in flight and nothing calls
\* back, whoever pauses, resumes, subscribes or stops at the same time (~Websocket
\* waits for the io thread).
THEOREM NothingAfterStop == Spec => []QuietAfterStop
  <1>1. StopInv => QuietAfterStop
    BY DEF StopInv
  <1> QED
    BY StopInvariant, <1>1, PTL

\* And no connection is left open, not even one that was being made anew: its login
\* finds the websocket gone and ends the process.
THEOREM StopLeavesNoConnection == Spec => []StopDisconnects
  <1>1. StopInv => StopDisconnects
    BY DEF StopInv
  <1> QED
    BY StopInvariant, <1>1, PTL
=============================================================================
