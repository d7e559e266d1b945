------------------------- MODULE StreamerTypeProofs -------------------------
(***************************************************************************)
(* Every variable of Streamer.tla, those of the session it is built on     *)
(* included, keeps its type; and what a thread is handing over is there as *)
(* long as the thread is where it hands it over.  For any number of        *)
(* threads, subscriptions, logins, pauses and faults.                      *)
(***************************************************************************)
EXTENDS Streamer, SequenceTheorems, WellFoundedInduction, TLAPS

\* A daemon holds one element exactly where it is handing it over, and a caller a
\* request exactly between recording it and queueing it.
Holding ==
    /\ Len(outgoing) = IF sender = "write" THEN 1 ELSE 0
    /\ Len(held) = IF daemon = "hold" THEN 1 ELSE 0
    /\ \A c \in Callers : asking[c] # 0 <=> at[c] = "queue"

\* Before start() nothing runs, and callers only subscribe.
Untouched ==
    websocket = "none" =>
        /\ sender = "none" /\ daemon = "none"
        /\ io = "idle" /\ NothingInFlight
        /\ state = "Inactive" /\ ~loggedIn /\ ~link
        /\ onHandshake = "connected"
        /\ \A c \in Callers : at[c] \in {"idle", "queue"}

-----------------------------------------------------------------------------
(***************************************************************************)
(* Lemmas about the operators                                              *)
(***************************************************************************)
\* Starting, completing and cancelling leave a count for each operation.
LEMMA OpsTyped ==
    ASSUME NEW o \in [Op \X Life -> Nat], NEW op \in Op
    PROVE  /\ Started(o, op) \in [Op \X Life -> Nat]
           /\ Cancelled(o) \in [Op \X Life -> Nat]
           /\ \A l \in Life : o[<<op, l>>] > 0 => Completed(o, op, l) \in [Op \X Life -> Nat]
<1>1. Started(o, op) \in [Op \X Life -> Nat]
  BY DEF Started, Life
<1>2. ASSUME NEW x \in Op \X Life
      PROVE  (IF x[1] = "resolve" THEN o[x]
              ELSE IF x[2] = "live" THEN 0 ELSE o[<<x[1], "live">>] + o[x]) \in Nat
  <2>1. <<x[1], "live">> \in Op \X Life
    BY DEF Life
  <2> QED
    BY <2>1
<1>3. Cancelled(o) \in [Op \X Life -> Nat]
  BY <1>2 DEF Cancelled
<1>4. ASSUME NEW l \in Life, o[<<op, l>>] > 0
      PROVE  Completed(o, op, l) \in [Op \X Life -> Nat]
  BY <1>4 DEF Completed
<1> QED
  BY <1>1, <1>3, <1>4

\* Appending to a queue and taking its head.
LEMMA QueueTyped ==
    ASSUME NEW S, NEW q \in Seq(S)
    PROVE  /\ \A x \in S : Append(q, x) \in Seq(S)
           /\ q # <<>> => Head(q) \in S /\ Tail(q) \in Seq(S)
           /\ Len(q) \in Nat
           /\ Len(q) = 0 <=> q = <<>>
  BY HeadTailProperties, AppendProperties, LenProperties, EmptySeq

\* What a thread holds one of can be handed over.
LEMMA HeldIsThere ==
    ASSUME NEW S, NEW q \in Seq(S), Len(q) = 1
    PROVE  q = <<Head(q)>> /\ Head(q) \in S
<1>1. q # <<>>
  BY EmptySeq
<1> QED
  BY <1>1, HeadTailProperties

\* A set of requests has a first one: the loop that restores subscriptions always
\* finds what it looks for.
LEMMA FirstRequest ==
    ASSUME NEW S, S \subseteq Requests, S # {}
    PROVE  \E x \in S : \A y \in S : x <= y
<1>1. S \subseteq Nat
  BY DEF Requests
<1>2. PICK x \in S : \A y \in S : ~ (<<y, x>> \in OpToRel(<, Nat))
  BY <1>1, NatLessThanWellFounded, WFMin DEF OpToRel
<1>3. ASSUME NEW y \in S PROVE x <= y
  <2>1. x \in Nat /\ y \in Nat
    BY <1>1
  <2>2. ~(y < x)
    BY <1>2, <2>1 DEF OpToRel
  <2> QED
    BY <2>1, <2>2
<1> QED
  BY <1>3

-----------------------------------------------------------------------------
(***************************************************************************)
(* The session                                                             *)
(***************************************************************************)
Messages == {Login} \cup Requests

\* What the steps of the session have to keep of the type.
SessionTypes ==
    /\ SessionTypeOK
    /\ msgQueue \in Seq(Messages)
    /\ outgoing \in Seq(Messages)
    /\ Len(outgoing) = IF sender = "write" THEN 1 ELSE 0

\* A step that leaves the session alone keeps it.
LEMMA SessionUnchanged ==
    ASSUME SessionTypes, UNCHANGED <<sessionVars, aborted>>
    PROVE  SessionTypes'
  BY DEF sessionVars, SessionTypes, SessionTypeOK

\* The operations that the streamer calls keep it.
LEMMA CallsTyped ==
    ASSUME SessionTypes
    PROVE  /\ \A m \in Messages : AsyncSend(m) /\ UNCHANGED aborted => SessionTypes'
           /\ \A callback \in {"connected", "reconnected"}, contended \in BOOLEAN :
                 sender # "write" /\ AsyncConnect(callback, contended)
                        /\ UNCHANGED aborted
                    => SessionTypes'
           /\ \A callback \in {"nothing", "reconnect"} :
                 CloseStream(callback) /\ UNCHANGED aborted => SessionTypes'
           /\ Disconnect /\ UNCHANGED aborted => SessionTypes'
           /\ (SetReceiverFlag \/ StopReceiverLoop \/ MarkLoop \/ LaunchLoop)
                     /\ UNCHANGED aborted
                 => SessionTypes'
<1> USE DEF SessionTypes, SessionTypeOK, flagVars, loopVars, senderVars, boundVars
<1>1. ASSUME NEW m \in Messages, AsyncSend(m), UNCHANGED aborted PROVE SessionTypes'
  BY <1>1, QueueTyped DEF AsyncSend
<1>2. ASSUME NEW callback \in {"connected", "reconnected"}, NEW contended \in BOOLEAN,
             sender # "write", AsyncConnect(callback, contended), UNCHANGED aborted
      PROVE  SessionTypes'
  BY <1>2, OpsTyped DEF AsyncConnect, Op, StreamState
<1>3. ASSUME NEW callback \in {"nothing", "reconnect"},
             CloseStream(callback), UNCHANGED aborted
      PROVE  SessionTypes'
  <2>1. ops' \in [Op \X Life -> Nat] /\ stream' \in StreamState
    BY <1>3, OpsTyped DEF CloseStream, Op, StreamState
  <2>2. onClosed' \in {"nothing", "reconnect"}
    BY <1>3 DEF CloseStream
  <2> QED
    BY <1>3, <2>1, <2>2 DEF CloseStream
<1>4. ASSUME Disconnect, UNCHANGED aborted PROVE SessionTypes'
  BY <1>4 DEF Disconnect, ConnState
<1>5. ASSUME SetReceiverFlag \/ StopReceiverLoop \/ MarkLoop, UNCHANGED aborted
      PROVE  SessionTypes'
  BY <1>5 DEF SetReceiverFlag, StopReceiverLoop, MarkLoop
<1>6. ASSUME LaunchLoop, UNCHANGED aborted PROVE SessionTypes'
  BY <1>6, OpsTyped DEF LaunchLoop, Op
<1> QED
  BY <1>1, <1>2, <1>3, <1>4, <1>5, <1>6

IoPlaces == {"idle", "handshaked", "login", "loginRead", "restore", "accepted",
             "refused", "loopFlag", "loopTest", "loopMark", "loopRead", "recheck",
             "stopLoop", "stopReconnect", "reconnect", "closeStream", "join"}

\* Its handlers keep it.
LEMMA HandlersTyped ==
    ASSUME SessionTypes, io \in IoPlaces, SessionHandlers
    PROVE  SessionTypes' /\ io' \in IoPlaces
<1> USE DEF SessionTypes, SessionTypeOK, flagVars, loopVars, senderVars, boundVars,
            connVars, IoAt
<1> USE MaxFaultsAssumption
<1>1. ASSUME NEW op \in Op, Retry(op) PROVE SessionTypes' /\ io' \in IoPlaces
  <2> PICK l \in Life :
        /\ ops[<<op, l>>] > 0
        /\ stream' = "fresh"
        /\ ops' = Started(Cancelled(Completed(ops, op, l)), "resolve")
        /\ UNCHANGED <<flagVars, loopVars, link, buffer, senderVars, boundVars, io,
                       faults, aborted>>
    BY <1>1 DEF Retry
  <2>1. Completed(ops, op, l) \in [Op \X Life -> Nat]
    BY OpsTyped
  <2>2. Cancelled(Completed(ops, op, l)) \in [Op \X Life -> Nat]
    BY <2>1, OpsTyped
  <2>3. ops' \in [Op \X Life -> Nat]
    BY <2>2, OpsTyped DEF Op
  <2> QED
    BY <2>3 DEF StreamState
<1>2. ASSUME NEW op \in Op, NEW next \in Op, NEW reached \in ConnState,
             Advance(op, reached, next)
      PROVE  SessionTypes' /\ io' \in IoPlaces
  <2> PICK l \in Life :
        /\ ops[<<op, l>>] > 0
        /\ conn' = reached
        /\ ops' = Started(Completed(ops, op, l), next)
        /\ UNCHANGED <<runSender, runReceiver, loopVars, stream, link, buffer,
                       senderVars, boundVars, io, faults, aborted>>
    BY <1>2 DEF Advance
  <2>1. Completed(ops, op, l) \in [Op \X Life -> Nat]
    BY OpsTyped
  <2>2. ops' \in [Op \X Life -> Nat]
    BY <2>1, OpsTyped
  <2> QED
    BY <2>2
<1>3. ASSUME NEW op \in Op, NEW next \in Op, NEW reached \in ConnState,
             HandshakeStep(op, reached, next)
      PROVE  SessionTypes' /\ io' \in IoPlaces
  <2>1. CASE AdvanceWithoutStream(op)
    BY <2>1 DEF AdvanceWithoutStream, Crash, sessionVars
  <2> QED
    BY <1>1, <1>2, <1>3, <2>1 DEF HandshakeStep
<1>4. CASE OnResolve
  BY <1>3, <1>4 DEF OnResolve, Op, ConnState
<1>5. CASE OnConnect \/ OnSSLHandshake
  BY <1>3, <1>5 DEF OnConnect, OnSSLHandshake, Op, ConnState
<1>6. CASE WebsocketIsRefused
  BY <1>1, <1>6 DEF WebsocketIsRefused, Op
<1>7. CASE OnReceiveLoop
  <2>1. ASSUME NEW l \in Life, ReceiveLoopFails(l)
        PROVE  SessionTypes' /\ io' \in IoPlaces
    BY <2>1, OpsTyped DEF ReceiveLoopFails, ReadFails, Remains, Op, StreamState, IoPlaces
  <2>2. ASSUME NEW l \in Life, ReceiveLoopReadsOn(l)
        PROVE  SessionTypes' /\ io' \in IoPlaces
    <3>1. Completed(ops, "loop", l) \in [Op \X Life -> Nat]
      BY <2>2, OpsTyped DEF ReceiveLoopReadsOn, Brings, Op
    <3>2. ops' \in [Op \X Life -> Nat]
      BY <2>2, <3>1, OpsTyped DEF ReceiveLoopReadsOn, Op
    <3> QED
      BY <2>2, <3>2 DEF ReceiveLoopReadsOn, Cleared
  <2>3. ASSUME NEW l \in Life, ReceiveLoopDisconnected(l)
        PROVE  SessionTypes' /\ io' \in IoPlaces
    BY <2>3, OpsTyped DEF ReceiveLoopDisconnected, Brings, Cleared, Op
  <2>4. ASSUME NEW l \in Life, ReceiveLoopStopping(l)
        PROVE  SessionTypes' /\ io' \in IoPlaces
    BY <2>4, OpsTyped DEF ReceiveLoopStopping, Brings, Op, IoPlaces
  <2>6. ASSUME NEW l \in Life, ReceivedWithoutStream(l)
        PROVE  SessionTypes' /\ io' \in IoPlaces
    BY <2>6 DEF ReceivedWithoutStream, Crash, sessionVars
  <2>5. CASE ReceiveLoopStopped
    BY <2>5 DEF ReceiveLoopStopped, IoPlaces
  <2> QED
    BY <1>7, <2>1, <2>2, <2>3, <2>4, <2>5, <2>6 DEF OnReceiveLoop
<1>11. CASE ClosedWithoutStream
  BY <1>11 DEF ClosedWithoutStream, Crash, sessionVars
<1>8. CASE OnClose
  <2> PICK l \in Life : 
        /\ ops[<<"close", l>>] > 0
        /\ stream' \in {stream, "null"} /\ io' \in {io, Closed}
        /\ \/ ops' = Cancelled(Completed(ops, "close", l))
           \/ ops' = Started(Completed(ops, "close", l), "drain")
           \/ ops' = Completed(ops, "close", l)
    BY <1>8 DEF OnClose
  <2>1. Completed(ops, "close", l) \in [Op \X Life -> Nat]
    BY OpsTyped DEF Op
  <2>2. ops' \in [Op \X Life -> Nat]
    BY <2>1, OpsTyped DEF Op
  <2> QED
    BY <1>8, <2>2 DEF OnClose, Closed, StreamState, IoPlaces
<1>9. CASE DrainOnClose
  <2> PICK l \in Life : 
        /\ ops[<<"drain", l>>] > 0
        /\ stream' \in {stream, "null"} /\ io' \in {io, Closed}
        /\ \/ ops' = Cancelled(Completed(ops, "drain", l))
           \/ ops' = Completed(ops, "drain", l)
    BY <1>9 DEF DrainOnClose
  <2>1. Completed(ops, "drain", l) \in [Op \X Life -> Nat]
    BY OpsTyped DEF Op
  <2>2. ops' \in [Op \X Life -> Nat]
    BY <2>1, OpsTyped DEF Op
  <2> QED
    BY <1>9, <2>2 DEF DrainOnClose, Remains, Closed, StreamState, IoPlaces
<1>10. CASE AsyncReconnect(FlagsInUse)
  <2>1. CASE ReconnectDisconnects
    BY <2>1, CallsTyped DEF ReconnectDisconnects, IoPlaces
  <2>2. CASE ReconnectCloses
    BY <2>2, CallsTyped DEF ReconnectCloses, IoPlaces
  <2>3. CASE ReconnectConnects(FlagsInUse)
    BY <2>3, CallsTyped DEF ReconnectConnects, FlagsInUse, DaemonAt, IoPlaces
  <2> QED
    BY <1>10, <2>1, <2>2, <2>3 DEF AsyncReconnect
<1> QED
  BY <1>4, <1>5, <1>6, <1>7, <1>8, <1>9, <1>10, <1>11 DEF SessionHandlers

-----------------------------------------------------------------------------
(***************************************************************************)
(* The streamer                                                            *)
(***************************************************************************)
AtPlaces == {"idle", "queue", "stopLoop", "loopFlag", "loopTest", "loopMark", "loopRead",
             "activate", "reset", "closeStream", "joinIo"}

\* The rest of the type.
StreamerTypes ==
    /\ state \in {"Inactive", "Active", "Paused"}
    /\ runDaemon \in BOOLEAN
    /\ websocket \in {"none", "live", "closing", "gone"}
    /\ reqQueue \in Seq(Requests)
    /\ daemon \in {"none", "wait", "loop", "hold", "exited"}
    /\ held \in Seq(Requests)
    /\ Len(held) = IF daemon = "hold" THEN 1 ELSE 0
    /\ recorded \in 0..MaxSubs
    /\ restoring \in BOOLEAN
    /\ restore \subseteq Requests
    /\ at \in [Callers -> AtPlaces]
    /\ asking \in [Callers -> 0..MaxSubs]
    /\ \A c \in Callers : asking[c] # 0 <=> at[c] = "queue"
    /\ pauses \in 0..MaxPauses
    /\ replies \in Nat
    /\ loggedIn \in BOOLEAN
    /\ served \subseteq Requests

Types == SessionTypes /\ io \in IoPlaces /\ StreamerTypes

\* Together they are the type.
LEMMA TypesAre == Types <=> TypeOK /\ Holding
  BY DEF Types, SessionTypes, IoPlaces, StreamerTypes, AtPlaces, TypeOK, Holding, Messages

\* What the streamer does on the io thread.
LEMMA IoTyped ==
    ASSUME Types, IoStep
    PROVE  Types'
<1> USE DEF Types, streamerVars, daemonVars, restoreVars, callerVars, serverVars, IoAt
<1>0. ASSUME NEW why \in {"null_stream", "null_websocket", "empty_response"},
             Crash(why), UNCHANGED streamerVars
      PROVE  Types'
  BY <1>0 DEF Crash, sessionVars, SessionTypes, SessionTypeOK, StreamerTypes
<1>1. CASE SessionHandlers /\ UNCHANGED streamerVars
  BY <1>1, HandlersTyped DEF StreamerTypes
<1>2. CASE Handshake
  <2> PICK l \in Life : WebsocketIsUp(l)
    BY <1>2 DEF Handshake, Life
  <2>1. ops' \in [Op \X Life -> Nat]
    BY OpsTyped DEF WebsocketIsUp, SessionTypes, SessionTypeOK, Op
  <2>2. SessionTypes' /\ io' \in IoPlaces
    BY <2>1 DEF WebsocketIsUp, SessionTypes, SessionTypeOK, loopVars, senderVars,
       boundVars, StreamState, ConnState, IoPlaces
  <2>3. /\ (replies' = 0 /\ loggedIn' = FALSE /\ served' = {}) \/ UNCHANGED serverVars
        /\ UNCHANGED <<state, websocket, daemonVars, restoreVars, callerVars>>
    BY <1>2 DEF Handshake
  <2>4. replies' \in Nat /\ loggedIn' \in BOOLEAN /\ served' \subseteq Requests
    <3>1. replies \in Nat /\ loggedIn \in BOOLEAN /\ served \subseteq Requests
      BY DEF StreamerTypes
    <3>2. CASE replies' = 0 /\ loggedIn' = FALSE /\ served' = {}
      BY <3>2
    <3>3. CASE UNCHANGED serverVars
      BY <3>1, <3>3
    <3> QED
      BY <2>3, <3>2, <3>3
  <2>5. StreamerTypes'
    BY <2>3, <2>4 DEF StreamerTypes
  <2> QED
    BY <2>2, <2>5
<1>3. CASE OnWebsocketUp
  <2>1. SessionTypes' /\ io' \in IoPlaces
    BY <1>3 DEF OnWebsocketUp, sessionVars, SessionTypes, SessionTypeOK, IoPlaces
  <2>2. StreamerTypes'
    BY <1>3 DEF OnWebsocketUp, InactiveOnReconnect, StreamerTypes
  <2> QED
    BY <2>1, <2>2
<1>4. CASE SendLogin
  <2>1. CASE NoWebsocket
    BY <1>0, <2>1 DEF NoWebsocket
  <2>2. CASE AsyncSend(Login) /\ io' = "loginRead" /\ UNCHANGED <<aborted, streamerVars>>
    BY <2>2, CallsTyped DEF Messages, IoPlaces, StreamerTypes
  <2> QED
    BY <1>4, <2>1, <2>2 DEF SendLogin
<1>5. CASE ReadLogin
  <2>1. CASE NoWebsocket
    BY <1>0, <2>1 DEF NoWebsocket
  <2>2. CASE Crash("null_stream") /\ UNCHANGED streamerVars
    BY <1>0, <2>2
  <2>3. CASE /\ AsyncReceive /\ ReadReturns
             /\ io' = IF restoring THEN "restore" ELSE "idle"
             /\ restore' = ToRestore
             /\ restoring' = FALSE
             /\ UNCHANGED <<aborted, state, websocket, daemonVars, recorded, callerVars,
                            serverVars>>
    <3>1. SessionTypes' /\ io' \in IoPlaces
      BY <2>3, OpsTyped DEF AsyncReceive, ReadReturns, Cleared, connVars, flagVars,
         loopVars, senderVars, boundVars, SessionTypes, SessionTypeOK, Op, IoPlaces
    <3>2. restore' \subseteq Requests
      BY <2>3, StreamerAssumption DEF ToRestore, Requests, StreamerTypes
    <3> QED
      BY <2>3, <3>1, <3>2 DEF StreamerTypes
  <2> QED
    BY <1>5, <2>1, <2>2, <2>3 DEF ReadLogin
<1>6. CASE RestoreSubscription
  <2>1. SessionTypes' /\ io' \in IoPlaces
    BY <1>6 DEF RestoreSubscription, sessionVars, SessionTypes, SessionTypeOK, IoPlaces
  <2>2. reqQueue' \in Seq(Requests) /\ restore' \subseteq Requests
    <3> DEFINE r == CHOOSE x \in restore : \A y \in restore : x <= y
    <3>1. restore # {} => r \in restore
      BY FirstRequest DEF StreamerTypes
    <3>2. restore # {} => reqQueue' = Append(reqQueue, r) /\ restore' = restore \ {r}
      BY <1>6 DEF RestoreSubscription
    <3>3. restore = {} => UNCHANGED <<reqQueue, restore>>
      BY <1>6 DEF RestoreSubscription
    <3> HIDE DEF r
    <3>4. restore \subseteq Requests /\ reqQueue \in Seq(Requests)
      BY DEF StreamerTypes
    <3>5. restore # {} => Append(reqQueue, r) \in Seq(Requests)
      BY <3>1, <3>4, QueueTyped
    <3> QED
      BY <3>1, <3>2, <3>3, <3>4, <3>5
  <2> QED
    BY <1>6, <2>1, <2>2 DEF RestoreSubscription, StreamerTypes
<1>7. CASE LoginAnswered
  <2>1. CASE OnReadError /\ UNCHANGED streamerVars
    <3> PICK l \in Life :
          /\ ReadFails("login", l) /\ buffer' = "response" /\ io' = "refused"
          /\ UNCHANGED <<flagVars, loopVars, link, senderVars, boundVars, faults, aborted>>
      BY <2>1 DEF OnReadError
    <3>1. SessionTypes' /\ io' \in IoPlaces
      BY OpsTyped DEF ReadFails, flagVars, loopVars, senderVars,
         boundVars, SessionTypes, SessionTypeOK, Op, StreamState, IoPlaces
    <3> QED
      BY <2>1, <3>1 DEF StreamerTypes
  <2>2. CASE /\ replies > 0
             /\ \E answer \in {"accepted", "refused"} : OnReadData(answer)
             /\ replies' = replies - 1
             /\ UNCHANGED <<state, websocket, daemonVars, restoreVars, callerVars,
                            loggedIn, served>>
    <3> PICK answer \in {"accepted", "refused"} : OnReadData(answer)
      BY <2>2
    <3>2. faults' \in 0..MaxFaults
      BY MaxFaultsAssumption DEF OnReadData, SessionTypes, SessionTypeOK
    <3>3. ops' \in [Op \X Life -> Nat]
      <4>1. PICK l \in Life : ops[<<"login", l>>] > 0 /\ ops' = Completed(ops, "login", l)
        BY DEF OnReadData, Brings
      <4> QED
        BY <4>1, OpsTyped DEF SessionTypes, SessionTypeOK, Op
    <3>1. SessionTypes' /\ io' \in IoPlaces
      BY <3>2, <3>3 DEF OnReadData, flagVars, loopVars,
         senderVars, boundVars, SessionTypes, SessionTypeOK, IoPlaces
    <3> QED
      BY <2>2, <3>1 DEF StreamerTypes
  <2> QED
    BY <1>7, <2>1, <2>2 DEF LoginAnswered
<1>8. CASE LoginAnswerEmpty
  BY <1>0, <1>8 DEF LoginAnswerEmpty
<1>9. CASE LoginAccepted
  BY <1>9 DEF LoginAccepted, sessionVars, SessionTypes, SessionTypeOK, IoPlaces,
              StreamerTypes
<1>10. CASE LoginStartsLoop
  <2>1. CASE NoWebsocket
    BY <1>0, <2>1 DEF NoWebsocket
  <2>2. CASE /\ SetReceiverFlag \/ MarkLoop \/ LaunchLoop
             /\ io' \in IoPlaces
             /\ UNCHANGED <<aborted, streamerVars>>
    BY <2>2, CallsTyped DEF StreamerTypes
  <2>3. CASE io' \in IoPlaces /\ UNCHANGED <<sessionVars, aborted, streamerVars>>
    BY <2>3, SessionUnchanged DEF StreamerTypes
  <2>4. CASE Crash("null_stream") /\ UNCHANGED streamerVars
    BY <1>0, <2>4
  <2> QED
    BY <1>10, <2>1, <2>2, <2>3, <2>4 DEF LoginStartsLoop, IoPlaces
<1>11. CASE RecheckLogin
  BY <1>11 DEF RecheckLogin, ReadReturns, Cleared, connVars, flagVars, loopVars,
     senderVars, boundVars, SessionTypes, SessionTypeOK, IoPlaces, StreamerTypes
<1> QED
  BY <1>1, <1>2, <1>3, <1>4, <1>5, <1>6, <1>7, <1>8, <1>9, <1>10, <1>11 DEF IoStep

\* What the two daemons and the network do.
LEMMA DaemonsTyped ==
    ASSUME Types, DaemonStep \/ SenderStep \/ (LoseLink /\ UNCHANGED streamerVars)
    PROVE  Types'
<1> USE DEF Types, streamerVars, daemonVars, restoreVars, callerVars, serverVars,
            DaemonAt, SenderAt
<1>0. ASSUME NEW why \in {"null_stream", "null_websocket", "write_error"},
             Crash(why), UNCHANGED streamerVars
      PROVE  Types'
  BY <1>0 DEF Crash, sessionVars, SessionTypes, SessionTypeOK, StreamerTypes
<1>1. CASE DaemonTakes
  <2>1. reqQueue \in Seq(Requests) /\ reqQueue # <<>>
    BY <1>1 DEF DaemonTakes, MayHandOver, StreamerTypes
  <2>2. Head(reqQueue) \in Requests /\ Tail(reqQueue) \in Seq(Requests)
    BY <2>1, QueueTyped
  <2>3. held' \in Seq(Requests) /\ Len(held') = 1
    BY <1>1, <2>2 DEF DaemonTakes
  <2> QED
    BY <1>1, <2>2, <2>3 DEF DaemonTakes, sessionVars, SessionTypes, SessionTypeOK,
                            StreamerTypes
<1>2. CASE DaemonHandsOver
  <2>1. CASE NoWebsocket
    BY <1>0, <2>1 DEF NoWebsocket
  <2>2. CASE /\ AsyncSend(Head(held))
             /\ held' = <<>>
             /\ daemon' = "loop"
             /\ UNCHANGED <<io, aborted, state, runDaemon, websocket, reqQueue,
                            restoreVars, callerVars, serverVars>>
    <3>0. held \in Seq(Requests) /\ Len(held) = 1
      BY <1>2 DEF DaemonHandsOver, StreamerTypes
    <3>1. Head(held) \in Requests
      BY <3>0, HeldIsThere
    <3>2. Head(held) \in Messages
      BY <3>1 DEF Messages
    <3>3. SessionTypes' /\ io' \in IoPlaces
      BY <2>2, <3>2, CallsTyped
    <3> QED
      BY <2>2, <3>3 DEF StreamerTypes
  <2> QED
    BY <1>2, <2>1, <2>2 DEF DaemonHandsOver
<1>3. CASE DaemonRests
  BY <1>3 DEF DaemonRests, sessionVars, SessionTypes, SessionTypeOK, StreamerTypes
<1>4. CASE SenderTakes /\ UNCHANGED streamerVars
  <2>1. msgQueue \in Seq(Messages) /\ msgQueue # <<>>
    BY <1>4 DEF SenderTakes, MaySendMessage, SessionTypes
  <2>2. Head(msgQueue) \in Messages /\ Tail(msgQueue) \in Seq(Messages)
    BY <2>1, QueueTyped
  <2>3. outgoing' \in Seq(Messages) /\ Len(outgoing') = 1
    BY <1>4, <2>2 DEF SenderTakes
  <2> QED
    BY <1>4, <2>2, <2>3 DEF SenderTakes, flagVars, loopVars, boundVars, SessionTypes,
                            SessionTypeOK, StreamerTypes
<1>5. CASE (SenderRests \/ SenderExits(SessionReleased)) /\ UNCHANGED streamerVars
  BY <1>5 DEF SenderRests, SenderExits, flagVars, loopVars, boundVars, SessionTypes,
              SessionTypeOK, StreamerTypes
<1>6. CASE SenderCrashes /\ UNCHANGED streamerVars
  BY <1>0, <1>6 DEF SenderCrashes
<1>7. CASE /\ SenderWrites
           /\ ServerTakes(Head(outgoing))
           /\ UNCHANGED <<state, websocket, daemonVars, restoreVars, callerVars>>
  <2>0. outgoing \in Seq(Messages) /\ Len(outgoing) = 1
    BY <1>7 DEF SenderWrites, SessionTypes
  <2>1. outgoing \in Seq(Messages) /\ outgoing # <<>>
    BY <2>0, EmptySeq
  <2>2. Head(outgoing) \in Messages
    BY <2>1, QueueTyped
  <2>3. replies' \in Nat /\ served' \subseteq Requests /\ loggedIn' \in BOOLEAN
    BY <1>7, <2>2 DEF ServerTakes, Messages, StreamerTypes
  <2>4. /\ outgoing' = <<>> /\ sender' = "loop"
        /\ UNCHANGED <<flagVars, loopVars, stream, link, ops, buffer, msgQueue, boundVars,
                       io, faults, aborted>>
        /\ UNCHANGED <<state, websocket, daemonVars, restoreVars, callerVars>>
    BY <1>7 DEF SenderWrites
  <2>5. outgoing' \in Seq(Messages) /\ Len(outgoing') = 0
    BY <2>4, EmptySeq
  <2>6. SessionTypes' /\ io' \in IoPlaces
    BY <2>4, <2>5 DEF flagVars, loopVars, boundVars, SessionTypes, SessionTypeOK
  <2> QED
    BY <2>3, <2>4, <2>6 DEF StreamerTypes
<1>8. CASE LoseLink /\ UNCHANGED streamerVars
  <2>0. faults' \in 0..MaxFaults
    BY <1>8, MaxFaultsAssumption DEF LoseLink, SessionTypes, SessionTypeOK
  <2>1. SessionTypes' /\ io' \in IoPlaces
    BY <1>8, <2>0 DEF LoseLink, flagVars, loopVars, senderVars, boundVars, SessionTypes,
       SessionTypeOK
  <2> QED
    BY <1>8, <2>1 DEF StreamerTypes
<1> QED
  BY <1>1, <1>2, <1>3, <1>4, <1>5, <1>6, <1>7, <1>8 DEF DaemonStep, SenderStep

\* What callers do.
LEMMA CallersTyped ==
    ASSUME Types, Untouched, NEW c \in Callers, CallerStep(c)
    PROVE  Types'
<1> USE DEF Types, streamerVars, daemonVars, restoreVars, callerVars, serverVars,
            CallerAt, GoTo, AtPlaces
<1> USE StreamerAssumption
<1>0. ASSUME NEW why \in {"null_stream", "null_websocket", "thread_replaced", "record_race"},
             Crash(why), UNCHANGED streamerVars
      PROVE  Types'
  BY <1>0 DEF Crash, sessionVars, SessionTypes, SessionTypeOK, StreamerTypes
<1>1. CASE Start(c)
  <2>1. sender = "none" /\ daemon = "none"
    BY <1>1 DEF Start, Untouched
  <2>2. SessionTypes'
    BY <1>1, <2>1, CallsTyped DEF Start
  <2> QED
    BY <1>1, <2>1, <2>2 DEF Start, StreamerTypes
<1>2. CASE StartAgain(c) \/ RecordRaces(c)
  BY <1>0, <1>2 DEF StartAgain, RecordRaces
<1>3. CASE Record(c)
  <2>1. StreamerTypes'
    BY <1>3 DEF Record, StreamerTypes
  <2> QED
    BY <1>3, <2>1 DEF Record, sessionVars, SessionTypes, SessionTypeOK
<1>4. CASE AsyncRequest(c)
  <2>1. asking[c] \in Requests
    BY <1>4 DEF AsyncRequest, StreamerTypes, Requests
  <2>2. reqQueue' \in Seq(Requests)
    BY <1>4, <2>1, QueueTyped DEF AsyncRequest, StreamerTypes
  <2>3. StreamerTypes'
    BY <1>4, <2>2 DEF AsyncRequest, StreamerTypes
  <2> QED
    BY <1>4, <2>3 DEF AsyncRequest, sessionVars, SessionTypes, SessionTypeOK
<1>5. CASE Pause(c)
  <2>1. CASE PauseState(c)
    BY <2>1 DEF PauseState, sessionVars, SessionTypes, SessionTypeOK, StreamerTypes
  <2>2. CASE PauseLoop(c)
    BY <1>0, <2>2, CallsTyped DEF PauseLoop, NoWebsocket, StreamerTypes
  <2> QED
    BY <1>5, <2>1, <2>2 DEF Pause
<1>6. CASE Resume(c)
  <2>1. CASE ResumeBegins(c) \/ ResumeState(c)
    <3>1. StreamerTypes'
      <4>1. CASE ResumeBegins(c)
        BY <4>1 DEF ResumeBegins, StreamerTypes
      <4>2. CASE ResumeState(c)
        BY <4>2 DEF ResumeState, StreamerTypes
      <4> QED
        BY <2>1, <4>1, <4>2
    <3> QED
      BY <2>1, <3>1, SessionUnchanged DEF ResumeBegins, ResumeState
  <2>2. CASE ResumeLoop(c)
    <3>1. SessionTypes'
      BY <2>2, CallsTyped, SessionUnchanged DEF ResumeLoop
    <3>2. \E place \in AtPlaces \ {"queue"} : at[c] # "queue" /\ GoTo(c, place)
      BY <2>2 DEF ResumeLoop
    <3>3. StreamerTypes'
      BY <2>2, <3>2 DEF ResumeLoop, StreamerTypes
    <3> QED
      BY <2>2, <3>1, <3>3 DEF ResumeLoop
  <2>3. CASE ResumeCrashes(c)
    BY <1>0, <2>3 DEF ResumeCrashes, NoWebsocket
  <2> QED
    BY <1>6, <2>1, <2>2, <2>3 DEF Resume
<1>7. CASE Stop(c)
  <2>1. StreamerTypes'
    BY <1>7 DEF Stop, StreamerTypes
  <2> QED
    BY <1>7, <2>1, SessionUnchanged DEF Stop
<1>8. CASE ResetWebsocket(c)
  <2>1. CASE websocket = "live"
    BY <1>8, <2>1, CallsTyped DEF ResetWebsocket, StreamerTypes
  <2>2. CASE websocket # "live"
    <3>1. StreamerTypes'
      BY <1>8, <2>2 DEF ResetWebsocket, StreamerTypes
    <3> QED
      BY <1>8, <2>2, <3>1, SessionUnchanged DEF ResetWebsocket
  <2> QED
    BY <2>1, <2>2
<1>9. CASE ShutdownCloses(c)
  BY <1>9, CallsTyped DEF ShutdownCloses, StreamerTypes
<1>10. CASE JoinIo(c)
  BY <1>10 DEF JoinIo, sessionVars, SessionTypes, SessionTypeOK, StreamerTypes
<1> QED
  BY <1>1, <1>2, <1>3, <1>4, <1>5, <1>6, <1>7, <1>8, <1>9, <1>10 DEF CallerStep

-----------------------------------------------------------------------------
\* As long as the websocket is not there only callers move: they start it, record
\* requests, one or several at once, and queue them.
LEMMA OnlyCallersBefore ==
    ASSUME Untouched, websocket = "none", [Next]_vars
    PROVE  \/ \E c \in Callers : Start(c) \/ Record(c) \/ RecordRaces(c) \/ AsyncRequest(c)
           \/ UNCHANGED vars
<1> USE DEF Untouched, IoAt, DaemonAt, SenderAt, CallerAt
<1>1. ASSUME NEW op \in Op, NEW l \in Life PROVE ~(ops[<<op, l>>] > 0)
  BY DEF NothingInFlight
<1>2. ~SessionHandlers
  BY <1>1 DEF SessionHandlers, OnResolve, OnConnect, OnSSLHandshake, WebsocketIsRefused,
     HandshakeStep, Advance, AdvanceWithoutStream, Retry, OnReceiveLoop, ReceiveLoopFails,
     ReadFails, Brings, ReceiveLoopReadsOn, ReceiveLoopDisconnected, ReceiveLoopStopping,
     ReceivedWithoutStream, ReceiveLoopStopped, OnClose, ClosedWithoutStream, DrainOnClose, AsyncReconnect, ReconnectDisconnects, ReconnectCloses,
     ReconnectConnects, Op, Life
<1>3. ~IoStep
  BY <1>1, <1>2 DEF IoStep, Handshake, WebsocketIsUp, OnWebsocketUp, SendLogin, ReadLogin,
     RestoreSubscription, LoginAnswered, OnReadError, OnReadData, ReadFails, Brings,
     LoginAnswerEmpty, LoginAccepted, LoginStartsLoop, RecheckLogin, Op, Life
<1>4. ~DaemonStep /\ ~SenderStep /\ ~LoseLink
  BY DEF DaemonStep, DaemonTakes, MayHandOver, DaemonHandsOver, DaemonRests, SenderStep,
     SenderTakes, MaySendMessage, SenderRests, SenderExits, SenderCrashes, SenderWrites,
     LoseLink
<1>5. ASSUME NEW c \in Callers, CallerStep(c)
      PROVE  Start(c) \/ Record(c) \/ RecordRaces(c) \/ AsyncRequest(c)
  BY <1>5 DEF CallerStep, StartAgain, Pause, PauseState, PauseLoop, Resume,
     ResumeBegins, ResumeLoop, ResumeCrashes, ResumeState, Stop, ResetWebsocket,
     ShutdownCloses, JoinIo
<1> QED
  BY <1>3, <1>4, <1>5 DEF Next

\* Nobody takes the websocket back to where it was before the start.
LEMMA StartedForGood ==
    ASSUME [Next]_vars, websocket' = "none"
    PROVE  websocket = "none"
<1> USE DEF streamerVars, daemonVars
<1>1. ASSUME IoStep PROVE websocket = "none"
  BY <1>1 DEF IoStep, Handshake, OnWebsocketUp, SendLogin, NoWebsocket, ReadLogin,
     RestoreSubscription, LoginAnswered, LoginAnswerEmpty, LoginAccepted, LoginStartsLoop,
     RecheckLogin
<1>2. ASSUME DaemonStep \/ SenderStep \/ (LoseLink /\ UNCHANGED streamerVars)
      PROVE  websocket = "none"
  BY <1>2 DEF DaemonStep, DaemonTakes, DaemonHandsOver, NoWebsocket, DaemonRests, SenderStep
<1>3. ASSUME NEW c \in Callers, CallerStep(c)
      PROVE  websocket = "none"
  BY <1>3 DEF CallerStep, Start, StartAgain, Record, RecordRaces, AsyncRequest, Pause,
     PauseState, PauseLoop, NoWebsocket, Resume, ResumeBegins, ResumeLoop, ResumeCrashes,
     ResumeState, Stop, ResetWebsocket, ShutdownCloses, JoinIo
<1> QED
  BY <1>1, <1>2, <1>3 DEF Next, vars

\* So nothing else has changed until then.
LEMMA UntouchedStep ==
    ASSUME Types, Untouched, [Next]_vars
    PROVE  Untouched'
<1> SUFFICES ASSUME websocket' = "none" PROVE Untouched'
  BY DEF Untouched
<1>1. websocket = "none"
  BY StartedForGood
<1> USE <1>1 DEF Untouched
<1>2. CASE UNCHANGED vars
  BY <1>2 DEF vars, sessionVars, streamerVars, NothingInFlight
<1>3. ASSUME NEW c \in Callers, Record(c) \/ AsyncRequest(c) PROVE Untouched'
  BY <1>3 DEF Record, AsyncRequest, GoTo, sessionVars, serverVars, daemonVars,
     NothingInFlight, Types, StreamerTypes, AtPlaces
<1>4. ASSUME NEW c \in Callers, Start(c) PROVE Untouched'
  BY <1>4 DEF Start
<1>5. ASSUME NEW c \in Callers, RecordRaces(c) PROVE Untouched'
  BY <1>5 DEF RecordRaces, Crash, sessionVars, streamerVars, serverVars, daemonVars,
     NothingInFlight
<1> QED
  BY <1>2, <1>3, <1>4, <1>5, OnlyCallersBefore

-----------------------------------------------------------------------------
\* Nothing was started at the start.
LEMMA TypeInit == Init => Types /\ Untouched
<1> SUFFICES ASSUME Init PROVE Types /\ Untouched
  OBVIOUS
<1>1. <<>> \in Seq(Messages) /\ <<>> \in Seq(Requests) /\ Len(<<>>) = 0
  BY EmptySeq
<1>2. SessionTypes /\ io \in IoPlaces
  <2>1. {runSender, runReceiver, loopRunning, shouldReconnect, link} \subseteq BOOLEAN
    BY Zenon DEF Init, SessionInit
  <2>2. ops \in [Op \X Life -> Nat]
    BY DEF Init, SessionInit
  <2> QED
    BY <1>1, <2>1, <2>2, MaxFaultsAssumption DEF Init, SessionInit, SessionTypes,
       SessionTypeOK, ConnState, StreamState, IoPlaces
<1>3. StreamerTypes
  <2>1. {runDaemon, restoring, loggedIn} \subseteq BOOLEAN
    BY Zenon DEF Init
  <2>2. at \in [Callers -> AtPlaces] /\ asking \in [Callers -> 0..MaxSubs]
    BY StreamerAssumption DEF Init, AtPlaces
  <2> QED
    BY <1>1, <2>1, <2>2, StreamerAssumption DEF Init, StreamerTypes
<1>4. Untouched
  BY DEF Init, SessionInit, Untouched, NothingInFlight
<1> QED
  BY <1>2, <1>3, <1>4 DEF Types

\* Every step of every thread keeps the types.
LEMMA TypeStep == Types /\ Untouched /\ [Next]_vars => Types' /\ Untouched'
<1> SUFFICES ASSUME Types, Untouched, [Next]_vars PROVE Types' /\ Untouched'
  OBVIOUS
<1>1. CASE IoStep
  BY <1>1, IoTyped, UntouchedStep
<1>2. CASE DaemonStep \/ SenderStep \/ (LoseLink /\ UNCHANGED streamerVars)
  BY <1>2, DaemonsTyped, UntouchedStep
<1>3. CASE \E c \in Callers : CallerStep(c)
  BY <1>3, CallersTyped, UntouchedStep
<1>4. CASE UNCHANGED vars
  <2>1. StreamerTypes' /\ io' \in IoPlaces
    BY <1>4 DEF vars, streamerVars, Types, StreamerTypes
  <2>2. SessionTypes'
    BY <1>4, SessionUnchanged DEF vars, Types
  <2> QED
    BY <2>1, <2>2, UntouchedStep DEF Types
<1> QED
  BY <1>1, <1>2, <1>3, <1>4 DEF Next

\* In every state, for the proofs that build on it.
LEMMA TypesAlways == Spec => [](Types /\ Untouched)
  BY TypeInit, TypeStep, PTL DEF Spec

\* Every variable of the streamer and of its session always has its type: no count of
\* operations in flight becomes negative, no daemon hands over what is not a request,
\* no queue holds anything else, whatever the threads do.
THEOREM StreamerTypeCorrect == Spec => []TypeOK
<1>1. Types => TypeOK
  BY TypesAre
<1> QED
  BY <1>1, TypesAlways, PTL
=============================================================================
