-------------------------- MODULE SubscriptionProofs --------------------------
(***************************************************************************)
(* What Streamer.tla promises of subscriptions, for any number of threads, *)
(* subscriptions and logins: none is lost over reconnections, and none on  *)
(* a connection that holds, however often it is paused and resumed.        *)
(***************************************************************************)
EXTENDS ConnectionProofs

-----------------------------------------------------------------------------
(***************************************************************************)
(* Subscriptions over reconnections.  While the streamer is not logged in, *)
(* each is in the request queue or still to be put there by the loop that  *)
(* restores them; the server forgets all of them at a handshake.           *)
(***************************************************************************)
\* The restoring loop runs where the io thread is in it, and is prepared before.
RestoreInv ==
    /\ restoring => io \in {"login", "loginRead"}
    /\ restore # {} => io = "restore"

\* It is going to run.
WillRestore == restoring \/ (io = "handshaked" /\ onHandshake = "reconnected")

NothingMissing ==
    pauses = 0 =>
        /\ loggedIn /\ link => Submitted \subseteq Pipeline \cup served
        /\ ~loggedIn /\ ~WillRestore /\ (link \/ onHandshake = "connected") =>
               Submitted \subseteq Elements(reqQueue) \cup restore

subscriptionVars == <<recorded, asking, reqQueue, held, msgQueue, outgoing, served, restore>>

\* A step keeps it that neither logs in nor connects, and that moves subscriptions on
\* or submits them to the request queue.
LEMMA MissingKept ==
    ASSUME NothingMissing,
           pauses' = 0 => pauses = 0,
           loggedIn' = loggedIn, link' => link,
           onHandshake' = "connected" => onHandshake = "connected",
           WillRestore => WillRestore',
           Submitted' \subseteq Submitted \cup Elements(reqQueue'),
           Submitted \cap (Pipeline \cup served) \subseteq Pipeline' \cup served' \/ ~link',
           \/ Elements(reqQueue) \cup restore \subseteq Elements(reqQueue') \cup restore'
           \/ loggedIn \/ WillRestore' \/ pauses' # 0
    PROVE  NothingMissing'
<1>1. Elements(reqQueue') \subseteq Pipeline'
  BY DEF Pipeline
<1>2. pauses' = 0 /\ loggedIn' /\ link' => Submitted' \subseteq Pipeline' \cup served'
  BY <1>1 DEF NothingMissing
<1>3. pauses' = 0 /\ ~loggedIn' /\ ~WillRestore' /\ (link' \/ onHandshake' = "connected") =>
          Submitted' \subseteq Elements(reqQueue') \cup restore'
  BY DEF NothingMissing
<1> QED
  BY <1>2, <1>3 DEF NothingMissing

\* In particular one that leaves them alone.
LEMMA MissingUntouched ==
    ASSUME NothingMissing,
           pauses' = 0 => pauses = 0,
           loggedIn' = loggedIn, link' => link,
           onHandshake' = "connected" => onHandshake = "connected",
           WillRestore => WillRestore',
           UNCHANGED subscriptionVars
    PROVE  NothingMissing'
<1>1. UNCHANGED <<Submitted, Pipeline, served, Elements(reqQueue), restore>>
  BY DEF subscriptionVars, Submitted, Pipeline, Elements
<1> QED
  BY <1>1, MissingKept

\* One that ends the process.
LEMMA MissingCrash ==
    ASSUME RestoreInv, NothingMissing, NEW why, Crash(why), UNCHANGED streamerVars
    PROVE  RestoreInv' /\ NothingMissing'
  BY MissingUntouched DEF Crash, sessionVars, streamerVars, subscriptionVars, WillRestore,
     RestoreInv

\* No subscription has the number of the login.
LEMMA LoginIsNone == ASSUME Types PROVE Submitted \subseteq Requests /\ Login \notin Requests
  BY StreamerAssumption DEF Types, StreamerTypes, Submitted, Requests, Login

\* What the streamer does on the io thread keeps it.
LEMMA MissingIo ==
    ASSUME Types, First, RestoreInv, NothingMissing, IoStep
    PROVE  RestoreInv' /\ NothingMissing'
<1> USE DEF streamerVars, daemonVars, restoreVars, callerVars, serverVars, IoAt
<1>0. /\ onHandshake \in {"connected", "reconnected"}
      /\ reqQueue \in Seq(Requests) /\ msgQueue \in Seq(Messages) /\ Login \in Messages
      /\ restore \subseteq Requests
  BY DEF Types, SessionTypes, SessionTypeOK, StreamerTypes, Messages
<1>1. CASE SessionHandlers /\ UNCHANGED streamerVars
  <2>1. /\ UNCHANGED <<msgQueue, outgoing, link>>
        /\ onHandshake' = "connected" => onHandshake = "connected"
        /\ io \in SessionPlaces /\ io' \in SessionPlaces
    BY <1>1, HandlersKeep
  <2>2. ~WillRestore /\ RestoreInv'
    BY <1>1, <2>1 DEF RestoreInv, WillRestore, SessionPlaces
  <2> QED
    BY <1>1, <2>1, <2>2, MissingUntouched DEF subscriptionVars
<1>2. CASE Handshake
  <2> PICK l \in Life :
        /\ WebsocketIsUp(l)
        /\ \/ l = "live" /\ loggedIn' = FALSE
           \/ l = "dead" /\ UNCHANGED <<loggedIn, served>>
    BY <1>2 DEF Handshake, Life
  <2>1. /\ io = "idle" /\ io' = "handshaked"
        /\ ops[<<"websocket", l>>] > 0
        /\ link' = (link \/ l = "live")
        /\ UNCHANGED <<onHandshake, msgQueue, outgoing>>
    BY DEF WebsocketIsUp, boundVars, senderVars
  <2>2. UNCHANGED <<recorded, asking, reqQueue, held, restoring, restore, pauses>>
    BY <1>2 DEF Handshake
  <2>3. ~restoring /\ restore = {} /\ ~WillRestore /\ RestoreInv'
    BY <2>1, <2>2 DEF RestoreInv, WillRestore
  <2>4. UNCHANGED <<Submitted, Elements(reqQueue)>>
    BY <2>2 DEF Submitted, Elements
  <2>5. onHandshake = "connected" => ~loggedIn
    BY <2>1 DEF First, WhileConnecting, Pending, Handshakes
  <2>6. CASE l = "live" /\ loggedIn' = FALSE
    BY <1>0, <2>1, <2>2, <2>3, <2>4, <2>5, <2>6 DEF NothingMissing, WillRestore
  <2>7. CASE l = "dead" /\ UNCHANGED <<loggedIn, served>>
    BY <2>1, <2>2, <2>3, <2>7, MissingUntouched DEF subscriptionVars
  <2> QED
    BY <2>3, <2>6, <2>7
<1>3. CASE OnWebsocketUp
  <2>1. /\ UNCHANGED <<sessionVars, subscriptionVars, pauses, loggedIn>>
        /\ io = "handshaked" /\ io' = "login"
        /\ restoring' = (onHandshake = "reconnected")
    BY <1>3 DEF OnWebsocketUp, subscriptionVars, sessionVars
  <2>2. RestoreInv' /\ (WillRestore => WillRestore')
    BY <2>1 DEF RestoreInv, WillRestore, subscriptionVars, sessionVars
  <2> QED
    BY <2>1, <2>2, MissingUntouched DEF sessionVars
<1>4. CASE SendLogin
  <2>1. CASE NoWebsocket
    BY <2>1, MissingCrash DEF NoWebsocket
  <2>2. CASE AsyncSend(Login) /\ io' = "loginRead" /\ UNCHANGED streamerVars
    <3>1. Elements(msgQueue') = Elements(msgQueue) \cup {Login}
      BY <1>0, <2>2, ElementsAppend DEF AsyncSend
    <3>2. /\ UNCHANGED <<link, onHandshake, outgoing>>
          /\ UNCHANGED <<Submitted, Elements(held), Elements(reqQueue), Elements(outgoing)>>
      BY <2>2 DEF AsyncSend, boundVars, Submitted, Elements
    <3>3. Pipeline \subseteq Pipeline'
      BY <3>1, <3>2 DEF Pipeline
    <3>4. io = "login"
      BY <1>4 DEF SendLogin
    <3>5. RestoreInv' /\ (WillRestore => WillRestore')
      BY <2>2, <3>2, <3>4 DEF RestoreInv, WillRestore
    <3> QED
      BY <2>2, <3>2, <3>3, <3>5, MissingKept
  <2> QED
    BY <1>4, <2>1, <2>2 DEF SendLogin
<1>5. CASE ReadLogin
  <2>1. CASE NoWebsocket \/ (Crash("null_stream") /\ UNCHANGED streamerVars)
    BY <2>1, MissingCrash DEF NoWebsocket
  <2>2. CASE /\ AsyncReceive
             /\ io' = IF restoring THEN "restore" ELSE "idle"
             /\ restore' = ToRestore /\ restoring' = FALSE
             /\ UNCHANGED <<daemonVars, recorded, callerVars, serverVars>>
    <3>1. UNCHANGED <<link, onHandshake, msgQueue, outgoing>>
      BY <2>2 DEF AsyncReceive, connVars, boundVars, senderVars
    <3>2. io = "loginRead" /\ restore = {}
      BY <1>5 DEF ReadLogin, RestoreInv
    <3>3. RestoreInv'
      BY <2>2 DEF RestoreInv, ToRestore
    <3>4. UNCHANGED <<Submitted, Pipeline, Elements(reqQueue)>> /\ Submitted \subseteq 1..recorded
      BY <2>2, <3>1 DEF Submitted, Pipeline, Elements
    <3>5. CASE restoring
      BY <2>2, <3>1, <3>3, <3>4, <3>5 DEF NothingMissing, ToRestore
    <3>6. CASE ~restoring
      BY <2>2, <3>1, <3>2, <3>3, <3>4, <3>6, MissingKept DEF WillRestore, ToRestore
    <3> QED
      BY <3>5, <3>6
  <2> QED
    BY <1>5, <2>1, <2>2 DEF ReadLogin
<1>6. CASE RestoreSubscription
  <2>1. UNCHANGED <<sessionVars, held, recorded, restoring, callerVars, serverVars>>
    BY <1>6 DEF RestoreSubscription
  <2>2. io = "restore"
    BY <1>6 DEF RestoreSubscription
  <2>3. UNCHANGED <<Submitted, Elements(held), Elements(msgQueue), Elements(outgoing)>>
    BY <2>1 DEF sessionVars, Submitted, Elements
  <2>4. CASE restore = {}
    <3>1. io' = "idle" /\ UNCHANGED <<reqQueue, restore>>
      BY <1>6, <2>4 DEF RestoreSubscription
    <3> QED
      BY <2>1, <2>2, <2>4, <3>1, MissingUntouched
         DEF sessionVars, subscriptionVars, RestoreInv, WillRestore
  <2>5. CASE restore # {}
    <3> DEFINE r == CHOOSE x \in restore : \A y \in restore : x <= y
    <3>1. r \in restore
      BY <1>0, <2>5, FirstRequest
    <3>2. reqQueue' = Append(reqQueue, r) /\ restore' = restore \ {r} /\ io' = io
      BY <1>6, <2>5 DEF RestoreSubscription
    <3> HIDE DEF r
    <3>3. Elements(reqQueue') = Elements(reqQueue) \cup {r}
      BY <1>0, <3>1, <3>2, ElementsAppend
    <3>4. Pipeline \subseteq Pipeline'
      BY <2>3, <3>3 DEF Pipeline
    <3>5. RestoreInv' /\ (WillRestore => WillRestore')
      BY <2>1, <2>2, <3>2 DEF RestoreInv, WillRestore
    <3> QED
      BY <2>1, <2>3, <3>2, <3>3, <3>4, <3>5, MissingKept DEF sessionVars
  <2> QED
    BY <2>4, <2>5
<1>7. CASE LoginAnswered
  <2>1. /\ io = "idle" /\ io' \in {"accepted", "refused"}
        /\ UNCHANGED <<link, senderVars, boundVars, daemonVars, restoreVars, callerVars,
                       loggedIn, served>>
    BY <1>7 DEF LoginAnswered, OnReadError, OnReadData
  <2>2. RestoreInv' /\ ~WillRestore
    BY <2>1 DEF RestoreInv, WillRestore
  <2> QED
    BY <2>1, <2>2, MissingUntouched DEF subscriptionVars, senderVars, boundVars
<1>8. CASE LoginAnswerEmpty
  BY <1>8, MissingCrash DEF LoginAnswerEmpty
<1>9. CASE LoginAccepted
  <2>1. /\ io = "accepted" /\ io' = "loopFlag" /\ loggedIn'
        /\ UNCHANGED <<link, msgQueue, outgoing, onHandshake, daemonVars, restoreVars,
                       callerVars, served>>
    BY <1>9 DEF LoginAccepted, sessionVars
  <2>2. ~WillRestore /\ restore = {} /\ RestoreInv'
    BY <2>1 DEF RestoreInv, WillRestore
  <2>3. UNCHANGED <<Submitted, Pipeline>> /\ Elements(reqQueue) \subseteq Pipeline
    BY <2>1 DEF Submitted, Pipeline, Elements
  <2> QED
    BY <2>1, <2>2, <2>3 DEF NothingMissing
<1>10. CASE LoginStartsLoop
  <2>1. CASE NoWebsocket \/ (Crash("null_stream") /\ UNCHANGED streamerVars)
    BY <2>1, MissingCrash DEF NoWebsocket
  <2>2. CASE /\ SetReceiverFlag \/ MarkLoop \/ LaunchLoop \/ UNCHANGED sessionVars
             /\ io \in {"loopFlag", "loopTest", "loopMark", "loopRead"}
             /\ io' \in {"loopTest", "loopMark", "loopRead", "recheck"}
             /\ UNCHANGED streamerVars
    <3>1. UNCHANGED <<link, msgQueue, outgoing, onHandshake>>
      BY <2>2 DEF SetReceiverFlag, MarkLoop, LaunchLoop, senderVars, boundVars, sessionVars
    <3>2. RestoreInv' /\ ~WillRestore
      BY <2>2 DEF RestoreInv, WillRestore
    <3> QED
      BY <2>2, <3>1, <3>2, MissingUntouched DEF subscriptionVars
  <2> QED
    BY <1>10, <2>1, <2>2 DEF LoginStartsLoop
<1>11. CASE RecheckLogin
  <2>1. /\ io \in {"refused", "recheck"} /\ io' \in {"idle", "login"}
        /\ UNCHANGED <<link, msgQueue, outgoing, onHandshake, streamerVars>>
    BY <1>11 DEF RecheckLogin, connVars, senderVars, boundVars
  <2>2. RestoreInv' /\ ~WillRestore
    BY <2>1 DEF RestoreInv, WillRestore
  <2> QED
    BY <2>1, <2>2, MissingUntouched DEF subscriptionVars
<1> QED
  BY <1>1, <1>2, <1>3, <1>4, <1>5, <1>6, <1>7, <1>8, <1>9, <1>10, <1>11 DEF IoStep

\* What the daemons pass on is not lost ...
LEMMA HandedOver ==
    ASSUME Types, DaemonHandsOver, ~NoWebsocket
    PROVE  UNCHANGED <<Submitted, Pipeline, served, reqQueue, restore, pauses, loggedIn,
                       link, onHandshake, io, restoring, websocket, faults>>
<1>1. UNCHANGED <<recorded, asking, reqQueue, served, restore, pauses, loggedIn, io,
                  restoring, websocket, faults>>
  BY DEF DaemonHandsOver, AsyncSend, restoreVars, callerVars, serverVars
<1>2. UNCHANGED <<Submitted, Elements(reqQueue)>>
  BY <1>1 DEF Submitted, Elements
<1>3. Elements(outgoing') = Elements(outgoing)
  BY Passed DEF Elements
<1> QED
  BY <1>1, <1>2, <1>3, Passed DEF Pipeline

LEMMA TakenByDaemon ==
    ASSUME Types, DaemonTakes
    PROVE  /\ UNCHANGED <<Submitted, Pipeline, sessionVars, served, restore, pauses,
                          loggedIn, io, restoring, websocket>>
           /\ state = "Active"
<1>1. /\ reqQueue # <<>> /\ held' = <<Head(reqQueue)>> /\ reqQueue' = Tail(reqQueue)
      /\ daemon # "hold" /\ state = "Active"
      /\ UNCHANGED <<sessionVars, recorded, asking, served, restore, pauses, loggedIn, io,
                     restoring, websocket>>
  BY DEF DaemonTakes, MayHandOver, DaemonAt, restoreVars, callerVars, serverVars
<1>2. held = <<>> /\ reqQueue \in Seq(Requests)
  BY <1>1, EmptySeq DEF Types, StreamerTypes
<1>3. Elements(reqQueue) = {Head(reqQueue)} \cup Elements(reqQueue')
  BY <1>1, <1>2, ElementsTail
<1>4. Elements(held) = {} /\ Elements(held') = {Head(reqQueue)}
  BY <1>1, <1>2, ElementsOne, ElementsEmpty
<1>5. UNCHANGED <<Submitted, Elements(msgQueue), Elements(outgoing)>>
  BY <1>1 DEF Submitted, Elements, sessionVars
<1> QED
  BY <1>1, <1>3, <1>4, <1>5 DEF Pipeline

LEMMA TakenBySender ==
    ASSUME Types, SenderTakes, UNCHANGED streamerVars
    PROVE  UNCHANGED <<Submitted, Pipeline, served, reqQueue, restore, pauses, loggedIn,
                       link, onHandshake, io, restoring, websocket, faults>>
<1>1. UNCHANGED <<Submitted, Elements(reqQueue), Elements(held)>>
  BY DEF streamerVars, Submitted, Elements
<1>2. UNCHANGED <<served, reqQueue, restore, pauses, loggedIn, restoring, websocket, faults>>
  BY DEF streamerVars, SenderTakes
<1> QED
  BY <1>1, <1>2, Taken DEF Pipeline

\* ... but for what is written to a link that is lost, or before the login.
LEMMA Written ==
    ASSUME Types, SenderWrites, ServerTakes(Head(outgoing)),
           UNCHANGED <<daemonVars, restoreVars, callerVars>>
    PROVE  /\ UNCHANGED <<Submitted, reqQueue, restore, pauses, loggedIn, link, onHandshake,
                          io, restoring, faults>>
           /\ Submitted \cap (Pipeline \cup served) \subseteq Pipeline' \cup served'
                 \/ ~link \/ (~loggedIn /\ ~(Elements(outgoing) \subseteq {Login}))
<1>1. /\ UNCHANGED <<recorded, asking, reqQueue, held, msgQueue, restore, pauses, loggedIn,
                     link, onHandshake, io, restoring, faults>>
      /\ outgoing' = <<>>
      /\ sender = "write"
  BY DEF SenderWrites, SenderAt, ServerTakes, boundVars, daemonVars, restoreVars, callerVars
<1>2. UNCHANGED <<Submitted, Elements(reqQueue), Elements(held), Elements(msgQueue)>>
  BY <1>1 DEF Submitted, Elements
<1>3. outgoing = <<Head(outgoing)>>
  BY <1>1, HeldIsThere DEF Types, SessionTypes
<1>4. Elements(outgoing) = {Head(outgoing)} /\ Elements(outgoing') = {}
  BY <1>1, <1>3, ElementsOne, ElementsEmpty
<1>5. CASE link /\ (loggedIn \/ Head(outgoing) = Login)
  <2>1. Head(outgoing) \in served' \/ Head(outgoing) \notin Submitted
    BY <1>5, LoginIsNone DEF ServerTakes
  <2>2. served \subseteq served'
    BY DEF ServerTakes
  <2> QED
    BY <1>1, <1>2, <1>4, <2>1, <2>2 DEF Pipeline
<1> QED
  BY <1>1, <1>2, <1>4, <1>5

\* The daemons and the network keep it.
LEMMA MissingDaemons ==
    ASSUME Types, First, ActiveInv, RestoreInv, NothingMissing,
           DaemonStep \/ SenderStep \/ (LoseLink /\ UNCHANGED streamerVars)
    PROVE  RestoreInv' /\ NothingMissing'
<1> USE DEF streamerVars, callerVars, serverVars, restoreVars
<1>1. CASE DaemonTakes
  <2>1. UNCHANGED <<link, onHandshake, io, restoring>>
    BY <1>1, TakenByDaemon DEF sessionVars
  <2>2. RestoreInv' /\ (WillRestore <=> WillRestore')
    BY <1>1, <2>1, TakenByDaemon DEF RestoreInv, WillRestore
  <2>3. loggedIn \/ WillRestore \/ pauses # 0
    BY <1>1, TakenByDaemon DEF ActiveInv, LoggedInFirst, WillRestore, First, HandshakedFirst,
       BeforeLogin, Types, SessionTypes, SessionTypeOK
  <2> QED
    BY <1>1, <2>1, <2>2, <2>3, TakenByDaemon, MissingKept
<1>2. CASE DaemonHandsOver
  <2>1. CASE NoWebsocket
    BY <2>1, MissingCrash DEF NoWebsocket
  <2>2. CASE ~NoWebsocket
    <3>1. RestoreInv' /\ (WillRestore => WillRestore')
      BY <1>2, <2>2, HandedOver DEF RestoreInv, WillRestore
    <3> QED
      BY <1>2, <2>2, <3>1, HandedOver, MissingKept DEF Elements
  <2> QED
    BY <2>1, <2>2
<1>3. CASE DaemonRests \/ (LoseLink /\ UNCHANGED streamerVars)
         \/ ((SenderRests \/ SenderExits(SessionReleased)) /\ UNCHANGED streamerVars)
  <2>1. /\ UNCHANGED <<subscriptionVars, pauses, loggedIn, onHandshake, io, restoring>>
        /\ link' => link
    BY <1>3 DEF DaemonRests, LoseLink, SenderRests, SenderExits, sessionVars, senderVars,
       boundVars, subscriptionVars
  <2>2. RestoreInv' /\ (WillRestore => WillRestore')
    BY <2>1 DEF RestoreInv, WillRestore, subscriptionVars
  <2> QED
    BY <2>1, <2>2, MissingUntouched
<1>4. CASE SenderTakes /\ UNCHANGED streamerVars
  <2>1. RestoreInv' /\ (WillRestore => WillRestore')
    BY <1>4, TakenBySender DEF RestoreInv, WillRestore
  <2> QED
    BY <1>4, <2>1, TakenBySender, MissingKept DEF Elements
<1>5. CASE SenderCrashes /\ UNCHANGED streamerVars
  BY <1>5, MissingCrash DEF SenderCrashes
<1>6. CASE /\ SenderWrites
           /\ ServerTakes(Head(outgoing))
           /\ UNCHANGED <<state, websocket, daemonVars, restoreVars, callerVars>>
  <2>1. RestoreInv' /\ (WillRestore => WillRestore')
    BY <1>6, Written DEF RestoreInv, WillRestore
  <2>2. UNCHANGED <<Submitted, Elements(reqQueue), restore, pauses, loggedIn, link, onHandshake>>
    BY <1>6, Written DEF Elements
  <2>3. CASE loggedIn
    BY <1>6, <2>1, <2>2, <2>3, Written, MissingKept
  <2>4. CASE ~loggedIn
    BY <2>1, <2>2, <2>4 DEF NothingMissing
  <2> QED
    BY <2>3, <2>4
<1> QED
  BY <1>1, <1>2, <1>3, <1>4, <1>5, <1>6 DEF DaemonStep, SenderStep

\* Submitting is recording, then queueing.
LEMMA RecordSubmits ==
    ASSUME Types, NEW c \in Callers, Record(c)
    PROVE  Submitted' = Submitted
<1>1. /\ asking[c] = 0 /\ recorded \in Nat
      /\ recorded' = recorded + 1
      /\ asking \in [Callers -> 0..MaxSubs]
      /\ asking' = [asking EXCEPT ![c] = recorded + 1]
  BY StreamerAssumption DEF Record, CallerAt, Types, StreamerTypes
<1>2. ASSUME NEW x \in Submitted' PROVE x \in Submitted
  <2>1. x \in 1..(recorded + 1) /\ \A d \in Callers : asking'[d] # x
    BY <1>1 DEF Submitted
  <2>2. x # recorded + 1
    BY <1>1, <2>1
  <2>3. \A d \in Callers : asking[d] # x
    BY <1>1, <2>1
  <2> QED
    BY <1>1, <2>1, <2>2, <2>3 DEF Submitted
<1>3. ASSUME NEW x \in Submitted PROVE x \in Submitted'
  <2>1. x \in 1..recorded /\ \A d \in Callers : asking[d] # x
    BY DEF Submitted
  <2>2. \A d \in Callers : asking'[d] # x
    BY <1>1, <2>1
  <2> QED
    BY <1>1, <2>1, <2>2 DEF Submitted
<1> QED
  BY <1>2, <1>3

LEMMA AsyncRequestSubmits ==
    ASSUME Types, NEW c \in Callers, AsyncRequest(c)
    PROVE  /\ Submitted' \subseteq Submitted \cup Elements(reqQueue')
           /\ Elements(reqQueue) \subseteq Elements(reqQueue')
           /\ Pipeline \subseteq Pipeline'
<1>1. /\ asking[c] \in Requests /\ reqQueue \in Seq(Requests)
      /\ asking \in [Callers -> 0..MaxSubs]
      /\ asking' = [asking EXCEPT ![c] = 0]
      /\ reqQueue' = Append(reqQueue, asking[c])
      /\ UNCHANGED <<recorded, held, sessionVars>>
  BY DEF AsyncRequest, CallerAt, Types, StreamerTypes, Requests, restoreVars
<1>2. Elements(reqQueue') = Elements(reqQueue) \cup {asking[c]}
  BY <1>1, ElementsAppend
<1>3. UNCHANGED <<Elements(held), Elements(msgQueue), Elements(outgoing)>>
  BY <1>1 DEF Elements, sessionVars
<1>4. ASSUME NEW x \in Submitted', x # asking[c] PROVE x \in Submitted
  <2>1. x \in 1..recorded /\ \A d \in Callers : asking'[d] # x
    BY <1>1 DEF Submitted
  <2>2. \A d \in Callers : asking[d] # x
    BY <1>1, <1>4, <2>1
  <2> QED
    BY <2>1, <2>2 DEF Submitted
<1> QED
  BY <1>2, <1>3, <1>4 DEF Pipeline

\* Callers keep it.
LEMMA MissingCallers ==
    ASSUME Types, Untouched, ActiveInv, RestoreInv, NothingMissing,
           NEW c \in Callers, CallerStep(c)
    PROVE  RestoreInv' /\ NothingMissing'
<1> USE DEF streamerVars, callerVars, serverVars, restoreVars, daemonVars, CallerAt
<1>1. CASE StartAgain(c) \/ RecordRaces(c)
  BY <1>1, MissingCrash DEF StartAgain, RecordRaces
<1>2. CASE Start(c)
  <2>1. UNCHANGED <<subscriptionVars, pauses, loggedIn, link, io, restoring>>
    BY <1>2 DEF Start, AsyncConnect, subscriptionVars
  <2>2. onHandshake = "connected" /\ onHandshake' = "connected"
    BY <1>2 DEF Start, AsyncConnect, Untouched
  <2>3. RestoreInv' /\ (WillRestore => WillRestore')
    BY <2>1, <2>2 DEF RestoreInv, WillRestore, subscriptionVars
  <2> QED
    BY <2>1, <2>2, <2>3, MissingUntouched
<1>3. CASE Record(c)
  <2>1. /\ UNCHANGED <<pauses, loggedIn, link, onHandshake, io, restoring, restore, served,
                       reqQueue, held, msgQueue, outgoing>>
        /\ Submitted' = Submitted
    BY <1>3, RecordSubmits DEF Record, sessionVars
  <2>2. RestoreInv' /\ (WillRestore => WillRestore')
    BY <2>1 DEF RestoreInv, WillRestore
  <2>3. UNCHANGED <<Pipeline, Elements(reqQueue)>>
    BY <2>1 DEF Pipeline, Elements
  <2> QED
    BY <2>1, <2>2, <2>3, MissingKept
<1>4. CASE AsyncRequest(c)
  <2>1. UNCHANGED <<pauses, loggedIn, link, onHandshake, io, restoring, restore, served>>
    BY <1>4 DEF AsyncRequest, sessionVars
  <2>2. RestoreInv' /\ (WillRestore => WillRestore')
    BY <2>1 DEF RestoreInv, WillRestore
  <2> QED
    BY <1>4, <2>1, <2>2, AsyncRequestSubmits, MissingKept
<1>5. CASE Pause(c) \/ Resume(c)
  <2>1. pauses' # 0
    <3>1. CASE PauseState(c)
      BY <3>1, StreamerAssumption DEF PauseState, Types, StreamerTypes
    <3>2. CASE PauseLoop(c) \/ Resume(c)
      <4>1. pauses # 0
        BY <3>2 DEF PauseLoop, Resume, ResumeBegins, ResumeLoop, ResumeCrashes, ResumeState,
                    ActiveInv, Unpaused, PausePlaces
      <4>2. pauses' = pauses
        BY <3>2 DEF PauseLoop, NoWebsocket, Resume, ResumeBegins, ResumeLoop, ResumeCrashes,
                    ResumeState
      <4> QED
        BY <4>1, <4>2
    <3> QED
      BY <1>5, <3>1, <3>2 DEF Pause
  <2>2. UNCHANGED <<io, restoring, restore>>
    BY <1>5 DEF Pause, PauseState, PauseLoop, NoWebsocket, Crash, Resume, ResumeBegins,
                ResumeLoop, ResumeCrashes, ResumeState
  <2> QED
    BY <2>1, <2>2 DEF RestoreInv, NothingMissing
<1>6. CASE Stop(c) \/ ResetWebsocket(c) \/ ShutdownCloses(c) \/ JoinIo(c)
  <2>1. UNCHANGED <<subscriptionVars, pauses, loggedIn, link, onHandshake, io, restoring>>
    BY <1>6 DEF Stop, ResetWebsocket, Disconnect, ShutdownCloses, CloseStream, JoinIo,
                sessionVars, senderVars, boundVars, subscriptionVars
  <2>2. RestoreInv' /\ (WillRestore => WillRestore')
    BY <2>1 DEF RestoreInv, WillRestore, subscriptionVars
  <2> QED
    BY <2>1, <2>2, MissingUntouched
<1> QED
  BY <1>1, <1>2, <1>3, <1>4, <1>5, <1>6 DEF CallerStep

\* In every state.
LEMMA MissingAlways == Spec => [](RestoreInv /\ NothingMissing)
<1>1. Init => RestoreInv /\ NothingMissing
  <2> SUFFICES ASSUME Init PROVE RestoreInv /\ NothingMissing
    OBVIOUS
  <2>1. Submitted = {} /\ ~restoring /\ restore = {}
    BY DEF Init, Submitted
  <2> QED
    BY <2>1 DEF RestoreInv, NothingMissing
<1>2. Types /\ Untouched /\ First /\ ActiveInv /\ RestoreInv /\ NothingMissing /\ [Next]_vars
          => RestoreInv' /\ NothingMissing'
  <2> SUFFICES ASSUME Types, Untouched, First, ActiveInv, RestoreInv, NothingMissing,
                      [Next]_vars
               PROVE  RestoreInv' /\ NothingMissing'
    OBVIOUS
  <2>1. CASE UNCHANGED vars
    <3>1. UNCHANGED <<subscriptionVars, pauses, loggedIn, link, onHandshake, io, restoring>>
      BY <2>1 DEF vars, sessionVars, streamerVars, subscriptionVars
    <3>2. RestoreInv' /\ (WillRestore => WillRestore')
      BY <3>1 DEF RestoreInv, WillRestore, subscriptionVars
    <3> QED
      BY <3>1, <3>2, MissingUntouched
  <2> QED
    BY <2>1, MissingIo, MissingDaemons, MissingCallers DEF Next
<1> QED
  BY <1>1, <1>2, TypesAlways, FirstAlways, ActiveAlways, PTL DEF Spec

\* As long as nobody has paused, over any number of reconnections, lost links and refused
\* logins: as soon as the streamer is logged in over a link that holds, every request that
\* was ever submitted is with the server or on its way there.  (A pause may let requests
\* out before the login of the next connection, where the server ignores them.)
THEOREM SubscriptionsRestored == Spec => [](pauses = 0 => Resubscribed)
<1>1. NothingMissing => (pauses = 0 => Resubscribed)
  BY DEF NothingMissing, Resubscribed
<1> QED
  BY <1>1, MissingAlways, PTL

-----------------------------------------------------------------------------
(***************************************************************************)
(* A connection that holds.  As long as no link was lost and no login      *)
(* refused there is one connection, the first, until the streamer is       *)
(* stopped: it is being made, however often that fails, or it is open.     *)
(***************************************************************************)
Firm ==
    /\ onHandshake = "connected"
    /\ \A op \in Op : ops[<<op, "dead">>] = 0
    /\ ops[<<"close", "live">>] = 0 /\ ops[<<"drain", "live">>] = 0
    /\ io \notin {"reconnect", "closeStream", "join"}
    /\ IF Pending(ops) THEN stream = "fresh" ELSE stream = "open" /\ link

Steady == faults = 0 /\ websocket = "live" => Firm

\* Steps that leave the stream and the operations alone keep it, ...
LEMMA FirmKept ==
    ASSUME Firm, UNCHANGED <<onHandshake, ops, stream, link>>,
           io' = io \/ io' \notin {"reconnect", "closeStream", "join"}
    PROVE  Firm'
  BY DEF Firm, Pending

\* ... and so do starting and completing a read.
LEMMA FirmReads ==
    ASSUME Types, Firm, UNCHANGED <<onHandshake, stream, link>>,
           io' = io \/ io' \notin {"reconnect", "closeStream", "join"},
           NEW op \in {"login", "loop"},
           \/ ops' = Started(ops, op)
           \/ ops[<<op, "live">>] > 0 /\ ops' = Completed(ops, op, "live")
           \/ ops[<<op, "live">>] > 0 /\ ops' = Started(Completed(ops, op, "live"), op)
    PROVE  Firm'
<1>1. /\ ops \in [Op \X Life -> Nat] /\ op \in Op /\ op \in Op \ Handshakes
      /\ Life = {"live", "dead"}
  BY DEF Types, SessionTypes, SessionTypeOK, Op, Handshakes, Life
<1> DEFINE c == Completed(ops, op, "live")
<1>2. ops[<<op, "live">>] > 0 => c \in [Op \X Life -> Nat]
  BY <1>1, OpsTyped
<1>3. Pending(ops') <=> Pending(ops)
  <2>1. Pending(c) <=> Pending(ops)
    BY <1>1, OtherOps
  <2>2. ops[<<op, "live">>] > 0 => (Pending(Started(c, op)) <=> Pending(c))
    <3> HIDE DEF c
    <3> QED
      BY <1>1, <1>2, OtherOps
  <2>3. Pending(Started(ops, op)) <=> Pending(ops)
    BY <1>1, OtherOps
  <2> QED
    BY <2>1, <2>2, <2>3
<1>6. ASSUME NEW k \in Op, NEW l \in Life, l = "dead" \/ k # op
      PROVE  ops'[<<k, l>>] = ops[<<k, l>>]
  <2>1. Started(ops, op)[<<k, l>>] = ops[<<k, l>>]
    BY <1>1, <1>6 DEF Started
  <2>2. c[<<k, l>>] = ops[<<k, l>>]
    BY <1>1, <1>6 DEF Completed
  <2>3. ops[<<op, "live">>] > 0 => Started(c, op)[<<k, l>>] = c[<<k, l>>]
    <3> HIDE DEF c
    <3> QED
      BY <1>1, <1>2, <1>6 DEF Started
  <2> QED
    BY <2>1, <2>2, <2>3
<1>4. \A k \in Op : ops'[<<k, "dead">>] = 0
  BY <1>1, <1>6 DEF Firm
<1>5. ops'[<<"close", "live">>] = 0 /\ ops'[<<"drain", "live">>] = 0
  BY <1>1, <1>6 DEF Firm, Op
<1> QED
  BY <1>3, <1>4, <1>5 DEF Firm

\* On such a connection no read fails, ...
LEMMA NoReadFails ==
    ASSUME Types, First, Firm, NEW op \in {"login", "loop"}, NEW l \in Life
    PROVE  ~ReadFails(op, l)
<1>1. op \in Op /\ op \in Op \ Handshakes /\ l \in {"live", "dead"}
  BY DEF Op, Handshakes, Life
<1>2. CASE Pending(ops)
  BY <1>1, <1>2 DEF Firm, First, WhileConnecting, Quiet, ReadFails
<1>3. CASE ~Pending(ops)
  BY <1>1, <1>3 DEF Firm, ReadFails, Healthy
<1> QED
  BY <1>2, <1>3

\* ... and a handshake makes progress.
LEMMA FirmAdvance ==
    ASSUME Types, Firm, NEW h \in Handshakes, NEW k \in Handshakes, NEW reached,
           Advance(h, reached, k)
    PROVE  Firm'
<1> DEFINE c == Completed(ops, h, "live")
<1>1. /\ ops \in [Op \X Life -> Nat] /\ h \in Op /\ k \in Op /\ "live" \in Life
      /\ "dead" \in Life /\ Handshakes \subseteq Op
  BY DEF Types, SessionTypes, SessionTypeOK, Op, Handshakes, Life
<1>2. /\ ops[<<h, "live">>] > 0 /\ ops' = Started(c, k)
      /\ UNCHANGED <<onHandshake, stream, link, io>>
  <2> PICK l \in Life : /\ ops[<<h, l>>] > 0 /\ ops' = Started(Completed(ops, h, l), k)
                        /\ UNCHANGED <<onHandshake, stream, link, io>>
    BY DEF Advance, boundVars
  <2>1. ops[<<h, "dead">>] = 0
    BY <1>1 DEF Firm
  <2>2. l = "live"
    BY <1>1, <2>1 DEF Life
  <2> QED
    BY <2>2
<1>3. c \in [Op \X Life -> Nat]
  BY <1>1, <1>2, OpsTyped
<1>4. ASSUME NEW g \in Op, NEW m \in Life, m = "dead" \/ g \notin Handshakes
      PROVE  ops'[<<g, m>>] = ops[<<g, m>>]
  <2>1. c[<<g, m>>] = ops[<<g, m>>]
    BY <1>1, <1>4 DEF Completed
  <2> HIDE DEF c
  <2>2. Started(c, k)[<<g, m>>] = c[<<g, m>>]
    BY <1>1, <1>3, <1>4 DEF Started
  <2> QED
    BY <1>2, <2>1, <2>2
<1> HIDE DEF c
<1>5. Pending(ops')
  <2>1. Started(c, k)[<<k, "live">>] = c[<<k, "live">>] + 1
    BY <1>1, <1>3 DEF Started
  <2>2. c[<<k, "live">>] \in Nat
    BY <1>1, <1>3
  <2> QED
    BY <1>1, <1>2, <2>1, <2>2 DEF Pending
<1>6. Pending(ops)
  BY <1>1, <1>2 DEF Pending
<1>7. \A g \in Op : ops'[<<g, "dead">>] = 0
  BY <1>1, <1>4 DEF Firm
<1>8. ops'[<<"close", "live">>] = 0 /\ ops'[<<"drain", "live">>] = 0
  BY <1>1, <1>4 DEF Firm, Op, Handshakes
<1> QED
  BY <1>2, <1>5, <1>6, <1>7, <1>8 DEF Firm

\* ... or starts again.
LEMMA FirmRetry ==
    ASSUME Types, First, Firm, NEW h \in Handshakes, Retry(h)
    PROVE  Firm'
<1>1. /\ ops \in [Op \X Life -> Nat] /\ h \in Op /\ Life = {"live", "dead"}
      /\ "resolve" \in Handshakes /\ {"close", "drain"} \subseteq Op \ Handshakes
  BY DEF Types, SessionTypes, SessionTypeOK, Op, Handshakes, Life
<1> PICK l \in Life : /\ ops[<<h, l>>] > 0
                      /\ ops' = Started(Cancelled(Completed(ops, h, l)), "resolve")
                      /\ stream' = "fresh"
                      /\ UNCHANGED <<onHandshake, link, io>>
  BY DEF Retry, boundVars
<1>2. NoneDead(ops) /\ l = "live"
  BY <1>1 DEF Firm, NoneDead
<1>3. Quiet(ops) /\ Lone(ops)
  BY DEF Firm, First, WhileConnecting, Pending
<1> DEFINE c == Completed(ops, h, "live")
<1>4. Nothing(c) /\ c \in [Op \X Life -> Nat]
  BY <1>1, <1>2, <1>3, NothingLeft, OpsTyped
<1> HIDE DEF c
<1>5. Nothing(Cancelled(c)) /\ Cancelled(c) \in [Op \X Life -> Nat]
  BY <1>1, <1>4, NothingThen, OpsTyped
<1> DEFINE d == Cancelled(c)
<1> HIDE DEF d
<1>6. Pending(Started(d, "resolve")) /\ Quiet(Started(d, "resolve"))
          /\ NoneDead(Started(d, "resolve"))
  BY <1>1, <1>5, NothingThen DEF d
<1>7. ops' = Started(d, "resolve")
  BY <1>2 DEF c, d
<1>8. Pending(ops') /\ Quiet(ops') /\ NoneDead(ops')
  BY <1>6, <1>7
<1>9. ops'[<<"close", "live">>] = 0 /\ ops'[<<"drain", "live">>] = 0
  BY <1>1, <1>8 DEF Quiet
<1>10. stream' = "fresh" /\ onHandshake' = onHandshake /\ io' = io
  OBVIOUS
<1> QED
  BY <1>8, <1>9, <1>10 DEF Firm, NoneDead

\* Nothing the handlers of the session do counts as a fault, ...
LEMMA HandlersFaultless == ASSUME SessionHandlers PROVE UNCHANGED faults
<1>1. CASE OnResolve \/ OnConnect \/ OnSSLHandshake \/ WebsocketIsRefused
  BY <1>1 DEF OnResolve, OnConnect, OnSSLHandshake, WebsocketIsRefused, HandshakeStep,
              Advance, AdvanceWithoutStream, Retry, Crash, sessionVars
<1>2. CASE OnReceiveLoop
  <2>1. ASSUME NEW l \in Life, ReceiveLoopFails(l) \/ ReceiveLoopReadsOn(l)
                  \/ ReceiveLoopDisconnected(l) \/ ReceiveLoopStopping(l)
                  \/ ReceivedWithoutStream(l)
        PROVE  UNCHANGED faults
    BY <2>1 DEF ReceiveLoopFails, ReceiveLoopReadsOn, ReceiveLoopDisconnected,
       ReceiveLoopStopping, ReceivedWithoutStream, Crash, connVars, sessionVars
  <2>2. ReceiveLoopStopped => UNCHANGED faults
    BY DEF ReceiveLoopStopped
  <2> QED
    BY <1>2, <2>1, <2>2 DEF OnReceiveLoop
<1>3. CASE OnClose \/ ClosedWithoutStream \/ DrainOnClose
  BY <1>3 DEF OnClose, ClosedWithoutStream, DrainOnClose, Crash, sessionVars
<1>4. CASE AsyncReconnect(FlagsInUse)
  BY <1>4 DEF AsyncReconnect, ReconnectDisconnects, Disconnect, ReconnectCloses, CloseStream,
     ReconnectConnects, AsyncConnect
<1> QED
  BY <1>1, <1>2, <1>3, <1>4 DEF SessionHandlers

\* ... and they keep it.
LEMMA SteadyHandlers ==
    ASSUME Types, First, Steady, SessionHandlers, UNCHANGED streamerVars
    PROVE  Steady'
<1>1. UNCHANGED <<faults, websocket>>
  BY HandlersFaultless DEF streamerVars
<1> SUFFICES ASSUME Firm PROVE Firm'
  BY <1>1 DEF Steady
<1> USE DEF IoAt
<1>2. ASSUME NEW why, Crash(why) PROVE Firm'
  BY <1>2, FirmKept DEF Crash, sessionVars
<1>3. CASE OnResolve \/ OnConnect \/ OnSSLHandshake \/ WebsocketIsRefused
  <2>1. ASSUME NEW h \in Handshakes, AdvanceWithoutStream(h) PROVE Firm'
    BY <1>2, <2>1 DEF AdvanceWithoutStream
  <2> QED
    BY <1>3, <2>1, FirmAdvance, FirmRetry DEF OnResolve, OnConnect, OnSSLHandshake,
       WebsocketIsRefused, HandshakeStep, Handshakes
<1>4. CASE OnReceiveLoop
  <2>1. CASE ReceiveLoopStopped
    BY <2>1, FirmKept DEF ReceiveLoopStopped, boundVars
  <2>2. ASSUME NEW l \in Life, ReceivedWithoutStream(l) PROVE Firm'
    BY <1>2, <2>2 DEF ReceivedWithoutStream
  <2>3. ASSUME NEW l \in Life, ReceiveLoopReadsOn(l) \/ ReceiveLoopDisconnected(l)
                                  \/ ReceiveLoopStopping(l)
        PROVE  Firm'
    <3>1. /\ ops[<<"loop", l>>] > 0
          /\ \/ ops' = Completed(ops, "loop", l)
             \/ ops' = Started(Completed(ops, "loop", l), "loop")
          /\ io' = io \/ io' = "stopLoop"
          /\ UNCHANGED <<onHandshake, stream, link>>
      BY <2>3 DEF ReceiveLoopReadsOn, ReceiveLoopDisconnected, ReceiveLoopStopping, Brings,
         connVars, boundVars
    <3>2. "loop" \in Op /\ l \in {"live", "dead"}
      BY DEF Op, Life
    <3>3. ops[<<"loop", "dead">>] = 0
      BY <3>2 DEF Firm
    <3>4. l = "live"
      BY <3>1, <3>2, <3>3
    <3> QED
      BY <3>1, <3>4, FirmReads
  <2>4. \A l \in Life : ~ReceiveLoopFails(l)
    BY NoReadFails DEF ReceiveLoopFails
  <2> QED
    BY <1>4, <2>1, <2>2, <2>3, <2>4 DEF OnReceiveLoop
<1>5. ~OnClose /\ ~ClosedWithoutStream /\ ~DrainOnClose
  <2>1. \A l \in Life : ~(ops[<<"close", l>>] > 0) /\ ~(ops[<<"drain", l>>] > 0)
    BY DEF Firm, Op, Life
  <2> QED
    BY <2>1 DEF OnClose, ClosedWithoutStream, DrainOnClose, Life
<1>6. ~AsyncReconnect(FlagsInUse)
  BY DEF Firm, AsyncReconnect, ReconnectDisconnects, ReconnectCloses, ReconnectConnects
<1> QED
  BY <1>3, <1>4, <1>5, <1>6 DEF SessionHandlers

\* What the streamer does on the io thread keeps it.
LEMMA SteadyIo ==
    ASSUME Types, First, Steady, IoStep
    PROVE  Steady'
<1> USE DEF streamerVars, daemonVars, restoreVars, callerVars, serverVars, IoAt
<1>0. ASSUME UNCHANGED <<faults, websocket>>, Firm => Firm' PROVE Steady'
  BY <1>0 DEF Steady
<1>1. ASSUME NEW why, Crash(why), UNCHANGED streamerVars PROVE Steady'
  BY <1>0, <1>1, FirmKept DEF Crash, sessionVars
<1>2. CASE SessionHandlers /\ UNCHANGED streamerVars
  BY <1>2, SteadyHandlers
<1>3. CASE Handshake
  <2>0. UNCHANGED <<faults, websocket>>
    BY <1>3 DEF Handshake, WebsocketIsUp
  <2> SUFFICES ASSUME Firm PROVE Firm'
    BY <1>0, <2>0
  <2>1. /\ ops[<<"websocket", "live">>] > 0
        /\ ops' = Completed(ops, "websocket", "live")
        /\ stream' = "open" /\ link' /\ io' = "handshaked"
        /\ UNCHANGED onHandshake
    <3>1. ~WebsocketIsUp("dead")
      BY DEF WebsocketIsUp, Firm, Op
    <3> QED
      BY <1>3, <3>1 DEF Handshake, WebsocketIsUp, boundVars
  <2>2. /\ ops \in [Op \X Life -> Nat] /\ Life = {"live", "dead"}
        /\ "websocket" \in Handshakes /\ Handshakes \subseteq Op
    BY DEF Types, SessionTypes, SessionTypeOK, Handshakes, Op, Life
  <2>3. Quiet(ops) /\ Lone(ops)
    BY <2>1, <2>2 DEF Firm, First, WhileConnecting, Pending
  <2>4. ~Pending(ops')
    BY <2>1, <2>2, <2>3, LastCompleted
  <2>5. ASSUME NEW g \in Op, NEW m \in Life, m = "dead" \/ g # "websocket"
        PROVE  ops'[<<g, m>>] = ops[<<g, m>>]
    BY <2>1, <2>2, <2>5 DEF Completed
  <2>6. \A g \in Op : ops'[<<g, "dead">>] = 0
    BY <2>2, <2>5 DEF Firm
  <2>7. ops'[<<"close", "live">>] = 0 /\ ops'[<<"drain", "live">>] = 0
    BY <2>2, <2>5 DEF Firm, Op
  <2> QED
    BY <2>1, <2>4, <2>6, <2>7 DEF Firm
<1>4. CASE OnWebsocketUp \/ RestoreSubscription \/ LoginAccepted
  <2>1. UNCHANGED <<sessionVars, websocket>> /\ io' \in {"login", "restore", "idle", "loopFlag"}
    BY <1>4 DEF OnWebsocketUp, RestoreSubscription, LoginAccepted
  <2> QED
    BY <1>0, <2>1, FirmKept DEF sessionVars
<1>5. CASE SendLogin
  <2>1. CASE AsyncSend(Login) /\ io' = "loginRead" /\ UNCHANGED streamerVars
    BY <1>0, <2>1, FirmKept DEF AsyncSend, boundVars
  <2> QED
    BY <1>1, <1>5, <2>1 DEF SendLogin, NoWebsocket
<1>6. CASE ReadLogin
  <2>1. CASE /\ AsyncReceive /\ UNCHANGED websocket
             /\ io' = IF restoring THEN "restore" ELSE "idle"
    <3>1. /\ ops' = Started(ops, "login") /\ io' \in {"restore", "idle"}
          /\ UNCHANGED <<onHandshake, stream, link, faults>>
      BY <2>1 DEF AsyncReceive, connVars, boundVars
    <3> QED
      BY <1>0, <2>1, <3>1, FirmReads
  <2> QED
    BY <1>1, <1>6, <2>1 DEF ReadLogin, NoWebsocket
<1>7. CASE LoginAnswered
  <2>1. UNCHANGED websocket
    BY <1>7 DEF LoginAnswered
  <2> SUFFICES ASSUME faults' = 0, websocket = "live" PROVE Firm'
    BY <2>1 DEF Steady
  <2>2. faults = 0
    BY <1>7, MaxFaultsAssumption DEF LoginAnswered, OnReadError, OnReadData, Types,
       SessionTypes, SessionTypeOK
  <2>3. Firm
    BY <2>2 DEF Steady
  <2>4. ~OnReadError
    BY <2>3, NoReadFails DEF OnReadError
  <2> PICK answer \in {"accepted", "refused"} : OnReadData(answer)
    BY <1>7, <2>4 DEF LoginAnswered
  <2> PICK l \in Life : /\ ops[<<"login", l>>] > 0
                        /\ ops' = Completed(ops, "login", l)
                        /\ io' = answer
                        /\ UNCHANGED <<onHandshake, stream, link>>
    BY DEF OnReadData, Brings, boundVars
  <2>5. l = "live"
    BY <2>3 DEF Firm, Op, Life
  <2> QED
    BY <2>3, <2>5, FirmReads
<1>8. CASE LoginAnswerEmpty
  BY <1>1, <1>8 DEF LoginAnswerEmpty
<1>9. CASE LoginStartsLoop
  <2>1. CASE /\ SetReceiverFlag \/ MarkLoop \/ LaunchLoop \/ UNCHANGED sessionVars
             /\ io' \in {"loopTest", "loopMark", "loopRead", "recheck"}
             /\ UNCHANGED streamerVars
    <3>1. /\ ops' = ops \/ ops' = Started(ops, "loop")
          /\ UNCHANGED <<onHandshake, stream, link, faults>>
      BY <2>1 DEF SetReceiverFlag, MarkLoop, LaunchLoop, boundVars, sessionVars
    <3> QED
      BY <1>0, <2>1, <3>1, FirmReads, FirmKept
  <2> QED
    BY <1>1, <1>9, <2>1 DEF LoginStartsLoop, NoWebsocket
<1>10. CASE RecheckLogin
  <2>1. /\ UNCHANGED <<connVars, ops, websocket>> /\ io' \in {"idle", "login"}
    BY <1>10 DEF RecheckLogin
  <2> QED
    BY <1>0, <2>1, FirmKept DEF connVars, boundVars
<1> QED
  BY <1>2, <1>3, <1>4, <1>5, <1>6, <1>7, <1>8, <1>9, <1>10 DEF IoStep

\* The daemons and the network keep it.
LEMMA SteadyDaemons ==
    ASSUME Types, Steady, DaemonStep \/ SenderStep \/ (LoseLink /\ UNCHANGED streamerVars)
    PROVE  Steady'
<1> USE DEF streamerVars, daemonVars, restoreVars, callerVars, serverVars
<1>1. CASE DaemonStep \/ SenderStep
  <2>1. CASE DaemonStep
    <3>1. UNCHANGED <<onHandshake, ops, stream, link, io, faults, websocket>>
      BY <2>1 DEF DaemonStep, DaemonTakes, DaemonHandsOver, NoWebsocket, Crash, AsyncSend,
         DaemonRests, sessionVars, boundVars
    <3> QED
      BY <3>1, FirmKept DEF Steady
  <2>2. CASE SenderStep
    <3>1. UNCHANGED <<onHandshake, ops, stream, link, io, faults, websocket>>
      BY <2>2 DEF SenderStep, SenderTakes, SenderRests, SenderExits, SenderCrashes, Crash,
         SenderWrites, sessionVars, boundVars
    <3> QED
      BY <3>1, FirmKept DEF Steady
  <2> QED
    BY <1>1, <2>1, <2>2
<1>2. CASE LoseLink
  BY <1>2, MaxFaultsAssumption DEF LoseLink, Steady, Types, SessionTypes, SessionTypeOK
<1> QED
  BY <1>1, <1>2

\* And so do callers; who closes the stream has taken the websocket away before.
LEMMA SteadyCallers ==
    ASSUME Types, Untouched, OneCloser, Steady, NEW c \in Callers, CallerStep(c)
    PROVE  Steady'
<1> USE DEF streamerVars, daemonVars, restoreVars, callerVars, serverVars, CallerAt
<1>0. ASSUME UNCHANGED faults, websocket' = "live" => websocket = "live", Firm => Firm'
      PROVE  Steady'
  BY <1>0 DEF Steady
<1>1. ASSUME NEW why, Crash(why), UNCHANGED streamerVars PROVE Steady'
  BY <1>0, <1>1, FirmKept DEF Crash, sessionVars
<1>2. CASE Start(c)
  <2>1. /\ ops' = Started(Cancelled(ops), "resolve") /\ stream' = "fresh"
        /\ onHandshake' = "connected" /\ io' = io
        /\ Untouched /\ websocket = "none"
    BY <1>2 DEF Start, AsyncConnect
  <2>2. /\ ops \in [Op \X Life -> Nat] /\ Life = {"live", "dead"}
        /\ "resolve" \in Handshakes /\ Handshakes \subseteq Op
    BY DEF Types, SessionTypes, SessionTypeOK, Handshakes, Op, Life
  <2>3. io = "idle" /\ \A x \in Op \X Life : ops[x] = 0
    BY <2>1 DEF Untouched, NothingInFlight
  <2>4. Cancelled(ops) \in [Op \X Life -> Nat]
    BY <2>2, OpsTyped
  <2>5. ASSUME NEW k \in Op, NEW l \in Life PROVE Cancelled(ops)[<<k, l>>] = 0
    <3>1. ops[<<k, "live">>] = 0 /\ ops[<<k, "dead">>] = 0
      BY <2>2, <2>3
    <3>2. CASE k = "resolve"
      <4>1. Cancelled(ops)[<<k, l>>] = ops[<<k, l>>]
        BY <2>2, <3>2 DEF Cancelled
      <4> QED
        BY <2>2, <3>1, <4>1
    <3>3. CASE k # "resolve"
      <4>1. Cancelled(ops)[<<k, "live">>] = 0 /\ Cancelled(ops)[<<k, "dead">>] = 0
        BY <2>2, <3>1, <3>3 DEF Cancelled
      <4> QED
        BY <2>2, <4>1
    <3> QED
      BY <3>2, <3>3
  <2> DEFINE d == Cancelled(ops)
  <2> HIDE DEF d
  <2>6. d \in [Op \X Life -> Nat] /\ ops' = Started(d, "resolve")
    BY <2>1, <2>4 DEF d
  <2>7. \A k \in Op, l \in Life : d[<<k, l>>] = 0
    BY <2>5 DEF d
  <2>8. ASSUME NEW k \in Op, NEW l \in Life
        PROVE  ops'[<<k, l>>] = IF k = "resolve" /\ l = "live" THEN 1 ELSE 0
    <3>1. d[<<k, l>>] = 0
      BY <2>7
    <3>2. ops'[<<k, l>>] = IF k = "resolve" /\ l = "live" THEN d[<<k, l>>] + 1 ELSE d[<<k, l>>]
      BY <2>2, <2>6 DEF Started
    <3> QED
      BY <3>1, <3>2
  <2>9. Pending(ops')
    <3>1. ops'[<<"resolve", "live">>] = 1
      BY <2>2, <2>8
    <3> QED
      BY <2>2, <3>1 DEF Pending
  <2>10. \A op \in Op : ops'[<<op, "dead">>] = 0
    BY <2>2, <2>8
  <2>11. ops'[<<"close", "live">>] = 0 /\ ops'[<<"drain", "live">>] = 0
    BY <2>2, <2>8 DEF Op
  <2> QED
    BY <2>1, <2>3, <2>9, <2>10, <2>11 DEF Steady, Firm
<1>3. CASE StartAgain(c) \/ RecordRaces(c)
  BY <1>1, <1>3 DEF StartAgain, RecordRaces
<1>4. CASE Record(c) \/ AsyncRequest(c) \/ Stop(c)
  BY <1>0, <1>4, FirmKept DEF Record, AsyncRequest, Stop, sessionVars
<1>5. CASE Pause(c)
  <2>1. CASE PauseState(c)
    BY <1>0, <2>1, FirmKept DEF PauseState, sessionVars
  <2>2. CASE StopReceiverLoop /\ UNCHANGED <<io, websocket>>
    BY <1>0, <2>2, FirmKept DEF StopReceiverLoop, boundVars
  <2> QED
    BY <1>1, <1>5, <2>1, <2>2 DEF Pause, PauseLoop, NoWebsocket
<1>6. CASE Resume(c)
  <2>1. CASE ResumeBegins(c) \/ ResumeState(c)
    BY <1>0, <2>1, FirmKept DEF ResumeBegins, ResumeState, sessionVars
  <2>2. CASE ResumeLoop(c)
    <3>1. /\ ops' = ops \/ ops' = Started(ops, "loop")
          /\ UNCHANGED <<onHandshake, stream, link, faults, io, websocket>>
      BY <2>2 DEF ResumeLoop, SetReceiverFlag, MarkLoop, LaunchLoop, boundVars, sessionVars
    <3> QED
      BY <1>0, <3>1, FirmReads, FirmKept
  <2>3. CASE ResumeCrashes(c)
    BY <1>1, <2>3 DEF ResumeCrashes, NoWebsocket
  <2> QED
    BY <1>6, <2>1, <2>2, <2>3 DEF Resume
<1>7. CASE ResetWebsocket(c)
  BY <1>7 DEF ResetWebsocket, Steady
<1>8. CASE ShutdownCloses(c)
  BY <1>8 DEF ShutdownCloses, OneCloser, Closers, Steady
<1>9. CASE JoinIo(c)
  BY <1>9 DEF JoinIo, Steady
<1> QED
  BY <1>2, <1>3, <1>4, <1>5, <1>6, <1>7, <1>8, <1>9 DEF CallerStep

\* In every state.
LEMMA SteadyAlways == Spec => []Steady
<1>1. Init => Steady
  BY DEF Init, Steady
<1>2. Types /\ Untouched /\ First /\ StopInv /\ Steady /\ [Next]_vars => Steady'
  <2> SUFFICES ASSUME Types, Untouched, First, StopInv, Steady, [Next]_vars PROVE Steady'
    OBVIOUS
  <2>1. CASE UNCHANGED vars
    BY <2>1, FirmKept DEF vars, sessionVars, streamerVars, Steady
  <2>2. OneCloser
    BY DEF StopInv
  <2> QED
    BY <2>1, <2>2, SteadyIo, SteadyDaemons, SteadyCallers DEF Next
<1> QED
  BY <1>1, <1>2, TypesAlways, FirstAlways, StopInvariant, PTL DEF Spec

-----------------------------------------------------------------------------
(***************************************************************************)
(* What was submitted stays on its way on such a connection.               *)
(***************************************************************************)
Kept ==
    faults = 0 /\ websocket \in {"none", "live"} => Submitted \subseteq Pipeline \cup served

\* Steps that move subscriptions on or submit them to the request queue keep it.
LEMMA KeptOn ==
    ASSUME Kept,
           faults' = 0 => faults = 0,
           websocket' \in {"none", "live"} => websocket \in {"none", "live"},
           Submitted' \subseteq Submitted \cup Elements(reqQueue'),
           Submitted \cap (Pipeline \cup served) \subseteq Pipeline' \cup served'
    PROVE  Kept'
<1>1. Elements(reqQueue') \subseteq Pipeline'
  BY DEF Pipeline
<1> QED
  BY <1>1 DEF Kept

\* In particular those that leave them alone.
LEMMA KeptUntouched ==
    ASSUME Kept,
           faults' = 0 => faults = 0,
           websocket' \in {"none", "live"} => websocket \in {"none", "live"},
           UNCHANGED <<recorded, asking, reqQueue, held, msgQueue, outgoing, served>>
    PROVE  Kept'
<1>1. UNCHANGED <<Submitted, Pipeline, served>>
  BY DEF Submitted, Pipeline, Elements
<1> QED
  BY <1>1, KeptOn

\* What the streamer does on the io thread; the first handshake finds nothing that the
\* server could have taken before.
LEMMA KeptIo ==
    ASSUME Types, First, Steady, Kept, IoStep
    PROVE  Kept'
<1> USE DEF streamerVars, daemonVars, restoreVars, callerVars, serverVars, IoAt
<1>0. faults \in Nat /\ reqQueue \in Seq(Requests) /\ msgQueue \in Seq(Messages)
      /\ restore \subseteq Requests /\ Login \in Messages
  BY MaxFaultsAssumption DEF Types, SessionTypes, SessionTypeOK, StreamerTypes, Messages
<1>1. ASSUME NEW why, Crash(why), UNCHANGED streamerVars PROVE Kept'
  BY <1>1, KeptUntouched DEF Crash, sessionVars
<1>2. CASE SessionHandlers /\ UNCHANGED streamerVars
  BY <1>2, HandlersFaultless, HandlersKeep, KeptUntouched
<1>3. CASE Handshake
  <2>0. UNCHANGED <<faults, websocket, recorded, asking, reqQueue, held, msgQueue, outgoing>>
    BY <1>3 DEF Handshake, WebsocketIsUp, senderVars
  <2>1. /\ \E l \in Life : ops[<<"websocket", l>>] > 0
        /\ served' = {} \/ UNCHANGED served
    BY <1>3 DEF Handshake, WebsocketIsUp, Life
  <2>2. faults = 0 /\ websocket = "live" => served = {}
    BY <2>1 DEF Steady, Firm, First, WhileConnecting, BeforeLogin, Pending, Handshakes
  <2>3. websocket = "none" => served = {}
    BY DEF First, NothingTaken
  <2> QED
    BY <2>0, <2>1, <2>2, <2>3, KeptUntouched DEF Kept
<1>4. CASE OnWebsocketUp \/ LoginAccepted \/ RecheckLogin
  <2>1. UNCHANGED <<faults, websocket, recorded, asking, reqQueue, held, msgQueue,
                    outgoing, served>>
    BY <1>4 DEF OnWebsocketUp, LoginAccepted, RecheckLogin, sessionVars, connVars, senderVars
  <2> QED
    BY <2>1, KeptUntouched
<1>5. CASE SendLogin
  <2>1. CASE AsyncSend(Login) /\ UNCHANGED streamerVars
    <3>1. Elements(msgQueue') = Elements(msgQueue) \cup {Login}
      BY <1>0, <2>1, ElementsAppend DEF AsyncSend
    <3>2. /\ UNCHANGED <<Submitted, Elements(held), Elements(reqQueue), Elements(outgoing)>>
          /\ UNCHANGED <<faults, websocket, served>>
      BY <2>1 DEF AsyncSend, Submitted, Elements
    <3>3. Pipeline \subseteq Pipeline'
      BY <3>1, <3>2 DEF Pipeline
    <3> QED
      BY <3>2, <3>3, KeptOn
  <2> QED
    BY <1>1, <1>5, <2>1 DEF SendLogin, NoWebsocket
<1>6. CASE ReadLogin
  <2>1. CASE AsyncReceive /\ UNCHANGED <<websocket, daemonVars, recorded, callerVars, serverVars>>
    BY <2>1, KeptUntouched DEF AsyncReceive, connVars, senderVars
  <2> QED
    BY <1>1, <1>6, <2>1 DEF ReadLogin, NoWebsocket
<1>7. CASE RestoreSubscription
  <2>1. UNCHANGED <<sessionVars, websocket, held, recorded, callerVars, served>>
    BY <1>7 DEF RestoreSubscription
  <2>2. UNCHANGED <<Submitted, Elements(held), Elements(msgQueue), Elements(outgoing), faults>>
    BY <2>1 DEF sessionVars, Submitted, Elements
  <2>3. Elements(reqQueue) \subseteq Elements(reqQueue')
    <3>1. CASE restore = {}
      BY <1>7, <3>1 DEF RestoreSubscription, Elements
    <3>2. CASE restore # {}
      <4> DEFINE r == CHOOSE x \in restore : \A y \in restore : x <= y
      <4>1. r \in Requests
        BY <1>0, <3>2, FirstRequest
      <4>2. reqQueue' = Append(reqQueue, r)
        BY <1>7, <3>2 DEF RestoreSubscription
      <4> HIDE DEF r
      <4> QED
        BY <1>0, <4>1, <4>2, ElementsAppend
    <3> QED
      BY <3>1, <3>2
  <2>4. Pipeline \subseteq Pipeline'
    BY <2>2, <2>3 DEF Pipeline
  <2> QED
    BY <2>1, <2>2, <2>4, KeptOn
<1>8. CASE LoginAnswered
  <2>1. /\ UNCHANGED <<websocket, recorded, asking, reqQueue, held, msgQueue, outgoing, served>>
        /\ faults' \in {faults, faults + 1}
    BY <1>8 DEF LoginAnswered, OnReadError, OnReadData, senderVars
  <2> QED
    BY <1>0, <2>1, KeptUntouched
<1>9. CASE LoginAnswerEmpty
  BY <1>1, <1>9 DEF LoginAnswerEmpty
<1>10. CASE LoginStartsLoop
  <2>1. CASE /\ SetReceiverFlag \/ MarkLoop \/ LaunchLoop \/ UNCHANGED sessionVars
             /\ UNCHANGED streamerVars
    BY <2>1, KeptUntouched DEF SetReceiverFlag, MarkLoop, LaunchLoop, senderVars, sessionVars
  <2> QED
    BY <1>1, <1>10, <2>1 DEF LoginStartsLoop, NoWebsocket
<1> QED
  BY <1>2, <1>3, <1>4, <1>5, <1>6, <1>7, <1>8, <1>9, <1>10 DEF IoStep

\* What the daemons and the network do: nothing is written before the login but the login.
LEMMA KeptDaemons ==
    ASSUME Types, Untouched, First, Steady, Kept,
           DaemonStep \/ SenderStep \/ (LoseLink /\ UNCHANGED streamerVars)
    PROVE  Kept'
<1> USE DEF streamerVars, daemonVars, restoreVars, callerVars, serverVars
<1>1. ASSUME NEW why, Crash(why), UNCHANGED streamerVars PROVE Kept'
  BY <1>1, KeptUntouched DEF Crash, sessionVars
<1>2. CASE DaemonTakes
  BY <1>2, TakenByDaemon, KeptOn DEF sessionVars
<1>3. CASE DaemonHandsOver
  <2>1. CASE NoWebsocket
    BY <1>1, <2>1 DEF NoWebsocket
  <2>2. CASE ~NoWebsocket
    BY <1>3, <2>2, HandedOver, KeptOn
  <2> QED
    BY <2>1, <2>2
<1>4. CASE DaemonRests \/ ((SenderRests \/ SenderExits(SessionReleased)) /\ UNCHANGED streamerVars)
  BY <1>4, KeptUntouched DEF DaemonRests, SenderRests, SenderExits, sessionVars
<1>5. CASE SenderTakes /\ UNCHANGED streamerVars
  BY <1>5, TakenBySender, KeptOn
<1>6. CASE SenderCrashes /\ UNCHANGED streamerVars
  BY <1>1, <1>6 DEF SenderCrashes
<1>7. CASE /\ SenderWrites
           /\ ServerTakes(Head(outgoing))
           /\ UNCHANGED <<state, websocket, daemonVars, restoreVars, callerVars>>
  <2> SUFFICES ASSUME faults = 0, websocket \in {"none", "live"} PROVE Kept'
    BY <1>7, Written DEF Kept
  <2>1. sender = "write" /\ stream = "open"
    BY <1>7 DEF SenderWrites, SenderAt
  <2>2. websocket = "live"
    BY <2>1 DEF Untouched
  <2>3. link /\ onHandshake = "connected"
    BY <2>1, <2>2 DEF Steady, Firm
  <2>4. ~loggedIn => Elements(outgoing) \subseteq {Login}
    BY <2>3 DEF First, BeforeLogin, InTransit
  <2> QED
    BY <1>7, <2>3, <2>4, Written, KeptOn
<1>8. CASE LoseLink /\ UNCHANGED streamerVars
  BY <1>8, MaxFaultsAssumption, KeptUntouched DEF LoseLink, senderVars, Types, SessionTypes,
     SessionTypeOK
<1> QED
  BY <1>2, <1>3, <1>4, <1>5, <1>6, <1>7, <1>8 DEF DaemonStep, SenderStep

\* What callers do.
LEMMA KeptCallers ==
    ASSUME Types, Kept, NEW c \in Callers, CallerStep(c)
    PROVE  Kept'
<1> USE DEF streamerVars, daemonVars, restoreVars, callerVars, serverVars
<1>1. CASE Record(c)
  <2>1. UNCHANGED <<Pipeline, served, faults, websocket>>
    BY <1>1 DEF Record, sessionVars, Pipeline, Elements
  <2> QED
    BY <1>1, <2>1, RecordSubmits, KeptOn
<1>2. CASE AsyncRequest(c)
  <2>1. UNCHANGED <<served, faults, websocket>>
    BY <1>2 DEF AsyncRequest, sessionVars
  <2> QED
    BY <1>2, <2>1, AsyncRequestSubmits, KeptOn
<1>3. CASE ~Record(c) /\ ~AsyncRequest(c)
  <2>1. /\ UNCHANGED <<recorded, asking, reqQueue, held, msgQueue, outgoing, served, faults>>
        /\ websocket' \in {"none", "live"} => websocket \in {"none", "live"}
    <3>1. CASE Start(c) \/ StartAgain(c) \/ RecordRaces(c)
      BY <3>1 DEF Start, AsyncConnect, StartAgain, RecordRaces, Crash, sessionVars
    <3>2. CASE Pause(c)
      BY <3>2 DEF Pause, PauseState, PauseLoop, NoWebsocket, StopReceiverLoop, senderVars,
         Crash, sessionVars
    <3>3. CASE Resume(c)
      BY <3>3 DEF Resume, ResumeBegins, ResumeLoop, ResumeCrashes, NoWebsocket, ResumeState,
         SetReceiverFlag, MarkLoop, LaunchLoop, senderVars, Crash, sessionVars
    <3>4. CASE Stop(c) \/ ResetWebsocket(c) \/ ShutdownCloses(c) \/ JoinIo(c)
      BY <3>4 DEF Stop, ResetWebsocket, Disconnect, ShutdownCloses, CloseStream, JoinIo,
         senderVars, sessionVars
    <3> QED
      BY <1>3, <3>1, <3>2, <3>3, <3>4 DEF CallerStep
  <2> QED
    BY <2>1, KeptUntouched
<1> QED
  BY <1>1, <1>2, <1>3

\* In every state.
LEMMA KeptAlways == Spec => []Kept
<1>1. Init => Kept
  BY DEF Init, Submitted, Kept
<1>2. Types /\ Untouched /\ First /\ Steady /\ Kept /\ [Next]_vars => Kept'
  <2> SUFFICES ASSUME Types, Untouched, First, Steady, Kept, [Next]_vars PROVE Kept'
    OBVIOUS
  <2>1. CASE UNCHANGED vars
    BY <2>1, KeptUntouched DEF vars, sessionVars, streamerVars
  <2> QED
    BY <2>1, KeptIo, KeptDaemons, KeptCallers DEF Next
<1> QED
  BY <1>1, <1>2, TypesAlways, FirstAlways, SteadyAlways, PTL DEF Spec

\* As long as no link was lost and no login refused, however often handshakes fail, no
\* request that was submitted is lost, before the login, while it is under way or after it,
\* however often threads pause and resume, until one of them stops the streamer.  (What is
\* written to a link that is lost is lost until the subscriptions are restored.)
THEOREM NothingLostWhileUp == Spec => [](faults = 0 => NothingLost)
<1>1. Kept => (faults = 0 => NothingLost)
  BY DEF Kept, NothingLost
<1> QED
  BY <1>1, KeptAlways, PTL
=============================================================================
