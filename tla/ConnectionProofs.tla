--------------------------- MODULE ConnectionProofs ---------------------------
(***************************************************************************)
(* What Streamer.tla promises of the connection and the login, for any     *)
(* number of threads, subscriptions, logins and faults: how the first      *)
(* connection is made, that a streamer is active only where it is logged   *)
(* in, that its reads do not meet on the stream, and that its loop hands   *)
(* on whole messages.                                                      *)
(***************************************************************************)
EXTENDS StreamerTypeProofs, StreamerProofs

Handshakes == {"resolve", "connect", "ssl", "websocket"}

\* A handshake is under way; nothing but handshakes is; and one at most.
Pending(o) == \E h \in Handshakes, l \in Life : o[<<h, l>>] > 0
Quiet(o)   == \A op \in Op \ Handshakes, l \in Life : o[<<op, l>>] = 0
Lone(o)    ==
    \A h, k \in Handshakes, l, m \in Life :
        o[<<h, l>>] > 0 /\ o[<<k, m>>] > 0 => h = k /\ l = m /\ o[<<h, l>>] = 1

-----------------------------------------------------------------------------
(***************************************************************************)
(* Lemmas about operations in flight                                       *)
(***************************************************************************)
\* How many of each kind are in flight after one was started, ...
LEMMA StartedAt ==
    ASSUME NEW o \in [Op \X Life -> Nat], NEW op \in Op, NEW k \in Op, NEW l \in Life
    PROVE  Started(o, op)[<<k, l>>] =
               IF k = op /\ l = "live" THEN o[<<k, l>>] + 1 ELSE o[<<k, l>>]
  BY DEF Started

\* ... one was completed, ...
LEMMA CompletedAt ==
    ASSUME NEW o \in [Op \X Life -> Nat], NEW op \in Op, NEW m \in Life,
           NEW k \in Op, NEW l \in Life
    PROVE  Completed(o, op, m)[<<k, l>>] =
               IF k = op /\ l = m THEN o[<<k, l>>] - 1 ELSE o[<<k, l>>]
  BY DEF Completed

\* ... or all were cancelled.
LEMMA CancelledAt ==
    ASSUME NEW o \in [Op \X Life -> Nat], NEW k \in Op
    PROVE  /\ k # "resolve" => /\ Cancelled(o)[<<k, "live">>] = 0
                               /\ Cancelled(o)[<<k, "dead">>] =
                                      o[<<k, "live">>] + o[<<k, "dead">>]
           /\ \A l \in Life : k = "resolve" => Cancelled(o)[<<k, l>>] = o[<<k, l>>]
<1>1. \A x \in Op \X Life :
         Cancelled(o)[x] = IF x[1] = "resolve" THEN o[x]
                           ELSE IF x[2] = "live" THEN 0 ELSE o[<<x[1], "live">>] + o[x]
  BY DEF Cancelled
<1>2. <<k, "live">> \in Op \X Life /\ <<k, "dead">> \in Op \X Life
  BY DEF Life
<1>3. k # "resolve" => Cancelled(o)[<<k, "live">>] = 0
  BY <1>1, <1>2
<1>4. k # "resolve" =>
         Cancelled(o)[<<k, "dead">>] = o[<<k, "live">>] + o[<<k, "dead">>]
  BY <1>1, <1>2
<1>5. ASSUME NEW l \in Life, k = "resolve"
      PROVE  Cancelled(o)[<<k, l>>] = o[<<k, l>>]
  BY <1>1, <1>2, <1>5 DEF Life
<1> QED
  BY <1>3, <1>4, <1>5

\* Cancelling neither begins nor ends a handshake.
LEMMA CancelKeeps ==
    ASSUME NEW o \in [Op \X Life -> Nat]
    PROVE  /\ Pending(Cancelled(o)) <=> Pending(o)
           /\ Quiet(o) => Quiet(Cancelled(o))
           /\ Lone(o) => Lone(Cancelled(o))
<1> DEFINE c == Cancelled(o)
<1>1. /\ \A k \in Op \ {"resolve"} :
            c[<<k, "live">>] = 0 /\ c[<<k, "dead">>] = o[<<k, "live">>] + o[<<k, "dead">>]
      /\ \A l \in Life : c[<<"resolve", l>>] = o[<<"resolve", l>>]
  BY CancelledAt DEF Op
<1>2. \A k \in Op, l \in Life : o[<<k, l>>] \in Nat
  OBVIOUS
<1> HIDE DEF c
<1>3. Handshakes \subseteq Op /\ Life = {"live", "dead"} /\ "resolve" \in Handshakes
  BY DEF Handshakes, Op, Life
<1>4. Pending(c) <=> Pending(o)
  <2>1. ASSUME NEW k \in Handshakes
        PROVE  (\E l \in Life : c[<<k, l>>] > 0) <=> (\E l \in Life : o[<<k, l>>] > 0)
    <3>1. CASE k = "resolve"
      BY <1>1, <3>1
    <3>2. CASE k # "resolve"
      <4>1. c[<<k, "live">>] = 0 /\ c[<<k, "dead">>] = o[<<k, "live">>] + o[<<k, "dead">>]
        BY <1>1, <1>3, <3>2
      <4> QED
        BY <1>2, <1>3, <4>1
    <3> QED
      BY <3>1, <3>2
  <2> QED
    BY <2>1 DEF Pending
<1>5. Quiet(o) => Quiet(c)
  <2> SUFFICES ASSUME Quiet(o), NEW k \in Op \ Handshakes, NEW l \in Life
               PROVE  c[<<k, l>>] = 0
    BY DEF Quiet
  <2>1. o[<<k, "live">>] = 0 /\ o[<<k, "dead">>] = 0
    BY <1>3 DEF Quiet
  <2>2. k \in Op \ {"resolve"}
    BY <1>3
  <2> QED
    BY <1>1, <1>3, <2>1, <2>2
<1>6. Lone(o) => Lone(c)
  <2> SUFFICES ASSUME Lone(o), NEW h \in Handshakes, NEW k \in Handshakes,
                      NEW l \in Life, NEW m \in Life, c[<<h, l>>] > 0, c[<<k, m>>] > 0
               PROVE  h = k /\ l = m /\ c[<<h, l>>] = 1
    BY DEF Lone
  <2>1. ASSUME NEW g \in Handshakes, NEW n \in Life, c[<<g, n>>] > 0
        PROVE  \/ g = "resolve" /\ o[<<g, n>>] = c[<<g, n>>]
               \/ /\ g # "resolve" /\ n = "dead"
                  /\ c[<<g, n>>] = o[<<g, "live">>] + o[<<g, "dead">>]
    BY <1>1, <1>3, <2>1
  <2>2. \A g \in Handshakes, n \in Life : o[<<g, n>>] \in Nat
    BY <1>2, <1>3
  <2>3. ASSUME NEW g \in Handshakes, o[<<g, "live">>] + o[<<g, "dead">>] > 0
        PROVE  /\ \E n \in Life : o[<<g, n>>] > 0
               /\ o[<<g, "live">>] + o[<<g, "dead">>] = 1
    <3>1. o[<<g, "live">>] > 0 \/ o[<<g, "dead">>] > 0
      BY <1>3, <2>2, <2>3
    <3>2. ~(o[<<g, "live">>] > 0 /\ o[<<g, "dead">>] > 0)
      BY <1>3 DEF Lone
    <3>3. \A n \in Life : o[<<g, n>>] > 0 => o[<<g, n>>] = 1
      BY DEF Lone
    <3> QED
      BY <1>3, <2>2, <3>1, <3>2, <3>3
  <2>4. (\E n \in Life : o[<<h, n>>] > 0) /\ (\E n \in Life : o[<<k, n>>] > 0)
    BY <2>1, <2>3
  <2>5. h = k
    BY <2>4 DEF Lone
  <2>6. CASE h = "resolve"
    <3>1. o[<<h, l>>] = c[<<h, l>>] /\ o[<<k, m>>] = c[<<k, m>>]
      BY <2>1, <2>5, <2>6
    <3> QED
      BY <3>1 DEF Lone
  <2>7. CASE h # "resolve"
    BY <2>1, <2>3, <2>5, <2>7
  <2> QED
    BY <2>6, <2>7
<1> QED
  BY <1>4, <1>5, <1>6 DEF c

\* When the only handshake step completes, nothing is left of the handshake.
LEMMA LastCompleted ==
    ASSUME NEW o \in [Op \X Life -> Nat], Lone(o),
           NEW h \in Handshakes, NEW l \in Life, o[<<h, l>>] > 0
    PROVE  /\ Completed(o, h, l) \in [Op \X Life -> Nat]
           /\ Quiet(o) => Quiet(Completed(o, h, l))
           /\ ~Pending(Completed(o, h, l))
<1> DEFINE c == Completed(o, h, l)
<1>1. h \in Op /\ Handshakes \subseteq Op
  BY DEF Handshakes, Op
<1>2. ASSUME NEW k \in Op, NEW m \in Life
      PROVE  /\ o[<<k, m>>] \in Nat
             /\ c[<<k, m>>] = IF k = h /\ m = l THEN o[<<k, m>>] - 1 ELSE o[<<k, m>>]
  <2>1. Completed(o, h, l)[<<k, m>>] =
            IF k = h /\ m = l THEN o[<<k, m>>] - 1 ELSE o[<<k, m>>]
    BY <1>1, CompletedAt
  <2>2. o[<<k, m>>] \in Nat
    OBVIOUS
  <2> QED
    BY <2>1, <2>2
<1> HIDE DEF c
<1>3. Quiet(o) => Quiet(c)
  BY <1>1, <1>2 DEF Quiet
<1>4. ASSUME NEW k \in Handshakes, NEW m \in Life PROVE ~(c[<<k, m>>] > 0)
  <2>1. o[<<k, m>>] > 0 => k = h /\ m = l /\ o[<<k, m>>] = 1
    BY DEF Lone
  <2> QED
    BY <1>1, <1>2, <2>1
<1>5. c \in [Op \X Life -> Nat]
  BY <1>1, OpsTyped DEF c
<1> QED
  BY <1>3, <1>4, <1>5 DEF c, Pending

\* When none is left, one can be started.
LEMMA FirstStarted ==
    ASSUME NEW o \in [Op \X Life -> Nat], ~Pending(o), NEW h \in Handshakes
    PROVE  (Quiet(o) => Quiet(Started(o, h))) /\ Lone(Started(o, h))
<1> DEFINE s == Started(o, h)
<1>1. h \in Op /\ Handshakes \subseteq Op
  BY DEF Handshakes, Op
<1>2. ASSUME NEW k \in Op, NEW m \in Life
      PROVE  /\ o[<<k, m>>] \in Nat
             /\ s[<<k, m>>] =
                    IF k = h /\ m = "live" THEN o[<<k, m>>] + 1 ELSE o[<<k, m>>]
  BY <1>1, StartedAt
<1> HIDE DEF s
<1>3. ASSUME NEW k \in Handshakes, NEW m \in Life PROVE o[<<k, m>>] = 0
  <2>1. ~(o[<<k, m>>] > 0) /\ o[<<k, m>>] \in Nat
    BY <1>1, <1>2 DEF Pending
  <2> QED
    BY <2>1
<1>4. Quiet(o) => Quiet(s)
  BY <1>1, <1>2 DEF Quiet
<1>5. Lone(s)
  BY <1>1, <1>2, <1>3 DEF Lone
<1> QED
  BY <1>4, <1>5 DEF s

\* Other operations are no handshakes.
LEMMA OtherOps ==
    ASSUME NEW o \in [Op \X Life -> Nat], NEW op \in Op \ Handshakes
    PROVE  /\ Pending(Started(o, op)) <=> Pending(o)
           /\ \A l \in Life : Pending(Completed(o, op, l)) <=> Pending(o)
<1>1. Handshakes \subseteq Op
  BY DEF Handshakes, Op
<1>2. ASSUME NEW k \in Handshakes, NEW m \in Life
      PROVE  /\ Started(o, op)[<<k, m>>] = o[<<k, m>>]
             /\ \A l \in Life : Completed(o, op, l)[<<k, m>>] = o[<<k, m>>]
  <2>1. k \in Op /\ op \in Op /\ k # op
    BY <1>1
  <2>2. Started(o, op)[<<k, m>>] = o[<<k, m>>]
    BY <2>1, StartedAt
  <2>3. ASSUME NEW l \in Life PROVE Completed(o, op, l)[<<k, m>>] = o[<<k, m>>]
    BY <2>1 DEF Completed
  <2> QED
    BY <2>2, <2>3
<1> QED
  BY <1>2 DEF Pending

-----------------------------------------------------------------------------
(***************************************************************************)
(* The first connection.  Until its login succeeds nothing leaves the      *)
(* request queue, and callers cannot pause; while it is being made nothing *)
(* else goes on.                                                           *)
(***************************************************************************)
InTransit == Elements(held) \cup Elements(msgQueue) \cup Elements(outgoing)

BeforeLogin ==
    onHandshake = "connected" /\ ~loggedIn =>
        /\ state = "Inactive" /\ served = {}
        /\ \A c \in Callers : at[c] \in {"idle", "queue", "reset"} \cup Closers
        /\ InTransit \subseteq {Login}

WhileConnecting ==
    onHandshake = "connected" /\ Pending(ops) =>
        /\ ~loggedIn /\ io = "idle" /\ stream \in {"fresh", "null"}
        /\ Quiet(ops) /\ Lone(ops)

\* Where the io thread is in a handler of the session.
SessionPlaces == {"idle", "stopLoop", "stopReconnect", "reconnect", "closeStream", "join"}

\* What the handlers of the session leave alone.
LEMMA HandlersKeep ==
    ASSUME Types, SessionHandlers
    PROVE  /\ UNCHANGED <<msgQueue, outgoing, link>>
           /\ \/ onHandshake' = onHandshake
              \/ onHandshake' = "reconnected" /\ io = "join"
           /\ io \in SessionPlaces /\ io' \in SessionPlaces
<1> USE DEF flagVars, loopVars, senderVars, boundVars, connVars, IoAt, SessionPlaces
<1>1. CASE OnResolve \/ OnConnect \/ OnSSLHandshake \/ WebsocketIsRefused
  BY <1>1 DEF OnResolve, OnConnect, OnSSLHandshake, WebsocketIsRefused, HandshakeStep,
              Advance, Retry, AdvanceWithoutStream, Crash, sessionVars
<1>2. CASE OnReceiveLoop
  <2>1. CASE ReceiveLoopStopped
    <3>1. UNCHANGED <<msgQueue, outgoing, link, onHandshake>>
      BY <2>1 DEF ReceiveLoopStopped
    <3>2. io \in {"stopLoop", "stopReconnect"} /\ io' \in {"stopReconnect", "idle"}
      BY <2>1 DEF ReceiveLoopStopped
    <3> QED
      BY <3>1, <3>2
  <2>2. ASSUME NEW l \in Life, ReceiveLoopFails(l) \/ ReceiveLoopReadsOn(l)
                                  \/ ReceiveLoopDisconnected(l)
        PROVE  /\ UNCHANGED <<msgQueue, outgoing, link, onHandshake>>
               /\ io \in SessionPlaces /\ io' \in SessionPlaces
    BY <2>2 DEF ReceiveLoopFails, ReceiveLoopReadsOn, ReceiveLoopDisconnected
  <2>3. ASSUME NEW l \in Life, ReceiveLoopStopping(l) \/ ReceivedWithoutStream(l)
        PROVE  /\ UNCHANGED <<msgQueue, outgoing, link, onHandshake>>
               /\ io \in SessionPlaces /\ io' \in SessionPlaces
    BY <2>3 DEF ReceiveLoopStopping, ReceivedWithoutStream, Crash, sessionVars
  <2> QED
    BY <1>2, <2>1, <2>2, <2>3 DEF OnReceiveLoop
<1>3. CASE OnClose \/ ClosedWithoutStream \/ DrainOnClose
  BY <1>3 DEF OnClose, ClosedWithoutStream, DrainOnClose, Closed, Crash, sessionVars
<1>4. CASE AsyncReconnect(FlagsInUse)
  BY <1>4 DEF AsyncReconnect, ReconnectDisconnects, ReconnectCloses, ReconnectConnects,
              Disconnect, CloseStream, AsyncConnect
<1> QED
  BY <1>1, <1>2, <1>3, <1>4 DEF SessionHandlers

\* They make the first connection one step after the other.
LEMMA HandlersConnect ==
    ASSUME Types, WhileConnecting, SessionHandlers, UNCHANGED streamerVars
    PROVE  WhileConnecting'
<1> SUFFICES ASSUME onHandshake' = "connected", Pending(ops'), onHandshake = "connected"
             PROVE  WhileConnecting'
  BY HandlersKeep DEF WhileConnecting
<1> USE DEF IoAt
<1>0. ops \in [Op \X Life -> Nat] /\ Handshakes \subseteq Op /\ "live" \in Life
  BY DEF Types, SessionTypes, SessionTypeOK, Handshakes, Op, Life
<1>1. loggedIn' = loggedIn
  BY DEF streamerVars
<1>2. ASSUME NEW h \in Handshakes, Retry(h) PROVE WhileConnecting'
  <2> PICK l \in Life :
        /\ ops[<<h, l>>] > 0
        /\ stream' = "fresh"
        /\ ops' = Started(Cancelled(Completed(ops, h, l)), "resolve")
        /\ io' = io
    BY <1>2 DEF Retry
  <2> DEFINE c == Completed(ops, h, l)
  <2>1. ~loggedIn /\ io = "idle" /\ Quiet(ops) /\ Lone(ops)
    BY DEF WhileConnecting, Pending
  <2>2. c \in [Op \X Life -> Nat] /\ Quiet(c) /\ ~Pending(c)
    BY <1>0, <2>1, LastCompleted
  <2> HIDE DEF c
  <2>3. /\ Cancelled(c) \in [Op \X Life -> Nat]
        /\ Quiet(Cancelled(c)) /\ ~Pending(Cancelled(c))
    BY <1>0, <2>2, CancelKeeps, OpsTyped
  <2>4. Quiet(Started(Cancelled(c), "resolve")) /\ Lone(Started(Cancelled(c), "resolve"))
    BY <2>3, FirstStarted DEF Handshakes
  <2> QED
    BY <1>1, <2>1, <2>4 DEF c, WhileConnecting
<1>3. ASSUME NEW h \in Handshakes, NEW k \in Handshakes, NEW reached, Advance(h, reached, k)
      PROVE  WhileConnecting'
  <2> PICK l \in Life :
        /\ ops[<<h, l>>] > 0
        /\ ops' = Started(Completed(ops, h, l), k)
        /\ UNCHANGED <<io, stream>>
    BY <1>3 DEF Advance
  <2> DEFINE c == Completed(ops, h, l)
  <2>1. /\ ops[<<h, l>>] > 0
        /\ ops' = Started(c, k)
        /\ UNCHANGED <<io, stream>>
    OBVIOUS
  <2>2. ~loggedIn /\ io = "idle" /\ stream \in {"fresh", "null"} /\ Quiet(ops) /\ Lone(ops)
    BY <1>0, <2>1 DEF WhileConnecting, Pending
  <2>3. c \in [Op \X Life -> Nat] /\ Quiet(c) /\ ~Pending(c)
    BY <1>0, <2>1, <2>2, LastCompleted
  <2> HIDE DEF c
  <2>4. Quiet(Started(c, k)) /\ Lone(Started(c, k))
    BY <2>3, FirstStarted
  <2> QED
    BY <1>1, <2>1, <2>2, <2>4 DEF WhileConnecting
<1>5. ASSUME Crash("null_stream") PROVE WhileConnecting'
  BY <1>1, <1>5 DEF Crash, sessionVars, WhileConnecting, Pending, Quiet, Lone
<1>4. CASE OnResolve \/ OnConnect \/ OnSSLHandshake \/ WebsocketIsRefused
  <2>1. ASSUME NEW h \in Handshakes, AdvanceWithoutStream(h) PROVE WhileConnecting'
    BY <1>5, <2>1 DEF AdvanceWithoutStream
  <2> QED
    BY <1>2, <1>3, <1>4, <2>1 DEF OnResolve, OnConnect, OnSSLHandshake, WebsocketIsRefused,
                                  HandshakeStep, Handshakes
<1>6. CASE OnReceiveLoop \/ OnClose \/ DrainOnClose \/ AsyncReconnect(FlagsInUse)
  <2>1. ~Pending(ops)
    <3> SUFFICES ASSUME Pending(ops) PROVE FALSE
      OBVIOUS
    <3>1. io = "idle" /\ \A l \in Life :
             /\ ~(ops[<<"loop", l>>] > 0)
             /\ ~(ops[<<"close", l>>] > 0)
             /\ ~(ops[<<"drain", l>>] > 0)
      BY DEF WhileConnecting, Quiet, Op, Handshakes
    <3>2. ~OnReceiveLoop
      BY <1>0, <3>1 DEF OnReceiveLoop, ReceiveLoopFails, ReadFails, ReceiveLoopReadsOn, Brings,
         ReceiveLoopDisconnected, ReceiveLoopStopping, ReceiveLoopStopped,
         ReceivedWithoutStream
    <3>3. ~OnClose /\ ~DrainOnClose
      BY <3>1 DEF OnClose, DrainOnClose
    <3>4. ~AsyncReconnect(FlagsInUse)
      BY <3>1 DEF AsyncReconnect, ReconnectDisconnects, ReconnectCloses, ReconnectConnects
    <3> QED
      BY <1>6, <3>2, <3>3, <3>4
  <2>2. CASE OnReceiveLoop
    <3>1. \/ ops' = ops
          \/ \E l \in Life :
                /\ ops[<<"loop", l>>] > 0
                /\ \/ ops' = Completed(ops, "loop", l)
                   \/ ops' = Started(Completed(ops, "loop", l), "loop")
      <4>1. CASE ReceiveLoopStopped \/ \E l \in Life : ReceivedWithoutStream(l)
        BY <4>1 DEF ReceiveLoopStopped, ReceivedWithoutStream, Crash, sessionVars
      <4>2. CASE \E l \in Life : ReceiveLoopFails(l) \/ ReceiveLoopReadsOn(l)
                                    \/ ReceiveLoopDisconnected(l) \/ ReceiveLoopStopping(l)
        BY <4>2 DEF ReceiveLoopFails, ReadFails, ReceiveLoopReadsOn, Brings,
           ReceiveLoopDisconnected, ReceiveLoopStopping
      <4> QED
        BY <2>2, <4>1, <4>2 DEF OnReceiveLoop
    <3>2. "loop" \in Op \ Handshakes /\ "loop" \in Op
      BY DEF Op, Handshakes
    <3>3. ASSUME NEW l \in Life, ops[<<"loop", l>>] > 0
          PROVE  /\ ~Pending(Completed(ops, "loop", l))
                 /\ ~Pending(Started(Completed(ops, "loop", l), "loop"))
      <4>1. Completed(ops, "loop", l) \in [Op \X Life -> Nat]
        BY <1>0, <3>2, <3>3, OpsTyped
      <4> QED
        BY <1>0, <2>1, <3>2, <4>1, OtherOps
    <3> QED
      BY <2>1, <3>1, <3>3
  <2>3. CASE OnClose \/ DrainOnClose
    <3> PICK k \in {"close", "drain"}, l \in Life :
          /\ ops[<<k, l>>] > 0
          /\ \/ ops' = Cancelled(Completed(ops, k, l))
             \/ ops' = Started(Completed(ops, k, l), "drain")
             \/ ops' = Completed(ops, k, l)
      BY <2>3 DEF OnClose, DrainOnClose
    <3>1. k \in Op \ Handshakes /\ "drain" \in Op \ Handshakes
      BY DEF Op, Handshakes
    <3>2. Completed(ops, k, l) \in [Op \X Life -> Nat]
      BY <1>0, <3>1, OpsTyped
    <3>3. ~Pending(Completed(ops, k, l))
      BY <1>0, <2>1, <3>1, OtherOps
    <3>4. ~Pending(Cancelled(Completed(ops, k, l)))
      BY <3>2, <3>3, CancelKeeps
    <3>5. ~Pending(Started(Completed(ops, k, l), "drain"))
      BY <3>1, <3>2, <3>3, OtherOps
    <3> QED
      BY <3>3, <3>4, <3>5
  <2>4. CASE AsyncReconnect(FlagsInUse)
    <3>1. CASE ReconnectDisconnects
      BY <2>1, <3>1 DEF ReconnectDisconnects, Disconnect
    <3>2. CASE ReconnectCloses
      <4>1. ops' = Started(ops, "close") \/ ops' = Cancelled(ops)
        BY <3>2 DEF ReconnectCloses, CloseStream
      <4> QED
        BY <1>0, <2>1, <4>1, OtherOps, CancelKeeps DEF Op, Handshakes
    <3>3. CASE ReconnectConnects(FlagsInUse)
      BY <3>3 DEF ReconnectConnects, AsyncConnect
    <3> QED
      BY <2>4, <3>1, <3>2, <3>3 DEF AsyncReconnect
  <2> QED
    BY <1>6, <2>2, <2>3, <2>4
<1> QED
  BY <1>4, <1>5, <1>6 DEF SessionHandlers, ClosedWithoutStream

-----------------------------------------------------------------------------
(***************************************************************************)
(* Lemmas about what is in a queue                                         *)
(***************************************************************************)
LEMMA ElementsEmpty == Elements(<<>>) = {}
  BY DEF Elements

LEMMA ElementsOne == \A x : Elements(<<x>>) = {x}
  BY DEF Elements

\* A queue with one more, ...
LEMMA ElementsAppend ==
    ASSUME NEW S, NEW q \in Seq(S), NEW x \in S
    PROVE  Elements(Append(q, x)) = Elements(q) \cup {x}
<1>1. /\ Len(Append(q, x)) = Len(q) + 1 /\ Len(q) \in Nat
      /\ \A i \in 1..Len(q) : Append(q, x)[i] = q[i]
      /\ Append(q, x)[Len(q) + 1] = x
      /\ DOMAIN q = 1..Len(q) /\ DOMAIN Append(q, x) = 1..Len(Append(q, x))
  BY AppendProperties, LenProperties
<1>2. 1..(Len(q) + 1) = (1..Len(q)) \cup {Len(q) + 1}
  BY <1>1
<1> QED
  BY <1>1, <1>2 DEF Elements

\* ... and without its head.
LEMMA ElementsTail ==
    ASSUME NEW S, NEW q \in Seq(S), q # <<>>
    PROVE  Elements(q) = {Head(q)} \cup Elements(Tail(q))
<1>1. /\ Len(q) \in Nat /\ Len(q) # 0
      /\ DOMAIN q = 1..Len(q)
      /\ Head(q) = q[1]
      /\ Tail(q) \in Seq(S) /\ Len(Tail(q)) = Len(q) - 1
      /\ \A i \in 1..Len(Tail(q)) : Tail(q)[i] = q[i + 1]
  BY HeadTailProperties, LenProperties, EmptySeq
<1>2. DOMAIN Tail(q) = 1..(Len(q) - 1)
  BY <1>1, LenProperties
<1>3. ASSUME NEW i \in 1..Len(q), i # 1
      PROVE  i - 1 \in 1..(Len(q) - 1) /\ Tail(q)[i - 1] = q[i]
  BY <1>1, <1>3
<1>4. \A i \in 1..(Len(q) - 1) : i + 1 \in 1..Len(q) /\ Tail(q)[i] = q[i + 1]
  BY <1>1
<1>5. 1 \in 1..Len(q)
  BY <1>1
<1>6. Elements(Tail(q)) = {Tail(q)[i] : i \in 1..(Len(q) - 1)}
  BY <1>2 DEF Elements
<1>7. Elements(q) = {q[i] : i \in 1..Len(q)}
  BY <1>1 DEF Elements
<1>8. ASSUME NEW x \in Elements(q) PROVE x \in {Head(q)} \cup Elements(Tail(q))
  <2>1. PICK i \in 1..Len(q) : x = q[i]
    BY <1>7
  <2>2. CASE i = 1
    BY <1>1, <2>1, <2>2
  <2>3. CASE i # 1
    BY <1>3, <1>6, <2>1, <2>3
  <2> QED
    BY <2>2, <2>3
<1>9. ASSUME NEW x \in {Head(q)} \cup Elements(Tail(q)) PROVE x \in Elements(q)
  <2>1. CASE x = Head(q)
    BY <1>1, <1>5, <1>7, <2>1
  <2>2. CASE x \in Elements(Tail(q))
    BY <1>4, <1>6, <1>7, <2>2
  <2> QED
    BY <2>1, <2>2
<1> QED
  BY <1>8, <1>9

-----------------------------------------------------------------------------
\* Nothing was ever sent before the start, ...
NothingTaken == websocket = "none" => msgQueue = <<>> /\ served = {}

\* ... and the first handshake ends before the first login.
HandshakedFirst == onHandshake = "connected" /\ io = "handshaked" => ~loggedIn

First == BeforeLogin /\ WhileConnecting /\ NothingTaken /\ HandshakedFirst

\* Steps that neither connect nor log in keep it, as long as no message but the
\* login comes under way.
LEMMA FirstKept ==
    ASSUME First,
           onHandshake' = onHandshake, loggedIn' = loggedIn,
           websocket = "none" => UNCHANGED <<msgQueue, served>>,
           websocket' = "none" => websocket = "none",
           io' = "handshaked" => io = "handshaked",
           onHandshake = "connected" /\ ~loggedIn =>
               /\ state' = "Inactive" /\ served' = {}
               /\ \A c \in Callers : at'[c] \in {"idle", "queue", "reset"} \cup Closers
               /\ InTransit' \subseteq {Login},
           onHandshake = "connected" /\ Pending(ops') =>
               /\ Pending(ops)
               /\ io' = io /\ Quiet(ops') /\ Lone(ops')
               /\ stream' \in {"fresh", "null"}
    PROVE  First'
  BY DEF First, BeforeLogin, WhileConnecting, NothingTaken, HandshakedFirst

\* The io thread is in the middle of something: no handshake is under way, and starting
\* something else does not change that.
LEMMA NotConnecting ==
    ASSUME Types, First, onHandshake = "connected", io # "idle",
           \/ ops' = ops
           \/ \E op \in Op \ Handshakes : ops' = Started(ops, op)
    PROVE  ~Pending(ops')
<1>1. ~Pending(ops) /\ ops \in [Op \X Life -> Nat]
  BY DEF First, WhileConnecting, Types, SessionTypes, SessionTypeOK
<1> QED
  BY <1>1, OtherOps

\* The handlers of the session keep it.
LEMMA FirstHandlers ==
    ASSUME Types, First, SessionHandlers, UNCHANGED streamerVars
    PROVE  First'
<1>1. WhileConnecting'
  BY HandlersConnect DEF First
<1>2. BeforeLogin'
  BY HandlersKeep DEF First, BeforeLogin, streamerVars, InTransit, Elements
<1>3. NothingTaken' /\ HandshakedFirst'
  BY HandlersKeep DEF First, NothingTaken, HandshakedFirst, streamerVars, SessionPlaces
<1> QED
  BY <1>1, <1>2, <1>3 DEF First

\* A step that ends the process changes nothing else.
LEMMA FirstCrash ==
    ASSUME First, NEW why, Crash(why), UNCHANGED streamerVars
    PROVE  First'
  BY DEF Crash, sessionVars, streamerVars, First, BeforeLogin, WhileConnecting, InTransit,
         Elements, NothingTaken, HandshakedFirst, Pending, Quiet, Lone

\* The message in question is the login.
LEMMA LoginInTransit ==
    ASSUME Types, AsyncSend(Login), UNCHANGED held, InTransit \subseteq {Login}
    PROVE  InTransit' \subseteq {Login}
<1>1. Elements(msgQueue') = Elements(msgQueue) \cup {Login}
  BY ElementsAppend DEF AsyncSend, Types, SessionTypes, Messages
<1>2. UNCHANGED <<outgoing, held>>
  BY DEF AsyncSend
<1> QED
  BY <1>1, <1>2 DEF InTransit

\* What the streamer does on the io thread keeps it.
LEMMA FirstIo ==
    ASSUME Types, First, IoStep
    PROVE  First'
<1> USE DEF streamerVars, daemonVars, restoreVars, callerVars, serverVars, IoAt
<1>0. /\ ops \in [Op \X Life -> Nat] /\ Handshakes \subseteq Op
      /\ Life = {"live", "dead"}
  BY DEF Types, SessionTypes, SessionTypeOK, Handshakes, Op, Life
<1>1. CASE SessionHandlers /\ UNCHANGED streamerVars
  BY <1>1, FirstHandlers
<1>2. CASE Handshake
  <2> PICK l \in Life : WebsocketIsUp(l)
    BY <1>0, <1>2 DEF Handshake
  <2>1. /\ ops[<<"websocket", l>>] > 0
        /\ ops' = Completed(ops, "websocket", l)
        /\ (loggedIn' = FALSE /\ served' = {}) \/ UNCHANGED <<loggedIn, served>>
        /\ UNCHANGED <<onHandshake, msgQueue, outgoing, held, at, state, websocket>>
    BY <1>2 DEF Handshake, WebsocketIsUp, senderVars, boundVars
  <2>2. Pending(ops)
    BY <1>0, <2>1 DEF Pending, Handshakes
  <2>3. ASSUME onHandshake = "connected" PROVE ~Pending(ops') /\ ~loggedIn
    <3>1. Quiet(ops) /\ Lone(ops) /\ ~loggedIn
      BY <2>2, <2>3 DEF First, WhileConnecting
    <3>2. "websocket" \in Handshakes
      BY DEF Handshakes
    <3> QED
      BY <1>0, <2>1, <3>1, <3>2, LastCompleted
  <2>4. InTransit' = InTransit
    BY <2>1 DEF InTransit, Elements
  <2> QED
    BY <2>1, <2>3, <2>4 DEF First, BeforeLogin, WhileConnecting, NothingTaken,
                            HandshakedFirst
<1>3. CASE OnWebsocketUp
  <2>1. /\ UNCHANGED <<sessionVars, websocket, at, held, loggedIn, served>>
        /\ io = "handshaked" /\ io' = "login"
        /\ onHandshake = "connected" => state' = state
    BY <1>3 DEF OnWebsocketUp, InactiveOnReconnect
  <2>2. UNCHANGED <<ops, onHandshake, msgQueue, outgoing>>
    BY <2>1 DEF sessionVars
  <2>3. InTransit' = InTransit
    BY <2>1, <2>2 DEF InTransit, Elements
  <2>4. onHandshake = "connected" => ~Pending(ops')
    BY <2>1, <2>2, NotConnecting
  <2> QED
    BY <2>1, <2>2, <2>3, <2>4, FirstKept DEF First, BeforeLogin
<1>4. CASE SendLogin
  <2>1. CASE NoWebsocket
    BY <2>1, FirstCrash DEF NoWebsocket
  <2>2. CASE websocket = "live" /\ AsyncSend(Login) /\ io' = "loginRead"
                 /\ UNCHANGED streamerVars
    <3>1. UNCHANGED <<onHandshake, ops>>
      BY <2>2 DEF AsyncSend, boundVars
    <3>2. onHandshake = "connected" => ~Pending(ops')
      BY <1>4, <3>1, NotConnecting DEF SendLogin
    <3>3. onHandshake = "connected" /\ ~loggedIn => InTransit' \subseteq {Login}
      BY <2>2, LoginInTransit DEF First, BeforeLogin
    <3> QED
      BY <2>2, <3>1, <3>2, <3>3, FirstKept DEF First, BeforeLogin
  <2> QED
    BY <1>4, <2>1, <2>2 DEF SendLogin
<1>5. CASE ReadLogin
  <2>1. CASE NoWebsocket
    BY <2>1, FirstCrash DEF NoWebsocket
  <2>2. CASE Crash("null_stream") /\ UNCHANGED streamerVars
    BY <2>2, FirstCrash
  <2>3. CASE /\ websocket = "live"
             /\ AsyncReceive
             /\ io' = IF restoring THEN "restore" ELSE "idle"
             /\ UNCHANGED <<state, websocket, daemonVars, recorded, callerVars, serverVars>>
    <3>1. /\ ops' = Started(ops, "login") /\ "login" \in Op \ Handshakes
          /\ UNCHANGED <<onHandshake, msgQueue, outgoing>>
      BY <2>3 DEF AsyncReceive, connVars, boundVars, senderVars, Op, Handshakes
    <3>2. onHandshake = "connected" => ~Pending(ops')
      BY <1>5, <3>1, NotConnecting DEF ReadLogin
    <3>3. InTransit' = InTransit
      BY <2>3, <3>1 DEF InTransit, Elements
    <3> QED
      BY <2>3, <3>1, <3>2, <3>3, FirstKept DEF First, BeforeLogin
  <2> QED
    BY <1>5, <2>1, <2>2, <2>3 DEF ReadLogin
<1>6. CASE RestoreSubscription
  <2>1. /\ UNCHANGED <<sessionVars, websocket, at, held, state, loggedIn, served>>
        /\ io = "restore" /\ io' \in {"idle", "restore"}
    BY <1>6 DEF RestoreSubscription
  <2>2. UNCHANGED <<ops, onHandshake, msgQueue, outgoing>>
    BY <2>1 DEF sessionVars
  <2>3. InTransit' = InTransit
    BY <2>1, <2>2 DEF InTransit, Elements
  <2>4. onHandshake = "connected" => ~Pending(ops')
    BY <2>1, <2>2, NotConnecting
  <2> QED
    BY <2>1, <2>2, <2>3, <2>4, FirstKept DEF First, BeforeLogin
<1>7. CASE LoginAnswered
  <2> PICK l \in Life :
        /\ ops[<<"login", l>>] > 0
        /\ ops' = Completed(ops, "login", l)
        /\ io' \in {"accepted", "refused"}
        /\ UNCHANGED <<boundVars, senderVars, websocket, at, held, state, loggedIn, served>>
    BY <1>0, <1>7 DEF LoginAnswered, OnReadError, OnReadData, ReadFails, Brings
  <2>1. onHandshake = "connected" => ~Pending(ops)
    BY DEF First, WhileConnecting, Quiet, Op, Handshakes
  <2>2. onHandshake = "connected" => ~Pending(ops')
    BY <1>0, <2>1, OtherOps DEF Op, Handshakes
  <2>3. UNCHANGED <<onHandshake, msgQueue, outgoing>>
    BY DEF boundVars, senderVars
  <2>4. InTransit' = InTransit
    BY <2>3 DEF InTransit, Elements
  <2> QED
    BY <2>2, <2>3, <2>4, FirstKept DEF First, BeforeLogin
<1>8. CASE LoginAnswerEmpty
  BY <1>8, FirstCrash DEF LoginAnswerEmpty
<1>9. CASE LoginAccepted
  <2>1. /\ UNCHANGED <<sessionVars, websocket, at, held, served>>
        /\ io = "accepted" /\ io' = "loopFlag" /\ loggedIn'
    BY <1>9 DEF LoginAccepted
  <2>2. UNCHANGED <<ops, onHandshake, msgQueue>>
    BY <2>1 DEF sessionVars
  <2>3. onHandshake = "connected" => ~Pending(ops')
    BY <2>1, <2>2, NotConnecting
  <2> QED
    BY <2>1, <2>2, <2>3 DEF First, BeforeLogin, WhileConnecting, NothingTaken,
                            HandshakedFirst
<1>10. CASE LoginStartsLoop
  <2>1. CASE NoWebsocket
    BY <2>1, FirstCrash DEF NoWebsocket
  <2>2. CASE /\ SetReceiverFlag \/ MarkLoop \/ LaunchLoop \/ UNCHANGED sessionVars
             /\ io \in {"loopFlag", "loopTest", "loopMark", "loopRead"}
             /\ io' \in {"loopTest", "loopMark", "loopRead", "recheck"}
             /\ UNCHANGED streamerVars
    <3>1. /\ ops' = ops \/ ops' = Started(ops, "loop")
          /\ "loop" \in Op \ Handshakes
          /\ UNCHANGED <<boundVars, senderVars>>
      BY <2>2 DEF SetReceiverFlag, MarkLoop, LaunchLoop, sessionVars, boundVars, senderVars,
         Op, Handshakes
    <3>2. onHandshake = "connected" => ~Pending(ops')
      BY <2>2, <3>1, NotConnecting
    <3>3. UNCHANGED <<onHandshake, msgQueue, outgoing>>
      BY <3>1 DEF boundVars, senderVars
    <3>4. InTransit' = InTransit
      BY <2>2, <3>3 DEF InTransit, Elements
    <3> QED
      BY <2>2, <3>2, <3>3, <3>4, FirstKept DEF First, BeforeLogin
  <2>3. CASE Crash("null_stream") /\ UNCHANGED streamerVars
    BY <2>3, FirstCrash
  <2> QED
    BY <1>10, <2>1, <2>2, <2>3 DEF LoginStartsLoop
<1>11. CASE RecheckLogin
  <2>1. /\ UNCHANGED <<connVars, ops, streamerVars>>
        /\ io \in {"refused", "recheck"} /\ io' \in {"idle", "login"}
    BY <1>11 DEF RecheckLogin
  <2>2. UNCHANGED <<ops, onHandshake, msgQueue, outgoing>>
    BY <2>1 DEF connVars, boundVars, senderVars
  <2>3. InTransit' = InTransit
    BY <2>1, <2>2 DEF InTransit, Elements
  <2>4. onHandshake = "connected" => ~Pending(ops')
    BY <2>1, <2>2, NotConnecting
  <2> QED
    BY <2>1, <2>2, <2>3, <2>4, FirstKept DEF First, BeforeLogin
<1> QED
  BY <1>1, <1>2, <1>3, <1>4, <1>5, <1>6, <1>7, <1>8, <1>9, <1>10, <1>11 DEF IoStep

\* What the daemons pass on was under way before.
LEMMA Passed ==
    ASSUME Types, DaemonHandsOver, ~NoWebsocket
    PROVE  /\ Elements(msgQueue') = Elements(msgQueue) \cup Elements(held)
           /\ Elements(held') = {}
           /\ UNCHANGED <<outgoing, ops, stream, onHandshake, link>>
<1>1. AsyncSend(Head(held)) /\ held' = <<>>
  BY DEF DaemonHandsOver
<1>2. held = <<Head(held)>> /\ Head(held) \in Messages
  BY HeldIsThere DEF DaemonHandsOver, DaemonAt, Types, StreamerTypes, Messages
<1>3. Elements(msgQueue') = Elements(msgQueue) \cup {Head(held)}
  BY <1>1, <1>2, ElementsAppend DEF AsyncSend, Types, SessionTypes
<1>4. Elements(held) = {Head(held)} /\ Elements(held') = {}
  BY <1>1, <1>2, ElementsOne, ElementsEmpty
<1> QED
  BY <1>1, <1>3, <1>4 DEF AsyncSend, boundVars

LEMMA Taken ==
    ASSUME Types, SenderTakes
    PROVE  /\ Elements(msgQueue) \cup Elements(outgoing) =
                  Elements(msgQueue') \cup Elements(outgoing')
           /\ UNCHANGED <<ops, stream, onHandshake, io, link>>
<1>1. /\ msgQueue # <<>> /\ outgoing' = <<Head(msgQueue)>> /\ msgQueue' = Tail(msgQueue)
      /\ sender # "write"
  BY DEF SenderTakes, MaySendMessage, SenderAt
<1>2. Elements(msgQueue) = {Head(msgQueue)} \cup Elements(msgQueue')
  BY <1>1, ElementsTail DEF Types, SessionTypes
<1>3. outgoing = <<>>
  BY <1>1, EmptySeq DEF Types, SessionTypes
<1> QED
  BY <1>1, <1>2, <1>3, ElementsOne, ElementsEmpty DEF SenderTakes, boundVars

\* The daemons and the network keep it.
LEMMA FirstDaemons ==
    ASSUME Types, Untouched, First,
           DaemonStep \/ SenderStep \/ (LoseLink /\ UNCHANGED streamerVars)
    PROVE  First'
<1> USE DEF streamerVars, daemonVars, restoreVars, callerVars, serverVars, DaemonAt, SenderAt
<1>1. CASE DaemonTakes
  <2>1. state = "Active" /\ websocket # "none"
    BY <1>1 DEF DaemonTakes, MayHandOver, Untouched
  <2>2. UNCHANGED <<sessionVars, io, websocket, at, loggedIn, served>>
    BY <1>1 DEF DaemonTakes
  <2> QED
    BY <2>1, <2>2, FirstKept DEF sessionVars, First, BeforeLogin, WhileConnecting
<1>2. CASE DaemonHandsOver
  <2>1. CASE NoWebsocket
    BY <2>1, FirstCrash DEF NoWebsocket
  <2>2. CASE ~NoWebsocket
    <3>1. InTransit' = InTransit
      BY <1>2, <2>2, Passed DEF InTransit
    <3>2. /\ UNCHANGED <<outgoing, ops, stream, onHandshake, io, websocket, at, state,
                        loggedIn, served>>
          /\ websocket # "none"
      BY <1>2, <2>2, Passed DEF DaemonHandsOver
    <3> QED
      BY <3>1, <3>2, FirstKept DEF First, BeforeLogin, WhileConnecting
  <2> QED
    BY <2>1, <2>2
<1>3. CASE DaemonRests
  <2>1. UNCHANGED <<sessionVars, io, websocket, at, state, held, loggedIn, served>>
    BY <1>3 DEF DaemonRests
  <2>2. InTransit' = InTransit
    BY <2>1 DEF sessionVars, InTransit, Elements
  <2> QED
    BY <2>1, <2>2, FirstKept DEF sessionVars, First, BeforeLogin, WhileConnecting
<1>4. CASE SenderTakes /\ UNCHANGED streamerVars
  <2>1. websocket # "none"
    BY <1>4 DEF SenderTakes, MaySendMessage, Untouched
  <2>2. Elements(held') = Elements(held)
    BY <1>4 DEF Elements
  <2>3. InTransit' = InTransit
    BY <1>4, <2>2, Taken DEF InTransit
  <2> QED
    BY <1>4, <2>1, <2>3, Taken, FirstKept DEF First, BeforeLogin, WhileConnecting
<1>5. CASE (SenderRests \/ SenderExits(SessionReleased)) /\ UNCHANGED streamerVars
  <2>1. UNCHANGED <<msgQueue, outgoing, ops, stream, onHandshake, io>>
    BY <1>5 DEF SenderRests, SenderExits, boundVars
  <2>2. InTransit' = InTransit
    BY <1>5, <2>1 DEF InTransit, Elements
  <2> QED
    BY <1>5, <2>1, <2>2, FirstKept DEF First, BeforeLogin, WhileConnecting
<1>6. CASE SenderCrashes /\ UNCHANGED streamerVars
  BY <1>6, FirstCrash DEF SenderCrashes
<1>7. CASE /\ SenderWrites
           /\ ServerTakes(Head(outgoing))
           /\ UNCHANGED <<state, websocket, daemonVars, restoreVars, callerVars>>
  <2>1. /\ outgoing' = <<>> /\ websocket # "none"
        /\ UNCHANGED <<msgQueue, held, ops, stream, onHandshake, io, loggedIn>>
    BY <1>7 DEF SenderWrites, boundVars, ServerTakes, Untouched
  <2>2. ~loggedIn => served' = served
    BY <1>7 DEF ServerTakes
  <2>3. InTransit' \subseteq InTransit
    BY <2>1, ElementsEmpty DEF InTransit, Elements
  <2> QED
    BY <1>7, <2>1, <2>2, <2>3, FirstKept DEF First, BeforeLogin, WhileConnecting
<1>8. CASE LoseLink /\ UNCHANGED streamerVars
  <2>1. UNCHANGED <<msgQueue, outgoing, ops, stream, onHandshake, io>>
    BY <1>8 DEF LoseLink, boundVars, senderVars
  <2>2. InTransit' = InTransit
    BY <1>8, <2>1 DEF InTransit, Elements
  <2> QED
    BY <1>8, <2>1, <2>2, FirstKept DEF First, BeforeLogin, WhileConnecting
<1> QED
  BY <1>1, <1>2, <1>3, <1>4, <1>5, <1>6, <1>7, <1>8 DEF DaemonStep, SenderStep

\* Callers keep it.
LEMMA FirstCallers ==
    ASSUME Types, Untouched, First, NEW c \in Callers, CallerStep(c)
    PROVE  First'
<1> USE DEF streamerVars, daemonVars, restoreVars, callerVars, serverVars, CallerAt, GoTo,
            Closers
<1>0. ops \in [Op \X Life -> Nat] /\ Handshakes \subseteq Op /\ at \in [Callers -> AtPlaces]
  BY DEF Types, SessionTypes, SessionTypeOK, StreamerTypes, Handshakes, Op
<1>1. CASE Start(c)
  <2>1. /\ Untouched /\ websocket = "none" /\ websocket' = "live"
        /\ onHandshake' = "connected" /\ stream' = "fresh"
        /\ ops' = Started(Cancelled(ops), "resolve")
        /\ UNCHANGED <<msgQueue, outgoing, held, io, state, at, loggedIn, served>>
    BY <1>1 DEF Start, AsyncConnect
  <2>2. /\ msgQueue = <<>> /\ outgoing = <<>> /\ held = <<>> /\ served = {}
        /\ ~loggedIn /\ io = "idle" /\ state = "Inactive"
        /\ \A d \in Callers : at[d] \in {"idle", "queue"}
    BY <2>1, EmptySeq DEF Untouched, First, NothingTaken, Types, SessionTypes, StreamerTypes
  <2>3. InTransit' = {}
    BY <2>1, <2>2, ElementsEmpty DEF InTransit
  <2>4. Quiet(ops) /\ ~Pending(ops)
    <3>1. ASSUME NEW k \in Op, NEW l \in Life PROVE ops[<<k, l>>] = 0
      <4>1. \A x \in Op \X Life : ops[x] = 0
        BY <2>1 DEF Untouched, NothingInFlight
      <4> QED
        BY <4>1
    <3>2. ASSUME NEW k \in Handshakes, NEW l \in Life PROVE ~(ops[<<k, l>>] > 0)
      BY <1>0, <3>1
    <3> QED
      BY <3>1, <3>2 DEF Quiet, Pending
  <2>5. Quiet(Cancelled(ops)) /\ ~Pending(Cancelled(ops))
    BY <1>0, <2>4, CancelKeeps
  <2>6. Cancelled(ops) \in [Op \X Life -> Nat] /\ "resolve" \in Handshakes
    BY <1>0, OpsTyped DEF Handshakes
  <2>7. Quiet(ops') /\ Lone(ops')
    BY <2>1, <2>5, <2>6, FirstStarted
  <2>8. BeforeLogin'
    BY <2>1, <2>2, <2>3 DEF BeforeLogin
  <2>9. WhileConnecting'
    BY <2>1, <2>2, <2>7 DEF WhileConnecting
  <2> QED
    BY <2>1, <2>2, <2>8, <2>9 DEF First, NothingTaken, HandshakedFirst
<1>2. CASE StartAgain(c) \/ RecordRaces(c)
  BY <1>2, FirstCrash DEF StartAgain, RecordRaces
<1>3. CASE Record(c) \/ AsyncRequest(c)
  <2>1. /\ UNCHANGED <<sessionVars, io, websocket, state, held, loggedIn, served>>
        /\ \A d \in Callers : at'[d] \in {at[d], "queue", "idle"}
    BY <1>0, <1>3 DEF Record, AsyncRequest
  <2>2. InTransit' = InTransit
    BY <2>1 DEF sessionVars, InTransit, Elements
  <2> QED
    BY <2>1, <2>2, FirstKept DEF sessionVars, First, BeforeLogin, WhileConnecting
<1>4. CASE Pause(c)
  <2>1. CASE PauseState(c)
    <3>1. state = "Active" /\ websocket # "none"
      BY <2>1 DEF PauseState, Untouched
    <3>2. UNCHANGED <<sessionVars, io, websocket, held, loggedIn, served>>
      BY <2>1 DEF PauseState
    <3> QED
      BY <3>1, <3>2, FirstKept DEF sessionVars, First, BeforeLogin, WhileConnecting
  <2>2. CASE PauseLoop(c)
    <3>1. CASE NoWebsocket
      BY <3>1, FirstCrash DEF NoWebsocket
    <3>2. CASE StopReceiverLoop /\ UNCHANGED <<io, websocket, loggedIn>> /\ websocket = "live"
      <4>1. at[c] = "stopLoop"
        BY <2>2 DEF PauseLoop
      <4> QED
        BY <3>2, <4>1, FirstKept DEF StopReceiverLoop, senderVars, boundVars, First,
           BeforeLogin, WhileConnecting
    <3> QED
      BY <2>2, <3>1, <3>2 DEF PauseLoop
  <2> QED
    BY <1>4, <2>1, <2>2 DEF Pause
<1>5. CASE Resume(c)
  <2>1. CASE ResumeBegins(c) \/ ResumeState(c)
    <3>1. state = "Paused" \/ at[c] = "activate"
      BY <2>1 DEF ResumeBegins, ResumeState
    <3>2. /\ UNCHANGED <<sessionVars, io, websocket, held, loggedIn, served>>
          /\ websocket # "none"
      BY <2>1 DEF ResumeBegins, ResumeState, Untouched
    <3> QED
      BY <3>1, <3>2, FirstKept DEF sessionVars, First, BeforeLogin, WhileConnecting
  <2>2. CASE ResumeLoop(c)
    <3>1. /\ at[c] \in {"loopFlag", "loopTest", "loopMark", "loopRead"}
          /\ UNCHANGED <<io, websocket, loggedIn, boundVars, senderVars, served>>
          /\ websocket # "none"
      BY <2>2 DEF ResumeLoop, SetReceiverFlag, MarkLoop, LaunchLoop, sessionVars, boundVars,
         senderVars, Untouched
    <3>2. UNCHANGED <<onHandshake, msgQueue>>
      BY <3>1 DEF boundVars, senderVars
    <3>3. \/ ops' = ops
          \/ ops' = Started(ops, "loop")
      BY <2>2 DEF ResumeLoop, SetReceiverFlag, MarkLoop, LaunchLoop, sessionVars
    <3>4. onHandshake = "connected" => loggedIn /\ ~Pending(ops)
      BY <3>1 DEF First, BeforeLogin, WhileConnecting
    <3>5. onHandshake = "connected" => ~Pending(ops')
      BY <1>0, <3>3, <3>4, OtherOps DEF Op, Handshakes
    <3> QED
      BY <3>1, <3>2, <3>4, <3>5, FirstKept
  <2>3. CASE ResumeCrashes(c)
    BY <2>3, FirstCrash DEF ResumeCrashes, NoWebsocket
  <2> QED
    BY <1>5, <2>1, <2>2, <2>3 DEF Resume
<1>6. CASE Stop(c)
  <2>1. /\ UNCHANGED <<sessionVars, io, websocket, held, loggedIn, served>>
        /\ websocket # "none" /\ state' = "Inactive"
        /\ \A d \in Callers : at'[d] \in {at[d], "reset"}
    BY <1>0, <1>6 DEF Stop
  <2>2. InTransit' = InTransit
    BY <2>1 DEF sessionVars, InTransit, Elements
  <2> QED
    BY <2>1, <2>2, FirstKept DEF sessionVars, First, BeforeLogin, WhileConnecting
<1>7. CASE ResetWebsocket(c) \/ JoinIo(c)
  <2>1. /\ UNCHANGED <<ops, stream, onHandshake, msgQueue, outgoing, io, held, state,
                       loggedIn, served>>
        /\ websocket' = "none" => websocket = "none"
        /\ \A d \in Callers : at'[d] \in {at[d], "idle", "closeStream"}
    BY <1>0, <1>7 DEF ResetWebsocket, JoinIo, Disconnect, sessionVars, boundVars, senderVars
  <2>2. InTransit' = InTransit
    BY <2>1 DEF InTransit, Elements
  <2> QED
    BY <2>1, <2>2, FirstKept DEF First, BeforeLogin, WhileConnecting
<1>8. CASE ShutdownCloses(c)
  <2>1. /\ UNCHANGED <<onHandshake, msgQueue, outgoing, io, held, state, websocket,
                       loggedIn, served>>
        /\ \A d \in Callers : at'[d] \in {at[d], "joinIo"}
        /\ \/ stream = "open" /\ ops' = Started(ops, "close")
           \/ stream' = "null" /\ ops' = Cancelled(ops)
    BY <1>0, <1>8 DEF ShutdownCloses, CloseStream, senderVars
  <2>2. InTransit' = InTransit
    BY <2>1 DEF InTransit, Elements
  <2>3. ASSUME onHandshake = "connected", Pending(ops')
        PROVE  /\ Pending(ops) /\ Quiet(ops') /\ Lone(ops')
               /\ stream' \in {"fresh", "null"}
    <3>1. CASE stream = "open" /\ ops' = Started(ops, "close")
      <4>1. Pending(ops)
        BY <1>0, <2>3, <3>1, OtherOps DEF Op, Handshakes
      <4> QED
        BY <2>3, <3>1, <4>1 DEF First, WhileConnecting
    <3>2. CASE stream' = "null" /\ ops' = Cancelled(ops)
      BY <1>0, <2>3, <3>2, CancelKeeps DEF First, WhileConnecting
    <3> QED
      BY <2>1, <3>1, <3>2
  <2> QED
    BY <2>1, <2>2, <2>3, FirstKept DEF First, BeforeLogin
<1> QED
  BY <1>1, <1>2, <1>3, <1>4, <1>5, <1>6, <1>7, <1>8 DEF CallerStep

\* It holds at the start, and every step keeps it.
LEMMA FirstInit == Init => First
<1> SUFFICES ASSUME Init PROVE First
  OBVIOUS
<1>1. ~Pending(ops)
  <2>1. ASSUME NEW k \in Op, NEW l \in Life PROVE ops[<<k, l>>] = 0
    BY DEF Init, SessionInit
  <2>2. ASSUME NEW k \in Handshakes, NEW l \in Life PROVE ~(ops[<<k, l>>] > 0)
    BY <2>1 DEF Handshakes, Op
  <2> QED
    BY <2>2 DEF Pending
<1>2. InTransit = {}
  <2>1. held = <<>> /\ msgQueue = <<>> /\ outgoing = <<>>
    BY DEF Init, SessionInit
  <2> QED
    BY <2>1, ElementsEmpty DEF InTransit
<1>3. BeforeLogin
  <2>1. /\ state = "Inactive" /\ served = {}
        /\ \A c \in Callers : at[c] = "idle"
    BY DEF Init
  <2> QED
    BY <1>2, <2>1 DEF BeforeLogin
<1>4. NothingTaken /\ HandshakedFirst
  BY DEF Init, SessionInit, NothingTaken, HandshakedFirst
<1> QED
  BY <1>1, <1>3, <1>4 DEF First, WhileConnecting

LEMMA FirstStep == Types /\ Untouched /\ First /\ [Next]_vars => First'
<1> SUFFICES ASSUME Types, Untouched, First, [Next]_vars PROVE First'
  OBVIOUS
<1>1. CASE UNCHANGED vars
  BY <1>1 DEF vars, sessionVars, streamerVars, First, BeforeLogin, WhileConnecting,
     NothingTaken, HandshakedFirst, InTransit, Elements, Pending, Quiet, Lone
<1> QED
  BY <1>1, FirstIo, FirstDaemons, FirstCallers DEF Next

LEMMA FirstAlways == Spec => []First
  BY FirstInit, FirstStep, TypesAlways, PTL DEF Spec

-----------------------------------------------------------------------------
(***************************************************************************)
(* Active and logged in.  As long as nobody has paused, the streamer       *)
(* becomes active by a login only, and is inactive again before the next.  *)
(***************************************************************************)
PausePlaces == {"stopLoop", "loopFlag", "loopTest", "loopMark", "loopRead", "activate"}

\* Nobody pauses or resumes.
Unpaused ==
    pauses = 0 => state # "Paused" /\ \A c \in Callers : at[c] \notin PausePlaces

\* Only between a handshake and its callback is Active a thing of the past.
LoggedInFirst == pauses = 0 /\ state = "Active" /\ io # "handshaked" => loggedIn

ActiveInv == Unpaused /\ LoggedInFirst

\* A step that neither logs in nor connects keeps this, ...
LEMMA ActiveKept ==
    ASSUME ActiveInv,
           pauses' = pauses, loggedIn' = loggedIn,
           state' \in {state, "Inactive"},
           io = "handshaked" => io' = io \/ state' # "Active",
           \A c \in Callers : at'[c] \in {at[c]} \cup (AtPlaces \ PausePlaces)
    PROVE  ActiveInv'
  BY DEF ActiveInv, Unpaused, LoggedInFirst, AtPlaces, PausePlaces

\* ... and so does one that ends the process, ...
LEMMA ActiveCrash ==
    ASSUME ActiveInv, NEW why, Crash(why), UNCHANGED streamerVars
    PROVE  ActiveInv'
  BY DEF Crash, streamerVars, ActiveInv, Unpaused, LoggedInFirst

\* ... whatever the io thread does, ...
LEMMA ActiveIo ==
    ASSUME Types, First, ActiveInv, IoStep
    PROVE  ActiveInv'
<1> USE DEF streamerVars, daemonVars, restoreVars, callerVars, serverVars, IoAt
<1>1. CASE SessionHandlers /\ UNCHANGED streamerVars
  BY <1>1, HandlersKeep, ActiveKept DEF SessionPlaces
<1>2. CASE Handshake
  BY <1>2 DEF Handshake, WebsocketIsUp, ActiveInv, Unpaused, LoggedInFirst
<1>3. CASE OnWebsocketUp
  <2>1. CASE onHandshake = "reconnected"
    BY <1>3, <2>1, ActiveKept DEF OnWebsocketUp, InactiveOnReconnect
  <2>2. CASE onHandshake = "connected"
    <3>1. state = "Inactive"
      BY <1>3, <2>2 DEF OnWebsocketUp, First, HandshakedFirst, BeforeLogin
    <3> QED
      BY <1>3, <2>2, <3>1, ActiveKept DEF OnWebsocketUp, InactiveOnReconnect
  <2> QED
    BY <2>1, <2>2 DEF Types, SessionTypes, SessionTypeOK
<1>4. CASE SendLogin
  BY <1>4, ActiveCrash, ActiveKept DEF SendLogin, NoWebsocket
<1>5. CASE ReadLogin
  <2>1. CASE NoWebsocket \/ (Crash("null_stream") /\ UNCHANGED streamerVars)
    BY <2>1, ActiveCrash DEF NoWebsocket
  <2>2. CASE UNCHANGED <<state, callerVars, serverVars>>
    BY <1>5, <2>2, ActiveKept DEF ReadLogin
  <2> QED
    BY <1>5, <2>1, <2>2 DEF ReadLogin
<1>6. CASE RestoreSubscription
  BY <1>6, ActiveKept DEF RestoreSubscription
<1>7. CASE LoginAnswered
  BY <1>7, ActiveKept DEF LoginAnswered, OnReadError, OnReadData
<1>8. CASE LoginAnswerEmpty
  BY <1>8, ActiveCrash DEF LoginAnswerEmpty
<1>9. CASE LoginAccepted
  BY <1>9 DEF LoginAccepted, ActiveInv, Unpaused, LoggedInFirst
<1>10. CASE LoginStartsLoop
  BY <1>10, ActiveCrash, ActiveKept DEF LoginStartsLoop, NoWebsocket
<1>11. CASE RecheckLogin
  BY <1>11, ActiveKept DEF RecheckLogin
<1> QED
  BY <1>1, <1>2, <1>3, <1>4, <1>5, <1>6, <1>7, <1>8, <1>9, <1>10, <1>11 DEF IoStep

\* ... the daemons and the network do, ...
LEMMA ActiveDaemons ==
    ASSUME ActiveInv, DaemonStep \/ SenderStep \/ (LoseLink /\ UNCHANGED streamerVars)
    PROVE  ActiveInv'
<1>1. UNCHANGED <<state, pauses, loggedIn, io, at>>
  <2>1. CASE DaemonStep
    BY <2>1 DEF DaemonStep, DaemonTakes, DaemonHandsOver, NoWebsocket, Crash, DaemonRests,
                streamerVars, serverVars, callerVars
  <2>2. CASE SenderStep
    BY <2>2 DEF SenderStep, SenderTakes, SenderRests, SenderExits, SenderCrashes, Crash,
                SenderWrites, ServerTakes, streamerVars, callerVars
  <2>3. CASE LoseLink /\ UNCHANGED streamerVars
    BY <2>3 DEF LoseLink, streamerVars
  <2> QED
    BY <2>1, <2>2, <2>3
<1> QED
  BY <1>1, ActiveKept

\* ... and callers do, who have not paused yet.
LEMMA ActiveCallers ==
    ASSUME Types, ActiveInv, NEW c \in Callers, CallerStep(c)
    PROVE  ActiveInv'
<1> USE DEF streamerVars, callerVars, serverVars, CallerAt, GoTo, AtPlaces, PausePlaces
<1>0. at \in [Callers -> AtPlaces] /\ pauses \in Nat
  BY StreamerAssumption DEF Types, StreamerTypes
<1>1. CASE StartAgain(c) \/ RecordRaces(c)
  BY <1>1, ActiveCrash DEF StartAgain, RecordRaces
<1>2. CASE Pause(c) \/ Resume(c)
  <2>1. CASE PauseState(c)
    BY <1>0, <2>1 DEF PauseState, ActiveInv, Unpaused, LoggedInFirst
  <2>2. CASE PauseLoop(c) \/ Resume(c)
    <3>1. pauses # 0
      BY <2>2 DEF PauseLoop, Resume, ResumeBegins, ResumeLoop, ResumeCrashes, ResumeState,
                  ActiveInv, Unpaused
    <3>2. pauses' = pauses
      BY <2>2 DEF PauseLoop, NoWebsocket, Resume, ResumeBegins, ResumeLoop, ResumeCrashes,
                  ResumeState
    <3> QED
      BY <3>1, <3>2 DEF ActiveInv, Unpaused, LoggedInFirst
  <2> QED
    BY <1>2, <2>1, <2>2 DEF Pause
<1>3. CASE Start(c) \/ Record(c) \/ AsyncRequest(c)
  BY <1>0, <1>3, ActiveKept DEF Start, Record, AsyncRequest
<1>4. CASE Stop(c)
  BY <1>0, <1>4, ActiveKept DEF Stop
<1>5. CASE ResetWebsocket(c) \/ ShutdownCloses(c) \/ JoinIo(c)
  BY <1>0, <1>5, ActiveKept DEF ResetWebsocket, ShutdownCloses, JoinIo
<1> QED
  BY <1>1, <1>2, <1>3, <1>4, <1>5 DEF CallerStep

\* In every state.
LEMMA ActiveAlways == Spec => []ActiveInv
<1>1. Init => ActiveInv
  BY DEF Init, SessionInit, ActiveInv, Unpaused, LoggedInFirst, PausePlaces
<1>2. Types /\ First /\ ActiveInv /\ [Next]_vars => ActiveInv'
  <2> SUFFICES ASSUME Types, First, ActiveInv, [Next]_vars PROVE ActiveInv'
    OBVIOUS
  <2>1. CASE UNCHANGED vars
    BY <2>1 DEF vars, streamerVars, ActiveInv, Unpaused, LoggedInFirst
  <2> QED
    BY <2>1, ActiveIo, ActiveDaemons, ActiveCallers DEF Next
<1> QED
  BY <1>1, <1>2, TypesAlways, FirstAlways, PTL DEF Spec

\* As long as nobody has paused, the streamer is active, and hands requests over, only on
\* a connection it is logged in to: whatever handshakes fail, links are lost, logins
\* are refused and threads stop it meanwhile.  (With pauses it is not so: a resume sets
\* the state whatever it has become.)
THEOREM ActiveOnlyLoggedIn == Spec => [](pauses = 0 => ActiveMeansLoggedIn)
<1>1. ActiveInv => (pauses = 0 => ActiveMeansLoggedIn)
  BY DEF ActiveInv, LoggedInFirst, ActiveMeansLoggedIn
<1> QED
  BY <1>1, ActiveAlways, PTL

-----------------------------------------------------------------------------
(***************************************************************************)
(* Reading.  As long as nobody has paused or stopped the streamer its      *)
(* connection goes through four phases, and each knows which read is in    *)
(* flight: none while connecting, the one for the login response, the one  *)
(* of the receiver loop, none while reconnecting.                          *)
(***************************************************************************)
Undisturbed == pauses = 0 /\ (websocket = "none" \/ runDaemon)

NoneDead(o) == \A op \in Op : o[<<op, "dead">>] = 0
Nothing(o)  == \A op \in Op, l \in Life : o[<<op, l>>] = 0

\* The read `op` is in flight and nothing else.
Only(o, op) ==
    \A k \in Op, l \in Life : o[<<k, l>>] = IF k = op /\ l = "live" THEN 1 ELSE 0

Handshaking ==
    /\ io = "idle" /\ stream = "fresh" /\ ~loopRunning
    /\ conn # "WebsocketHandshaked"
    /\ Pending(ops) /\ Quiet(ops) /\ Lone(ops) /\ NoneDead(ops)

LoggingIn ==
    /\ ~loggedIn /\ ~loopRunning
    /\ conn = "WebsocketHandshaked"
    /\ \/ io \in {"handshaked", "accepted"} /\ stream = "open" /\ Nothing(ops)
       \/ /\ stream \in {"open", "failed"} /\ state # "Active"
          /\ \/ io \in {"login", "loginRead", "refused"} /\ Nothing(ops)
             \/ io \in {"restore", "idle"} /\ Only(ops, "login")

Receiving ==
    /\ state = "Active" /\ stream = "open"
    /\ conn = "WebsocketHandshaked"
    /\ \/ io = "loopFlag" /\ ~loopRunning /\ Nothing(ops)
       \/ io \in {"loopTest", "loopMark"} /\ ~loopRunning /\ Nothing(ops) /\ runReceiver
       \/ io = "loopRead" /\ loopRunning /\ Nothing(ops) /\ runReceiver
       \/ /\ io \in {"recheck", "idle"} /\ Only(ops, "loop")
          /\ loopRunning /\ shouldReconnect /\ runReceiver

Reconnecting ==
    /\ ~loopRunning /\ Nothing(ops)
    /\ \/ io = "reconnect" /\ stream = "failed"
       \/ io = "closeStream" /\ stream = "failed" /\ conn # "WebsocketHandshaked"
       \/ io = "join" /\ stream = "null" /\ conn # "WebsocketHandshaked"

Phase == Handshaking \/ LoggingIn \/ Receiving \/ Reconnecting

\* The io thread is about to start the receiver loop.
Starting == {"accepted", "loopFlag", "loopTest", "loopMark", "loopRead"}

\* The login response stays in the buffer until its callback returns; the loop is
\* started before that, and clears the buffer after each message.
Unglued ==
    /\ buffer = "response" => io \in Starting \cup {"refused", "recheck", "login", "loginRead"}
    /\ io \in Starting => buffer = "response"
    /\ ops[<<"loop", "live">>] > 0 => buffer # "leftover"

Orderly ==
    /\ \A c \in Callers : at[c] \in {"idle", "queue"}
    /\ websocket = "none" => ~loopRunning /\ conn # "WebsocketHandshaked" /\ buffer = "clean"
    /\ websocket # "none" => websocket = "live" /\ Phase
    /\ Unglued

ReadingInv == Undisturbed => Orderly

\* How the operations in flight follow each other.
LEMMA NothingThen ==
    ASSUME NEW o \in [Op \X Life -> Nat], Nothing(o)
    PROVE  /\ Nothing(Cancelled(o))
           /\ \A op \in {"login", "loop"} : Only(Started(o, op), op)
           /\ \A h \in Handshakes :
                 /\ Pending(Started(o, h)) /\ Quiet(Started(o, h))
                 /\ Lone(Started(o, h)) /\ NoneDead(Started(o, h))
<1>1. /\ Life = {"live", "dead"} /\ Handshakes \subseteq Op
      /\ {"login", "loop"} \subseteq Op
  BY DEF Life, Handshakes, Op
<1>2. ASSUME NEW k \in Op, NEW l \in Life PROVE Cancelled(o)[<<k, l>>] = 0
  <2>1. o[<<k, "live">>] = 0 /\ o[<<k, "dead">>] = 0
    BY <1>1 DEF Nothing
  <2>2. CASE k = "resolve"
    <3>1. Cancelled(o)[<<k, l>>] = o[<<k, l>>]
      BY <1>1, <2>2 DEF Cancelled
    <3> QED
      BY <1>1, <2>1, <3>1
  <2>3. CASE k # "resolve"
    <3>1. Cancelled(o)[<<k, "live">>] = 0 /\ Cancelled(o)[<<k, "dead">>] = 0
      BY <1>1, <2>1, <2>3 DEF Cancelled
    <3> QED
      BY <1>1, <3>1
  <2> QED
    BY <2>2, <2>3
<1>3. ASSUME NEW op \in Op, NEW k \in Op, NEW l \in Life
      PROVE  Started(o, op)[<<k, l>>] = IF k = op /\ l = "live" THEN 1 ELSE 0
  <2>1. o[<<k, l>>] = 0
    BY DEF Nothing
  <2>2. Started(o, op)[<<k, l>>] = IF k = op /\ l = "live" THEN o[<<k, l>>] + 1 ELSE o[<<k, l>>]
    BY <1>1 DEF Started
  <2> QED
    BY <2>1, <2>2
<1>4. ASSUME NEW h \in Handshakes
      PROVE  /\ Pending(Started(o, h)) /\ Quiet(Started(o, h))
             /\ Lone(Started(o, h)) /\ NoneDead(Started(o, h))
  <2> DEFINE s == Started(o, h)
  <2>1. \A k \in Op, l \in Life : s[<<k, l>>] = IF k = h /\ l = "live" THEN 1 ELSE 0
    BY <1>1, <1>3
  <2> HIDE DEF s
  <2>2. NoneDead(s) /\ Quiet(s)
    BY <1>1, <2>1 DEF NoneDead, Quiet
  <2>3. Pending(s)
    <3>1. s[<<h, "live">>] = 1
      BY <1>1, <2>1
    <3> QED
      BY <1>1, <3>1 DEF Pending
  <2>4. Lone(s)
    <3>1. ASSUME NEW g \in Handshakes, NEW l \in Life, s[<<g, l>>] > 0
          PROVE  g = h /\ l = "live" /\ s[<<g, l>>] = 1
      <4>1. s[<<g, l>>] = IF g = h /\ l = "live" THEN 1 ELSE 0
        BY <1>1, <2>1
      <4> QED
        BY <3>1, <4>1
    <3> QED
      BY <3>1 DEF Lone
  <2> QED
    BY <2>2, <2>3, <2>4 DEF s
<1> QED
  BY <1>1, <1>2, <1>3, <1>4 DEF Nothing, Only

LEMMA NothingLeft ==
    ASSUME NEW o \in [Op \X Life -> Nat]
    PROVE  /\ \A op \in {"login", "loop"} :
                 Only(o, op) => Nothing(Completed(o, op, "live"))
           /\ \A h \in Handshakes :
                 Quiet(o) /\ Lone(o) /\ NoneDead(o) /\ o[<<h, "live">>] > 0 =>
                     Nothing(Completed(o, h, "live"))
<1>1. /\ Life = {"live", "dead"} /\ Handshakes \subseteq Op
      /\ {"login", "loop"} \subseteq Op
  BY DEF Life, Handshakes, Op
<1>2. ASSUME NEW op \in Op, NEW k \in Op, NEW l \in Life
      PROVE  Completed(o, op, "live")[<<k, l>>] =
                 IF k = op /\ l = "live" THEN o[<<k, l>>] - 1 ELSE o[<<k, l>>]
  BY <1>1 DEF Completed
<1>3. ASSUME NEW op \in {"login", "loop"}, Only(o, op), NEW k \in Op, NEW l \in Life
      PROVE  Completed(o, op, "live")[<<k, l>>] = 0
  <2>1. o[<<k, l>>] = IF k = op /\ l = "live" THEN 1 ELSE 0
    BY <1>3 DEF Only
  <2>2. Completed(o, op, "live")[<<k, l>>] =
            IF k = op /\ l = "live" THEN o[<<k, l>>] - 1 ELSE o[<<k, l>>]
    BY <1>1, <1>2
  <2> QED
    BY <2>1, <2>2
<1>4. ASSUME NEW h \in Handshakes, Quiet(o), Lone(o), NoneDead(o), o[<<h, "live">>] > 0,
             NEW k \in Op, NEW l \in Life
      PROVE  Completed(o, h, "live")[<<k, l>>] = 0
  <2>0. Completed(o, h, "live")[<<k, l>>] =
            IF k = h /\ l = "live" THEN o[<<k, l>>] - 1 ELSE o[<<k, l>>]
    BY <1>1, <1>2
  <2>1. CASE k \notin Handshakes \/ l = "dead"
    <3>1. o[<<k, l>>] = 0
      BY <1>1, <1>4, <2>1 DEF Quiet, NoneDead
    <3>2. ~(k = h /\ l = "live")
      BY <2>1
    <3> QED
      BY <2>0, <3>1, <3>2
  <2>2. CASE k \in Handshakes /\ l = "live"
    <3>1. o[<<k, l>>] > 0 => k = h /\ o[<<k, l>>] = 1
      BY <1>1, <1>4, <2>2 DEF Lone
    <3>2. o[<<k, l>>] \in Nat
      OBVIOUS
    <3>3. o[<<k, l>>] = IF k = h THEN 1 ELSE 0
      BY <1>1, <1>4, <2>2, <3>1, <3>2
    <3> QED
      BY <2>0, <2>2, <3>3
  <2> QED
    BY <1>1, <2>1, <2>2
<1> QED
  BY <1>3, <1>4 DEF Nothing

\* An operation in flight tells the phase.
LEMMA WhichPhase ==
    ASSUME ops \in [Op \X Life -> Nat], Phase, NEW l \in Life
    PROVE  /\ \A h \in Handshakes : ops[<<h, l>>] > 0 => Handshaking /\ l = "live"
           /\ ops[<<"login", l>>] > 0 => LoggingIn /\ Only(ops, "login") /\ l = "live"
           /\ ops[<<"loop", l>>] > 0 => Receiving /\ Only(ops, "loop") /\ l = "live"
           /\ \A k \in {"close", "drain"} : ~(ops[<<k, l>>] > 0)
<1>1. /\ Handshakes \subseteq Op \ {"login", "loop"}
      /\ {"login", "loop", "close", "drain"} \subseteq Op \ Handshakes
      /\ Life = {"live", "dead"}
  BY DEF Handshakes, Op, Life
<1>2. ASSUME Nothing(ops), NEW k \in Op PROVE ~(ops[<<k, l>>] > 0)
  BY <1>2 DEF Nothing
<1>3. ASSUME NEW op \in {"login", "loop"}, Only(ops, op), NEW k \in Op, ops[<<k, l>>] > 0
      PROVE  k = op /\ l = "live"
  BY <1>3 DEF Only
<1>4. ASSUME Handshaking, NEW k \in Op, ops[<<k, l>>] > 0
      PROVE  k \in Handshakes /\ l = "live"
  <2>1. k \in Handshakes
    BY <1>4 DEF Handshaking, Quiet
  <2>2. l # "dead"
    BY <1>4 DEF Handshaking, NoneDead
  <2> QED
    BY <1>1, <2>1, <2>2
<1>5. ASSUME NEW k \in Op, ops[<<k, l>>] > 0
      PROVE  \/ Handshaking /\ k \in Handshakes /\ l = "live"
             \/ LoggingIn /\ Only(ops, "login") /\ k = "login" /\ l = "live"
             \/ Receiving /\ Only(ops, "loop") /\ k = "loop" /\ l = "live"
  <2>1. ~Reconnecting /\ ~Nothing(ops)
    BY <1>2, <1>5 DEF Reconnecting
  <2>2. CASE LoggingIn
    <3>1. Only(ops, "login")
      BY <2>1, <2>2 DEF LoggingIn
    <3> QED
      BY <1>3, <1>5, <2>2, <3>1
  <2>3. CASE Receiving
    <3>1. Only(ops, "loop")
      BY <2>1, <2>3 DEF Receiving
    <3> QED
      BY <1>3, <1>5, <2>3, <3>1
  <2> QED
    BY <1>4, <1>5, <2>1, <2>2, <2>3 DEF Phase
<1>6. ASSUME NEW h \in Handshakes, ops[<<h, l>>] > 0 PROVE Handshaking /\ l = "live"
  BY <1>1, <1>5, <1>6
<1>7. ASSUME ops[<<"login", l>>] > 0
      PROVE  LoggingIn /\ Only(ops, "login") /\ l = "live"
  BY <1>1, <1>5, <1>7
<1>8. ASSUME ops[<<"loop", l>>] > 0
      PROVE  Receiving /\ Only(ops, "loop") /\ l = "live"
  BY <1>1, <1>5, <1>8
<1>9. ASSUME NEW k \in {"close", "drain"} PROVE ~(ops[<<k, l>>] > 0)
  BY <1>1, <1>5
<1> QED
  BY <1>6, <1>7, <1>8, <1>9

\* A step that leaves alone what the phases speak of keeps the order.
LEMMA OrderlyKept ==
    ASSUME Orderly,
           UNCHANGED <<io, stream, loopRunning, shouldReconnect, runReceiver, conn, ops,
                       buffer, state, loggedIn, websocket>>,
           \A c \in Callers : at'[c] \in {"idle", "queue"}
    PROVE  Orderly'
<1>1. Handshaking => Handshaking'
  BY DEF Handshaking, Pending, Quiet, Lone, NoneDead
<1>2. LoggingIn => LoggingIn'
  BY DEF LoggingIn, Nothing, Only
<1>3. Receiving => Receiving'
  BY DEF Receiving, Nothing, Only
<1>4. Reconnecting => Reconnecting'
  BY DEF Reconnecting, Nothing
<1>5. Unglued => Unglued'
  BY DEF Unglued, Starting
<1> QED
  BY <1>1, <1>2, <1>3, <1>4, <1>5 DEF Orderly, Phase

LEMMA OrderlyCrash ==
    ASSUME Orderly, NEW why, Crash(why), UNCHANGED streamerVars
    PROVE  Orderly'
  BY OrderlyKept DEF Crash, sessionVars, streamerVars, Orderly

\* A connection is begun.
LEMMA BeginConnecting ==
    ASSUME ops \in [Op \X Life -> Nat], Nothing(ops),
           ops' = Started(Cancelled(ops), "resolve"),
           stream' = "fresh", io' = "idle",
           ~loopRunning', conn' # "WebsocketHandshaked"
    PROVE  Handshaking' /\ ops'[<<"loop", "live">>] = 0
<1>1. Nothing(Cancelled(ops)) /\ Cancelled(ops) \in [Op \X Life -> Nat]
  BY NothingThen, OpsTyped DEF Op
<1>2. "resolve" \in Handshakes /\ "loop" \in Op \ Handshakes /\ "live" \in Life
  BY DEF Handshakes, Op, Life
<1>3. Pending(ops') /\ Quiet(ops') /\ Lone(ops') /\ NoneDead(ops')
  BY <1>1, <1>2, NothingThen
<1>4. ops'[<<"loop", "live">>] = 0
  BY <1>2, <1>3 DEF Quiet
<1>5. Handshaking'
  BY <1>3 DEF Handshaking, Pending, Quiet, Lone, NoneDead
<1> QED
  BY <1>4, <1>5

\* The handlers of the session keep it.
LEMMA OrderlyHandlers ==
    ASSUME Types, Orderly, websocket = "live", SessionHandlers, UNCHANGED streamerVars
    PROVE  Orderly'
<1> USE DEF IoAt
<1>0. /\ ops \in [Op \X Life -> Nat] /\ Life = {"live", "dead"}
      /\ Handshakes \subseteq Op \ {"login", "loop"}
      /\ {"loop", "login"} \subseteq Op \ Handshakes
      /\ Phase /\ Unglued
  BY DEF Types, SessionTypes, SessionTypeOK, Handshakes, Op, Life, Orderly
<1>1. ASSUME Phase', Unglued' PROVE Orderly'
  BY <1>1 DEF Orderly, streamerVars
<1>2. ASSUME NEW h \in Handshakes, Retry(h) PROVE Orderly'
  <2> PICK l \in Life :
        /\ io = "idle" /\ ops[<<h, l>>] > 0
        /\ stream' = "fresh"
        /\ ops' = Started(Cancelled(Completed(ops, h, l)), "resolve")
        /\ UNCHANGED <<flagVars, loopVars, buffer, io>>
    BY <1>2 DEF Retry
  <2>1. Handshaking /\ l = "live"
    BY <1>0, WhichPhase
  <2> DEFINE o == Completed(ops, h, "live")
  <2>2. o \in [Op \X Life -> Nat] /\ Nothing(o)
    BY <1>0, <2>1, NothingLeft, OpsTyped DEF Handshaking
  <2> HIDE DEF o
  <2>3. Nothing(Cancelled(o)) /\ Cancelled(o) \in [Op \X Life -> Nat]
    BY <1>0, <2>2, NothingThen, OpsTyped
  <2>4. "resolve" \in Handshakes
    BY DEF Handshakes
  <2>5. ops' = Started(Cancelled(o), "resolve")
    BY <2>1 DEF o
  <2>6. Pending(ops') /\ Quiet(ops') /\ Lone(ops') /\ NoneDead(ops')
    BY <2>3, <2>4, <2>5, NothingThen
  <2>7. Handshaking'
    BY <2>1, <2>6 DEF Handshaking, Pending, Quiet, Lone, NoneDead, flagVars, loopVars
  <2>8. ops'[<<"loop", "live">>] = 0
    BY <1>0, <2>6 DEF Quiet
  <2>9. Unglued'
    BY <1>0, <2>8 DEF Unglued, Starting
  <2> QED
    BY <1>1, <2>7, <2>9 DEF Phase
<1>3. ASSUME NEW h \in Handshakes, NEW k \in Handshakes, NEW reached, Advance(h, reached, k),
             reached # "WebsocketHandshaked"
      PROVE  Orderly'
  <2> PICK l \in Life :
        /\ io = "idle" /\ ops[<<h, l>>] > 0
        /\ ops' = Started(Completed(ops, h, l), k)
        /\ conn' = reached
        /\ UNCHANGED <<loopRunning, stream, buffer, io>>
    BY <1>3 DEF Advance, loopVars
  <2>2. Handshaking /\ l = "live"
    BY <1>0, WhichPhase
  <2>1. /\ io = "idle" /\ ops[<<h, "live">>] > 0
        /\ ops' = Started(Completed(ops, h, "live"), k)
        /\ conn' = reached
        /\ UNCHANGED <<loopRunning, stream, buffer, io>>
    BY <2>2
  <2> DEFINE o == Completed(ops, h, "live")
  <2>3. o \in [Op \X Life -> Nat] /\ Nothing(o)
    BY <1>0, <2>1, <2>2, NothingLeft, OpsTyped DEF Handshaking
  <2> HIDE DEF o
  <2>4. ops' = Started(o, k)
    BY <2>1 DEF o
  <2>5. Pending(ops') /\ Quiet(ops') /\ Lone(ops') /\ NoneDead(ops')
    BY <2>3, <2>4, NothingThen
  <2>6. Handshaking'
    <3>1. io' = "idle" /\ stream' = "fresh" /\ ~loopRunning'
      BY <2>1, <2>2 DEF Handshaking
    <3>2. conn' # "WebsocketHandshaked"
      BY <1>3, <2>1
    <3> QED
      BY <2>5, <3>1, <3>2 DEF Handshaking, Pending, Quiet, Lone, NoneDead
  <2>7. ops'[<<"loop", "live">>] = 0
    BY <1>0, <2>5 DEF Quiet
  <2>8. Unglued'
    BY <1>0, <2>1, <2>7 DEF Unglued, Starting
  <2> QED
    BY <1>1, <2>6, <2>8 DEF Phase
<1>4. CASE OnResolve \/ OnConnect \/ OnSSLHandshake \/ WebsocketIsRefused
  <2>1. ASSUME NEW h \in Handshakes, AdvanceWithoutStream(h) PROVE Orderly'
    BY <2>1, OrderlyCrash DEF AdvanceWithoutStream
  <2> QED
    BY <1>2, <1>3, <1>4, <2>1 DEF OnResolve, OnConnect, OnSSLHandshake, WebsocketIsRefused,
                                  HandshakeStep, Handshakes
<1>5. CASE OnReceiveLoop
  <2>1. CASE ReceiveLoopStopped
    BY <1>0, <2>1 DEF ReceiveLoopStopped, Phase, Handshaking, LoggingIn, Receiving, Reconnecting
  <2> SUFFICES ASSUME NEW l \in Life,
                      ReceiveLoopFails(l) \/ ReceiveLoopReadsOn(l)
                          \/ ReceiveLoopDisconnected(l) \/ ReceiveLoopStopping(l)
               PROVE  Orderly'
    BY <1>0, <1>5, <2>1, OrderlyCrash DEF OnReceiveLoop, ReceivedWithoutStream
  <2>2. Receiving /\ Only(ops, "loop") /\ l = "live" /\ io = "idle"
    <3>1. ops[<<"loop", l>>] > 0 /\ io = "idle"
      BY DEF ReceiveLoopFails, ReadFails, ReceiveLoopReadsOn, ReceiveLoopDisconnected,
             ReceiveLoopStopping, Brings
    <3> QED
      BY <1>0, <3>1, WhichPhase
  <2>3. loopRunning /\ shouldReconnect /\ runReceiver /\ conn = "WebsocketHandshaked"
    BY <2>2 DEF Receiving
  <2>4. CASE ReceiveLoopFails(l)
    <3>1. /\ stream' = "failed" /\ io' = "reconnect" /\ ~loopRunning'
          /\ ops' = Completed(ops, "loop", "live")
          /\ buffer' \in Remains
      BY <2>2, <2>3, <2>4 DEF ReceiveLoopFails, ReadFails, Receiving
    <3>2. Nothing(ops')
      BY <1>0, <2>2, <3>1, NothingLeft
    <3>3. buffer' # "response"
      BY <1>0, <2>2, <3>1 DEF Unglued, Starting, Remains
    <3>4. ops'[<<"loop", "live">>] = 0
      BY <1>0, <3>2 DEF Nothing
    <3>5. Reconnecting'
      BY <3>1, <3>2 DEF Reconnecting, Nothing
    <3> QED
      BY <1>1, <3>1, <3>3, <3>4, <3>5 DEF Phase, Unglued, Starting
  <2>5. CASE ReceiveLoopReadsOn(l)
    <3>1. /\ UNCHANGED <<io, stream, loopRunning, shouldReconnect, runReceiver, conn, state>>
          /\ ops' = Started(Completed(ops, "loop", "live"), "loop")
          /\ buffer' \in {"torn", "clean"}
      <4>1. l = "live" /\ state' = state
        BY <2>2 DEF streamerVars
      <4>2. /\ UNCHANGED <<connVars, io>>
            /\ ops' = Started(Completed(ops, "loop", l), "loop")
            /\ buffer' \in {"torn", "clean"}
        BY <2>5 DEF ReceiveLoopReadsOn, Cleared
      <4> QED
        BY <4>1, <4>2 DEF connVars, loopVars, flagVars
    <3> DEFINE o == Completed(ops, "loop", "live")
    <3>2. Nothing(o) /\ o \in [Op \X Life -> Nat]
      <4>1. "loop" \in Op /\ "live" \in Life
        BY DEF Op, Life
      <4>2. <<"loop", "live">> \in Op \X Life /\ ops[<<"loop", "live">>] > 0
        BY <2>2, <4>1 DEF Only
      <4>3. Nothing(Completed(ops, "loop", "live"))
        BY <1>0, <2>2, NothingLeft
      <4>4. Completed(ops, "loop", "live") \in [Op \X Life -> Nat]
        BY <1>0, <4>2 DEF Completed
      <4> QED
        BY <4>3, <4>4
    <3> HIDE DEF o
    <3>3. Only(Started(o, "loop"), "loop")
      BY <3>2, NothingThen
    <3>4. Only(ops', "loop")
      BY <3>1, <3>3 DEF o
    <3>5. Receiving'
      BY <2>2, <2>3, <3>1, <3>4 DEF Receiving, Only
    <3> QED
      BY <1>1, <2>2, <3>1, <3>5 DEF Phase, Unglued, Starting
  <2> QED
    BY <2>2, <2>3, <2>4, <2>5 DEF ReceiveLoopDisconnected, ReceiveLoopStopping
<1>6. CASE OnClose \/ ClosedWithoutStream \/ DrainOnClose
  BY <1>0, <1>6, WhichPhase DEF OnClose, ClosedWithoutStream, DrainOnClose
<1>7. CASE AsyncReconnect(FlagsInUse)
  <2>1. Reconnecting
    BY <1>0, <1>7 DEF Phase, Handshaking, LoggingIn, Receiving, AsyncReconnect,
       ReconnectDisconnects, ReconnectCloses, ReconnectConnects
  <2>2. CASE ReconnectDisconnects
    <3>1. /\ conn' = "Disconnected" /\ io' = "closeStream"
          /\ UNCHANGED <<stream, loopRunning, ops, buffer>>
          /\ stream = "failed" /\ io = "reconnect"
      BY <2>1, <2>2 DEF ReconnectDisconnects, Disconnect, Reconnecting
    <3>2. Reconnecting'
      BY <2>1, <3>1 DEF Reconnecting, Nothing
    <3>3. Unglued'
      BY <1>0, <3>1 DEF Unglued, Starting
    <3> QED
      BY <1>1, <3>2, <3>3 DEF Phase
  <2>3. CASE ReconnectCloses
    <3>1. /\ stream = "failed" /\ conn # "WebsocketHandshaked" /\ io = "closeStream"
          /\ stream' = "null" /\ io' = "join"
          /\ ops' = Cancelled(ops)
          /\ UNCHANGED <<conn, loopRunning, buffer>>
      BY <2>1, <2>3 DEF ReconnectCloses, CloseStream, Reconnecting, flagVars, loopVars
    <3>2. Nothing(ops')
      BY <1>0, <2>1, <3>1, NothingThen DEF Reconnecting
    <3>3. Reconnecting'
      BY <2>1, <3>1, <3>2 DEF Reconnecting, Nothing
    <3>4. ops'[<<"loop", "live">>] = 0
      BY <1>0, <3>2 DEF Nothing
    <3>5. Unglued'
      BY <1>0, <3>1, <3>4 DEF Unglued, Starting
    <3> QED
      BY <1>1, <3>3, <3>5 DEF Phase
  <2>4. CASE ReconnectConnects(FlagsInUse)
    <3>1. /\ conn # "WebsocketHandshaked" /\ io = "join" /\ ~loopRunning /\ Nothing(ops)
          /\ stream' = "fresh" /\ io' = "idle"
          /\ ops' = Started(Cancelled(ops), "resolve")
          /\ UNCHANGED <<conn, loopRunning, buffer>>
      BY <2>1, <2>4 DEF ReconnectConnects, AsyncConnect, Reconnecting, loopVars
    <3>2. Handshaking' /\ ops'[<<"loop", "live">>] = 0
      BY <1>0, <3>1, BeginConnecting
    <3>3. Unglued'
      BY <1>0, <3>1, <3>2 DEF Unglued, Starting
    <3> QED
      BY <1>1, <3>2, <3>3 DEF Phase
  <2> QED
    BY <1>7, <2>2, <2>3, <2>4 DEF AsyncReconnect
<1> QED
  BY <1>4, <1>5, <1>6, <1>7 DEF SessionHandlers

\* What the streamer does on the io thread keeps it: the login, ...
LEMMA OrderlyLogin ==
    ASSUME Types, First, ActiveInv, Undisturbed, Orderly, websocket = "live",
           Handshake \/ OnWebsocketUp \/ SendLogin \/ ReadLogin \/ RestoreSubscription
    PROVE  Orderly'
<1> USE DEF IoAt, streamerVars, daemonVars, restoreVars, callerVars, serverVars
<1>0. /\ ops \in [Op \X Life -> Nat] /\ Life = {"live", "dead"}
      /\ Handshakes \subseteq Op \ {"login", "loop"}
      /\ {"loop", "login"} \subseteq Op \ Handshakes
      /\ Phase /\ Unglued /\ \A c \in Callers : at[c] \in {"idle", "queue"}
  BY DEF Types, SessionTypes, SessionTypeOK, Handshakes, Op, Life, Orderly
<1>1. ASSUME LoggingIn', Unglued', UNCHANGED <<websocket, at>> PROVE Orderly'
  BY <1>0, <1>1 DEF Orderly, Phase
<1>2. CASE Handshake
  <2>2. "websocket" \in Handshakes
    BY DEF Handshakes
  <2>3. Handshaking /\ ~WebsocketIsUp("dead")
    <3>1. \A l \in Life : WebsocketIsUp(l) => Handshaking /\ l = "live"
      BY <1>0, <2>2, WhichPhase DEF WebsocketIsUp
    <3> QED
      BY <1>0, <1>2, <3>1 DEF Handshake
  <2>1. /\ io = "idle" /\ ops[<<"websocket", "live">>] > 0
        /\ conn' = "WebsocketHandshaked" /\ stream' = "open" /\ io' = "handshaked"
        /\ ops' = Completed(ops, "websocket", "live")
        /\ ~loggedIn'
        /\ UNCHANGED <<loopRunning, buffer, websocket, at>>
    BY <1>2, <2>3 DEF Handshake, WebsocketIsUp, loopVars
  <2>4. Nothing(ops')
    BY <1>0, <2>1, <2>2, <2>3, NothingLeft DEF Handshaking
  <2>5. LoggingIn'
    BY <2>1, <2>3, <2>4 DEF LoggingIn, Handshaking, Nothing
  <2>6. ops'[<<"loop", "live">>] = 0
    BY <1>0, <2>4 DEF Nothing
  <2>7. Unglued'
    BY <1>0, <2>1, <2>6 DEF Unglued, Starting
  <2> QED
    BY <1>1, <2>1, <2>5, <2>7
<1>3. CASE OnWebsocketUp
  <2>1. /\ io = "handshaked" /\ io' = "login"
        /\ UNCHANGED <<ops, conn, stream, loopRunning, buffer, loggedIn, websocket, at>>
        /\ state' = IF onHandshake = "reconnected" THEN "Inactive" ELSE state
    BY <1>3 DEF OnWebsocketUp, sessionVars, InactiveOnReconnect
  <2>2. LoggingIn /\ Nothing(ops) /\ stream = "open"
    BY <1>0, <2>1 DEF Phase, Handshaking, LoggingIn, Receiving, Reconnecting
  <2>3. state' # "Active"
    <3>1. CASE onHandshake = "reconnected"
      BY <2>1, <3>1
    <3>2. CASE onHandshake = "connected"
      BY <2>1, <3>2 DEF First, HandshakedFirst, BeforeLogin
    <3> QED
      BY <3>1, <3>2 DEF Types, SessionTypes, SessionTypeOK
  <2>4. LoggingIn'
    BY <2>1, <2>2, <2>3 DEF LoggingIn, Nothing
  <2>5. Unglued'
    BY <1>0, <2>1 DEF Unglued, Starting
  <2> QED
    BY <1>1, <2>1, <2>4, <2>5
<1>4. CASE SendLogin
  <2>1. /\ io = "login" /\ io' = "loginRead"
        /\ UNCHANGED <<ops, conn, stream, loopRunning, buffer, loggedIn, state, websocket, at>>
    BY <1>4 DEF SendLogin, NoWebsocket, AsyncSend, flagVars, loopVars
  <2>2. /\ LoggingIn /\ Nothing(ops)
        /\ stream \in {"open", "failed"} /\ state # "Active"
    BY <1>0, <2>1 DEF Phase, Handshaking, LoggingIn, Receiving, Reconnecting
  <2>3. LoggingIn'
    BY <2>1, <2>2 DEF LoggingIn, Nothing
  <2>4. Unglued'
    BY <1>0, <2>1 DEF Unglued, Starting
  <2> QED
    BY <1>1, <2>1, <2>3, <2>4
<1>5. CASE ReadLogin
  <2>0. io = "loginRead"
    BY <1>5 DEF ReadLogin
  <2>1. /\ LoggingIn /\ Nothing(ops)
        /\ stream \in {"open", "failed"} /\ state # "Active"
    BY <1>0, <2>0 DEF Phase, Handshaking, LoggingIn, Receiving, Reconnecting
  <2>2. /\ io' \in {"restore", "idle"}
        /\ ops' = Started(ops, "login")
        /\ buffer' = IF buffer = "response" THEN Cleared(ops') ELSE buffer
        /\ UNCHANGED <<conn, stream, loopRunning, loggedIn, state, websocket, at>>
    BY <1>5, <2>1 DEF ReadLogin, NoWebsocket, AsyncReceive, ReadReturns, connVars, flagVars,
                      loopVars
  <2>3. Only(ops', "login")
    BY <1>0, <2>1, <2>2, NothingThen
  <2>4. LoggingIn'
    BY <2>1, <2>2, <2>3 DEF LoggingIn, Only
  <2>5. buffer' # "response"
    BY <2>2 DEF Cleared
  <2>6. ops'[<<"loop", "live">>] = 0
    BY <1>0, <2>3 DEF Only
  <2>7. Unglued'
    BY <2>2, <2>5, <2>6 DEF Unglued, Starting
  <2> QED
    BY <1>1, <2>2, <2>4, <2>7
<1>6. CASE RestoreSubscription
  <2>1. /\ io = "restore" /\ io' \in {"restore", "idle"}
        /\ UNCHANGED <<ops, conn, stream, loopRunning, buffer, loggedIn, state, websocket, at>>
    BY <1>6 DEF RestoreSubscription, sessionVars
  <2>2. /\ LoggingIn /\ Only(ops, "login")
        /\ stream \in {"open", "failed"} /\ state # "Active"
    BY <1>0, <2>1 DEF Phase, Handshaking, LoggingIn, Receiving, Reconnecting
  <2>3. LoggingIn'
    BY <2>1, <2>2 DEF LoggingIn, Only
  <2>4. Unglued'
    BY <1>0, <2>1 DEF Unglued, Starting
  <2> QED
    BY <1>1, <2>1, <2>3, <2>4
<1> QED
  BY <1>2, <1>3, <1>4, <1>5, <1>6

\* ... its answer, and the start of the receiver loop.
LEMMA OrderlyAnswer ==
    ASSUME Types, Orderly, websocket = "live",
           LoginAnswered \/ LoginAnswerEmpty \/ LoginAccepted \/ LoginStartsLoop
              \/ RecheckLogin
    PROVE  Orderly'
<1> USE DEF IoAt, streamerVars, daemonVars, restoreVars, callerVars, serverVars
<1>0. /\ ops \in [Op \X Life -> Nat] /\ Life = {"live", "dead"}
      /\ {"loop", "login"} \subseteq Op
      /\ Phase /\ Unglued /\ \A c \in Callers : at[c] \in {"idle", "queue"}
  BY DEF Types, SessionTypes, SessionTypeOK, Op, Life, Orderly
<1>1. ASSUME LoggingIn' \/ Receiving', Unglued', UNCHANGED <<websocket, at>> PROVE Orderly'
  BY <1>0, <1>1 DEF Orderly, Phase
<1>2. CASE LoginAnswered
  <2> PICK l \in Life :
        /\ io = "idle" /\ ops[<<"login", l>>] > 0
        /\ ops' = Completed(ops, "login", l)
        /\ buffer' = "response"
        /\ \/ io' = "refused" /\ stream' \in {stream, "failed"}
           \/ /\ io' = "accepted" /\ stream' = stream
              /\ l = "live" => stream \in {"open", "closing"}
        /\ UNCHANGED <<conn, loopRunning, loggedIn, state, websocket, at>>
    BY <1>0, <1>2 DEF LoginAnswered, OnReadError, OnReadData, ReadFails, Brings, CanRead,
                      flagVars, loopVars
  <2>1. LoggingIn /\ Only(ops, "login") /\ l = "live"
    BY <1>0, WhichPhase
  <2>2. /\ stream \in {"open", "failed"} /\ state # "Active"
        /\ io' = "accepted" => stream' = "open"
    BY <2>1 DEF LoggingIn
  <2>3. Nothing(ops')
    BY <1>0, <2>1, NothingLeft
  <2>4. ops'[<<"loop", "live">>] = 0
    BY <1>0, <2>3 DEF Nothing
  <2>5. LoggingIn'
    BY <2>1, <2>2, <2>3 DEF LoggingIn, Nothing
  <2>6. Unglued'
    BY <2>4 DEF Unglued, Starting
  <2> QED
    BY <1>1, <2>5, <2>6
<1>3. CASE LoginAnswerEmpty
  BY <1>3, OrderlyCrash DEF LoginAnswerEmpty
<1>4. CASE LoginAccepted
  <2>1. /\ io = "accepted" /\ io' = "loopFlag" /\ state' = "Active"
        /\ UNCHANGED <<ops, conn, stream, loopRunning, buffer, websocket, at>>
    BY <1>4 DEF LoginAccepted, sessionVars
  <2>2. LoggingIn /\ Nothing(ops) /\ stream = "open"
    BY <1>0, <2>1 DEF Phase, Handshaking, LoggingIn, Receiving, Reconnecting
  <2>3. Receiving'
    BY <2>1, <2>2 DEF Receiving, LoggingIn, Nothing
  <2>4. Unglued'
    BY <1>0, <2>1 DEF Unglued, Starting
  <2> QED
    BY <1>1, <2>1, <2>3, <2>4
<1>5. CASE LoginStartsLoop
  <2>0. io \in {"loopFlag", "loopTest", "loopMark", "loopRead"}
    BY <1>5 DEF LoginStartsLoop
  <2>1. /\ Receiving /\ Nothing(ops) /\ buffer = "response"
        /\ io # "loopRead" => ~loopRunning
        /\ io # "loopFlag" => runReceiver
    BY <1>0, <2>0 DEF Phase, Handshaking, LoggingIn, Receiving, Reconnecting, Unglued, Starting
  <2>2. ASSUME io' \in Starting, Nothing(ops'), Receiving',
               UNCHANGED <<buffer, websocket, at>>
        PROVE  Orderly'
    BY <1>1, <2>1, <2>2 DEF Unglued, Starting
  <2>3. CASE io = "loopFlag"
    <3>1. /\ runReceiver' = TRUE /\ io' = "loopTest"
          /\ UNCHANGED <<ops, conn, stream, loopRunning, buffer, state, websocket, at>>
      BY <1>5, <2>1, <2>3
         DEF LoginStartsLoop, NoWebsocket, SetReceiverFlag, Overwritten, loopVars
    <3> QED
      BY <2>1, <2>2, <2>3, <3>1 DEF Receiving, Nothing, Starting
  <2>4. CASE io = "loopTest"
    <3>1. /\ io' = "loopMark"
          /\ UNCHANGED <<ops, conn, stream, loopRunning, runReceiver, buffer, state,
                         websocket, at>>
      BY <1>5, <2>1, <2>4 DEF LoginStartsLoop, sessionVars
    <3> QED
      BY <2>1, <2>2, <2>4, <3>1 DEF Receiving, Nothing, Starting
  <2>5. CASE io = "loopMark"
    <3>1. /\ io' = "loopRead" /\ loopRunning' = TRUE
          /\ UNCHANGED <<ops, conn, stream, runReceiver, buffer, state, websocket, at>>
      BY <1>5, <2>5 DEF LoginStartsLoop, MarkLoop, flagVars
    <3> QED
      BY <2>1, <2>2, <2>5, <3>1 DEF Receiving, Nothing, Starting
  <2>6. CASE io = "loopRead"
    <3>0. stream = "open" /\ loopRunning
      BY <2>1, <2>6 DEF Receiving
    <3>1. /\ io' = "recheck" /\ shouldReconnect' = TRUE
          /\ ops' = Started(ops, "loop")
          /\ UNCHANGED <<loopRunning, runReceiver, conn, stream, buffer, state, websocket, at>>
      BY <1>5, <2>6, <3>0 DEF LoginStartsLoop, LaunchLoop, flagVars
    <3>2. Only(ops', "loop")
      BY <1>0, <2>1, <3>1, NothingThen
    <3>3. Receiving'
      BY <2>1, <2>6, <3>0, <3>1, <3>2 DEF Receiving, Only
    <3>4. Unglued'
      BY <2>1, <3>1 DEF Unglued, Starting
    <3> QED
      BY <1>1, <3>1, <3>3, <3>4
  <2> QED
    BY <2>0, <2>3, <2>4, <2>5, <2>6
<1>6. CASE RecheckLogin
  <2>1. /\ io \in {"refused", "recheck"}
        /\ UNCHANGED <<ops, conn, stream, loopRunning, shouldReconnect, runReceiver, loggedIn,
                       state, websocket, at>>
        /\ \/ /\ state = "Active" /\ io' = "idle"
              /\ buffer' = IF buffer = "response" THEN Cleared(ops') ELSE buffer
           \/ state # "Active" /\ io' = "login" /\ buffer' = buffer
    BY <1>6 DEF RecheckLogin, ReadReturns, connVars, flagVars, loopVars
  <2>2. CASE io = "refused"
    <3>1. LoggingIn /\ Nothing(ops) /\ stream \in {"open", "failed"} /\ state # "Active"
      BY <1>0, <2>2 DEF Phase, Handshaking, LoggingIn, Receiving, Reconnecting
    <3>2. LoggingIn'
      BY <2>1, <3>1 DEF LoggingIn, Nothing
    <3>3. Unglued'
      BY <1>0, <2>1, <3>1 DEF Unglued, Starting
    <3> QED
      BY <1>1, <2>1, <3>2, <3>3
  <2>3. CASE io = "recheck"
    <3>1. Receiving /\ Only(ops, "loop")
      BY <1>0, <2>3 DEF Phase, Handshaking, LoggingIn, Receiving, Reconnecting
    <3>2. io' = "idle" /\ buffer' \notin {"response", "leftover"}
      <4>1. ops[<<"loop", "live">>] = 1
        BY <1>0, <3>1 DEF Only
      <4> QED
        BY <1>0, <2>1, <3>1, <4>1 DEF Receiving, Unglued, Starting, Cleared
    <3>3. Receiving'
      BY <2>1, <2>3, <3>1, <3>2 DEF Receiving, Only
    <3>4. Unglued'
      BY <3>2 DEF Unglued, Starting
    <3> QED
      BY <1>1, <2>1, <3>3, <3>4
  <2> QED
    BY <2>1, <2>2, <2>3
<1> QED
  BY <1>2, <1>3, <1>4, <1>5, <1>6

\* The io thread keeps it, whatever it does.
LEMMA ReadingIo ==
    ASSUME Types, First, ActiveInv, ReadingInv, websocket # "none", IoStep
    PROVE  ReadingInv'
<1>1. UNCHANGED <<pauses, runDaemon, websocket>>
  BY DEF IoStep, Handshake, OnWebsocketUp, SendLogin, NoWebsocket, ReadLogin,
         RestoreSubscription, LoginAnswered, LoginAnswerEmpty, LoginAccepted,
         LoginStartsLoop, RecheckLogin, streamerVars, daemonVars, callerVars
<1> SUFFICES ASSUME Undisturbed PROVE Orderly'
  BY <1>1 DEF ReadingInv, Undisturbed
<1>2. Orderly /\ websocket = "live"
  BY DEF ReadingInv, Orderly
<1> QED
  BY <1>2, OrderlyHandlers, OrderlyLogin, OrderlyAnswer DEF IoStep

\* So do the daemons and the network, ...
LEMMA ReadingDaemons ==
    ASSUME ReadingInv, DaemonStep \/ SenderStep \/ (LoseLink /\ UNCHANGED streamerVars)
    PROVE  ReadingInv'
<1>1. UNCHANGED <<io, stream, loopRunning, shouldReconnect, runReceiver, conn, ops, buffer,
                  state, loggedIn, websocket, at, pauses, runDaemon>>
  <2> USE DEF sessionVars, streamerVars, serverVars, callerVars, daemonVars, flagVars,
              loopVars
  <2>1. CASE DaemonTakes \/ DaemonRests
    BY <2>1 DEF DaemonTakes, DaemonRests
  <2>2. CASE DaemonHandsOver
    BY <2>2 DEF DaemonHandsOver, NoWebsocket, Crash, AsyncSend
  <2>3. CASE (SenderTakes \/ SenderRests \/ SenderExits(SessionReleased))
                 /\ UNCHANGED streamerVars
    BY <2>3 DEF SenderTakes, SenderRests, SenderExits
  <2>4. CASE SenderCrashes /\ UNCHANGED streamerVars
    BY <2>4 DEF SenderCrashes, Crash
  <2>5. CASE /\ SenderWrites
             /\ ServerTakes(Head(outgoing))
             /\ UNCHANGED <<state, websocket, daemonVars, restoreVars, callerVars>>
    BY <2>5 DEF SenderWrites, ServerTakes
  <2>6. CASE LoseLink /\ UNCHANGED streamerVars
    BY <2>6 DEF LoseLink
  <2> QED
    BY <2>1, <2>2, <2>3, <2>4, <2>5, <2>6 DEF DaemonStep, SenderStep
<1>2. Undisturbed' => Undisturbed
  BY <1>1 DEF Undisturbed
<1>3. Orderly => Orderly'
  BY <1>1, OrderlyKept DEF Orderly
<1> QED
  BY <1>2, <1>3 DEF ReadingInv

\* ... and callers that start the streamer or subscribe; a pause or a stop ends what it
\* is about.
LEMMA ReadingCallers ==
    ASSUME Types, Untouched, ActiveInv, ReadingInv, NEW c \in Callers, CallerStep(c)
    PROVE  ReadingInv'
<1> USE DEF streamerVars, callerVars, serverVars, daemonVars, CallerAt, GoTo
<1>0. /\ at \in [Callers -> AtPlaces] /\ pauses \in Nat
      /\ ops \in [Op \X Life -> Nat]
  BY StreamerAssumption DEF Types, StreamerTypes, SessionTypes, SessionTypeOK
<1>1. CASE StartAgain(c) \/ RecordRaces(c)
  <2>1. UNCHANGED <<pauses, websocket, runDaemon>>
    BY <1>1 DEF StartAgain, RecordRaces
  <2> QED
    BY <1>1, <2>1, OrderlyCrash DEF StartAgain, RecordRaces, ReadingInv, Undisturbed
<1>2. CASE Pause(c) \/ Resume(c)
  <2>1. CASE PauseState(c)
    BY <1>0, <2>1 DEF PauseState, ReadingInv, Undisturbed
  <2>2. CASE PauseLoop(c) \/ Resume(c)
    <3>1. pauses # 0
      BY <2>2 DEF PauseLoop, Resume, ResumeBegins, ResumeLoop, ResumeCrashes, ResumeState,
                  ActiveInv, Unpaused, PausePlaces
    <3>2. pauses' = pauses
      BY <2>2 DEF PauseLoop, NoWebsocket, Resume, ResumeBegins, ResumeLoop, ResumeCrashes,
                  ResumeState
    <3> QED
      BY <3>1, <3>2 DEF ReadingInv, Undisturbed
  <2> QED
    BY <1>2, <2>1, <2>2 DEF Pause
<1>3. CASE Record(c) \/ AsyncRequest(c)
  <2>1. /\ UNCHANGED <<sessionVars, io, state, websocket, runDaemon, pauses, loggedIn>>
        /\ \A d \in Callers : at'[d] \in {at[d], "idle", "queue"}
    BY <1>0, <1>3 DEF Record, AsyncRequest
  <2>2. UNCHANGED <<stream, loopRunning, shouldReconnect, runReceiver, conn, ops, buffer>>
    BY <2>1 DEF sessionVars
  <2>3. Orderly => Orderly'
    BY <2>1, <2>2, OrderlyKept DEF Orderly
  <2> QED
    BY <2>1, <2>3 DEF ReadingInv, Undisturbed
<1>4. CASE Start(c)
  <2>1. /\ websocket = "none" /\ websocket' = "live"
        /\ AsyncConnect("connected", FALSE)
        /\ UNCHANGED <<io, state, at, pauses>>
    BY <1>4 DEF Start
  <2> SUFFICES ASSUME pauses = 0 PROVE Orderly'
    BY <2>1 DEF ReadingInv, Undisturbed
  <2>2. Orderly
    BY <2>1 DEF ReadingInv, Undisturbed
  <2>3. ~loopRunning /\ conn # "WebsocketHandshaked" /\ buffer = "clean"
    BY <2>1, <2>2 DEF Orderly
  <2>4. io = "idle" /\ Nothing(ops)
    BY <2>1 DEF Untouched, NothingInFlight, Nothing
  <2>5. /\ ops' = Started(Cancelled(ops), "resolve") /\ stream' = "fresh"
        /\ UNCHANGED <<conn, loopRunning, buffer>>
    BY <2>1 DEF AsyncConnect, loopVars
  <2>6. Handshaking' /\ ops'[<<"loop", "live">>] = 0
    BY <1>0, <2>1, <2>3, <2>4, <2>5, BeginConnecting
  <2>7. Unglued'
    BY <2>1, <2>3, <2>4, <2>5 DEF Unglued, Starting
  <2> QED
    BY <2>1, <2>2, <2>6, <2>7 DEF Orderly, Phase
<1>5. CASE Stop(c)
  BY <1>5 DEF Stop, ReadingInv, Undisturbed
<1>6. CASE ResetWebsocket(c) \/ ShutdownCloses(c) \/ JoinIo(c)
  <2>1. ~Orderly
    BY <1>6 DEF ResetWebsocket, ShutdownCloses, JoinIo, Orderly
  <2>2. UNCHANGED <<pauses, runDaemon>>
    BY <1>6 DEF ResetWebsocket, ShutdownCloses, JoinIo
  <2>3. websocket' = "none" => websocket = "none"
    BY <1>6 DEF ResetWebsocket, ShutdownCloses, JoinIo
  <2> QED
    BY <2>1, <2>2, <2>3 DEF ReadingInv, Undisturbed
<1> QED
  BY <1>1, <1>2, <1>3, <1>4, <1>5, <1>6 DEF CallerStep

\* In every state.
LEMMA ReadingAlways == Spec => []ReadingInv
<1>1. Init => ReadingInv
  <2> SUFFICES ASSUME Init PROVE Orderly
    BY DEF ReadingInv
  <2>1. /\ websocket = "none" /\ ~loopRunning /\ conn # "WebsocketHandshaked"
        /\ buffer = "clean" /\ io = "idle"
    BY DEF Init, SessionInit
  <2>2. \A c \in Callers : at[c] = "idle"
    BY DEF Init
  <2> QED
    BY <2>1, <2>2 DEF Orderly, Unglued, Starting
<1>2. Types /\ Untouched /\ First /\ ActiveInv /\ ReadingInv /\ [Next]_vars => ReadingInv'
  <2> SUFFICES ASSUME Types, Untouched, First, ActiveInv, ReadingInv, [Next]_vars
               PROVE  ReadingInv'
    OBVIOUS
  <2>1. CASE UNCHANGED vars
    <3>1. UNCHANGED <<io, stream, loopRunning, shouldReconnect, runReceiver, conn, ops,
                      buffer, state, loggedIn, websocket, at, pauses, runDaemon>>
      BY <2>1 DEF vars, sessionVars, streamerVars
    <3>2. Orderly => Orderly'
      BY <3>1, OrderlyKept DEF Orderly
    <3> QED
      BY <3>1, <3>2 DEF ReadingInv, Undisturbed
  <2>2. CASE websocket = "none"
    <3>1. ASSUME NEW c \in Callers,
                 Start(c) \/ Record(c) \/ RecordRaces(c) \/ AsyncRequest(c)
          PROVE  ReadingInv'
      BY <3>1, ReadingCallers DEF CallerStep
    <3> QED
      BY <2>1, <2>2, <3>1, OnlyCallersBefore
  <2>3. CASE websocket # "none"
    BY <2>1, <2>3, ReadingIo, ReadingDaemons, ReadingCallers DEF Next
  <2> QED
    BY <2>2, <2>3
<1> QED
  BY <1>1, <1>2, TypesAlways, FirstAlways, ActiveAlways, PTL DEF Spec

\* Until somebody pauses or stops the streamer there is never more than one read on the
\* stream: login, receiver loop and drain take turns, through any number of lost links,
\* failed handshakes and refused logins.
THEOREM OneReadAtATime == Spec => [](Undisturbed => OneReadOutstanding)
<1>1. Types /\ Untouched /\ ReadingInv => (Undisturbed => OneReadOutstanding)
  <2> SUFFICES ASSUME Types, Untouched, Orderly PROVE OneReadOutstanding
    BY DEF ReadingInv
  <2>1. /\ {"login", "loop", "drain"} \subseteq Op \ Handshakes /\ "live" \in Life
        /\ <<"login", "live">> \in Op \X Life /\ <<"loop", "live">> \in Op \X Life
        /\ <<"drain", "live">> \in Op \X Life
    BY DEF Op, Handshakes, Life
  <2>2. ASSUME Nothing(ops) \/ Quiet(ops) PROVE OneReadOutstanding
    BY <2>1, <2>2 DEF Nothing, Quiet, OneReadOutstanding
  <2>3. ASSUME NEW op \in {"login", "loop"}, Only(ops, op) PROVE OneReadOutstanding
    BY <2>1, <2>3 DEF Only, OneReadOutstanding
  <2>4. CASE websocket = "none"
    BY <2>1, <2>4 DEF Untouched, NothingInFlight, OneReadOutstanding
  <2>5. CASE Phase
    BY <2>2, <2>3, <2>5 DEF Phase, Handshaking, LoggingIn, Receiving, Reconnecting
  <2> QED
    BY <2>4, <2>5 DEF Orderly
<1> QED
  BY <1>1, TypesAlways, ReadingAlways, PTL

\* A stop is under way until the websocket is gone; and a connection that is made anew
\* during one leads to a login that finds no websocket.
StoppingInv ==
    /\ websocket = "live" /\ ~runDaemon => \E c \in Callers : at[c] = "reset"
    /\ websocket = "closing" => \E c \in Callers : at[c] \in Closers
    /\ websocket \in {"closing", "gone"} /\ conn = "WebsocketHandshaked" =>
           io \in {"handshaked", "login"}

\* Steps that leave callers and websocket alone keep it unless they connect ...
LEMMA StoppingKept ==
    ASSUME StoppingInv,
           UNCHANGED <<at, websocket, runDaemon>>,
           conn' = "WebsocketHandshaked" => conn = "WebsocketHandshaked" \/ io' = "handshaked",
           websocket \in {"closing", "gone"} /\ io \in {"handshaked", "login"} =>
               io' \in {"handshaked", "login"} \/ conn' # "WebsocketHandshaked"
    PROVE  StoppingInv'
  BY DEF StoppingInv

\* ... and so do what the io thread, the daemons and the network do.
LEMMA StoppingOthers ==
    ASSUME StoppingInv,
           \/ IoStep \/ DaemonStep \/ SenderStep
           \/ (LoseLink /\ UNCHANGED streamerVars) \/ UNCHANGED vars
    PROVE  StoppingInv'
<1> USE DEF streamerVars, daemonVars, callerVars, flagVars, connVars, sessionVars, IoAt
<1>1. CASE SessionHandlers /\ UNCHANGED streamerVars
  <2>1. CASE OnResolve \/ OnConnect \/ OnSSLHandshake \/ WebsocketIsRefused
    BY <1>1, <2>1, StoppingKept DEF OnResolve, OnConnect, OnSSLHandshake,
       WebsocketIsRefused, HandshakeStep, Advance, Retry, AdvanceWithoutStream, Crash
  <2>2. CASE OnReceiveLoop
    BY <1>1, <2>2, StoppingKept DEF OnReceiveLoop, ReceiveLoopFails, ReceiveLoopReadsOn,
       ReceiveLoopDisconnected, ReceiveLoopStopping, ReceiveLoopStopped,
       ReceivedWithoutStream, Crash
  <2>3. CASE OnClose \/ ClosedWithoutStream \/ DrainOnClose
    BY <1>1, <2>3, StoppingKept DEF OnClose, ClosedWithoutStream, DrainOnClose, Crash
  <2>4. CASE AsyncReconnect(FlagsInUse)
    BY <1>1, <2>4, StoppingKept DEF AsyncReconnect, ReconnectDisconnects, ReconnectCloses,
       ReconnectConnects, Disconnect, CloseStream, AsyncConnect
  <2> QED
    BY <1>1, <2>1, <2>2, <2>3, <2>4 DEF SessionHandlers
<1>2. CASE Handshake
  BY <1>2, StoppingKept DEF Handshake, WebsocketIsUp
<1>3. CASE OnWebsocketUp \/ SendLogin
  BY <1>3, StoppingKept DEF OnWebsocketUp, SendLogin, NoWebsocket, Crash, AsyncSend
<1>4. CASE ReadLogin \/ RestoreSubscription
  BY <1>4, StoppingKept DEF ReadLogin, NoWebsocket, Crash, AsyncReceive, RestoreSubscription
<1>5. CASE LoginAnswered \/ LoginAnswerEmpty
  BY <1>5, StoppingKept DEF LoginAnswered, OnReadError, OnReadData, LoginAnswerEmpty, Crash
<1>6. CASE LoginAccepted \/ LoginStartsLoop \/ RecheckLogin
  BY <1>6, StoppingKept DEF LoginAccepted, LoginStartsLoop, NoWebsocket, Crash,
     SetReceiverFlag, MarkLoop, LaunchLoop, RecheckLogin
<1>7. CASE DaemonStep
  BY <1>7, StoppingKept DEF DaemonStep, DaemonTakes, DaemonHandsOver, DaemonRests,
     NoWebsocket, Crash, AsyncSend
<1>8. CASE SenderStep
  BY <1>8, StoppingKept DEF SenderStep, SenderTakes, SenderRests, SenderExits,
     SenderCrashes, SenderWrites, Crash
<1>9. CASE (LoseLink /\ UNCHANGED streamerVars) \/ UNCHANGED vars
  BY <1>9, StoppingKept DEF LoseLink, vars
<1> QED
  BY <1>1, <1>2, <1>3, <1>4, <1>5, <1>6, <1>7, <1>8, <1>9 DEF IoStep

\* Callers stop one after the other, and the one that finds the pointer set is the last.
LEMMA StoppingCallers ==
    ASSUME Types, OneCloser, StoppingInv, NEW c \in Callers, CallerStep(c)
    PROVE  StoppingInv'
<1> USE DEF CallerAt, GoTo, streamerVars, daemonVars, sessionVars, connVars, flagVars, Closers
<1>0. at \in [Callers -> AtPlaces]
  BY DEF Types, StreamerTypes
<1>1. CASE Start(c)
  BY <1>1 DEF Start, AsyncConnect, StoppingInv
<1>2. CASE StartAgain(c) \/ RecordRaces(c)
  BY <1>2, StoppingKept DEF StartAgain, RecordRaces, Crash, callerVars
<1>3. ASSUME at[c] \notin {"reset"} \cup Closers,
             UNCHANGED <<websocket, runDaemon, conn>>,
             \A d \in Callers : d # c => at'[d] = at[d],
             io' = io
      PROVE  StoppingInv'
  BY <1>3 DEF StoppingInv
<1>4. CASE Record(c) \/ AsyncRequest(c) \/ Pause(c)
  BY <1>0, <1>3, <1>4 DEF Record, AsyncRequest, Pause, PauseState, PauseLoop, NoWebsocket,
     Crash, StopReceiverLoop, callerVars
<1>5. CASE Resume(c)
  BY <1>0, <1>3, <1>5 DEF Resume, ResumeBegins, ResumeLoop, ResumeCrashes, ResumeState,
     NoWebsocket, Crash, SetReceiverFlag, MarkLoop, LaunchLoop, callerVars
<1>6. CASE Stop(c)
  <2>1. at[c] = "idle" /\ at'[c] = "reset" /\ websocket' = websocket
    BY <1>0, <1>6 DEF Stop
  <2>2. \A d \in Callers : d # c => at'[d] = at[d]
    BY <1>0, <1>6 DEF Stop
  <2> QED
    BY <1>6, <2>1, <2>2 DEF Stop, StoppingInv
<1>7. CASE ResetWebsocket(c)
  <2>1. CASE websocket = "live"
    BY <1>0, <1>7, <2>1 DEF ResetWebsocket, Disconnect, StoppingInv
  <2>2. CASE websocket # "live"
    <3>1. UNCHANGED <<websocket, conn, io>> /\ \A d \in Callers : d # c => at'[d] = at[d]
      BY <1>0, <1>7, <2>2 DEF ResetWebsocket
    <3> QED
      BY <1>7, <2>2, <3>1 DEF ResetWebsocket, StoppingInv
  <2> QED
    BY <2>1, <2>2
<1>8. CASE ShutdownCloses(c)
  <2>1. at[c] = "closeStream" /\ at'[c] = "joinIo" /\ UNCHANGED <<websocket, runDaemon, conn, io>>
    BY <1>0, <1>8 DEF ShutdownCloses, CloseStream
  <2>2. \A d \in Callers : d # c => at'[d] = at[d]
    BY <1>0, <1>8 DEF ShutdownCloses
  <2> QED
    BY <2>1, <2>2 DEF StoppingInv
<1>9. CASE JoinIo(c)
  <2>1. websocket = "closing" /\ websocket' = "gone" /\ io = "idle" /\ conn' = conn
    BY <1>9 DEF JoinIo, OneCloser, IoAt
  <2> QED
    BY <2>1 DEF StoppingInv
<1> QED
  BY <1>1, <1>2, <1>4, <1>5, <1>6, <1>7, <1>8, <1>9 DEF CallerStep

\* In every state.
LEMMA StoppingAlways == Spec => []StoppingInv
<1>1. Init => StoppingInv
  BY DEF Init, StoppingInv
<1>2. Types /\ StopInv /\ StoppingInv /\ [Next]_vars => StoppingInv'
  BY StoppingOthers, StoppingCallers DEF Next, StopInv
<1> QED
  BY <1>1, <1>2, TypesAlways, StopInvariant, PTL DEF Spec

\* Until somebody pauses it, and also after it was stopped, a streamer that is active and
\* at rest has its loop read in flight: no lost connection goes unnoticed.
THEOREM ActiveReads == Spec => [](pauses = 0 => ActiveIsReading)
<1>1. Types /\ ReadingInv /\ StoppingInv => (pauses = 0 => ActiveIsReading)
  <2> SUFFICES ASSUME Types, ReadingInv, StoppingInv, pauses = 0, state = "Active",
                      Settled, CallersIdle
               PROVE  ops[<<"loop", "live">>] = 1
    BY DEF ActiveIsReading
  <2>1. websocket \in {"none", "live", "closing", "gone"}
    BY DEF Types, StreamerTypes
  <2>2. Undisturbed
    BY <2>1 DEF StoppingInv, Undisturbed, CallersIdle, Settled, Closers
  <2>3. Orderly /\ Phase
    BY <2>2 DEF ReadingInv, Orderly, Settled
  <2>4. Receiving /\ io = "idle"
    BY <2>3 DEF Phase, Handshaking, LoggingIn, Reconnecting, Settled
  <2>5. Only(ops, "loop")
    BY <2>4 DEF Receiving
  <2> QED
    BY <2>5 DEF Only, Op, Life
<1> QED
  BY <1>1, TypesAlways, ReadingAlways, StoppingAlways, PTL

\* Until somebody pauses or stops it, the receiver loop hands on no bytes of another
\* message: not of a login response, which the callback has always left in the buffer
\* when it starts the loop, nor of what a lost connection cut short.
THEOREM MessagesApart == Spec => [](Undisturbed => NothingGlued)
<1>1. Types /\ Untouched /\ ReadingInv => (Undisturbed => NothingGlued)
  BY DEF ReadingInv, Orderly, Unglued, Starting, NothingGlued
<1> QED
  BY <1>1, TypesAlways, ReadingAlways, PTL
=============================================================================
