------------------------- MODULE SenderDaemonProofs -------------------------
(***************************************************************************)
(* What SenderDaemon.tla promises for any number of producers, controllers,*)
(* requests and launches.                                                  *)
(***************************************************************************)
EXTENDS SenderDaemon, SequenceTheorems, TLAPS

-----------------------------------------------------------------------------
(***************************************************************************)
(* Facts about sequences                                                   *)
(***************************************************************************)
\* Appending to the second of two concatenated sequences appends to the whole.
LEMMA ConcatAppend ==
    ASSUME NEW S, NEW s \in Seq(S), NEW t \in Seq(S), NEW x \in S
    PROVE  s \o Append(t, x) = Append(s \o t, x)
<1>1. Append(t, x) = t \o <<x>> /\ <<x>> \in Seq(S)
  BY AppendIsConcat
<1>2. s \o t \in Seq(S)
  BY ConcatProperties
<1>3. Append(s \o t, x) = (s \o t) \o <<x>>
  BY <1>2, AppendIsConcat
<1> QED
  BY <1>1, <1>3, ConcatAssociative

\* A non-empty sequence is its head followed by its tail.
LEMMA HeadThenTail ==
    ASSUME NEW S, NEW t \in Seq(S), t # <<>>
    PROVE  /\ Head(t) \in S
           /\ Tail(t) \in Seq(S)
           /\ <<Head(t)>> \o Tail(t) = t
  BY HeadTailProperties, ConcatProperties

\* Putting one element in front of a sequence makes it the head, and the rest
\* the tail.
LEMMA OneThenRest ==
    ASSUME NEW S, NEW x \in S, NEW t \in Seq(S)
    PROVE  /\ <<x>> \o t # <<>>
           /\ Head(<<x>> \o t) = x
           /\ Tail(<<x>> \o t) = t
  BY HeadTailProperties, ConcatProperties

-----------------------------------------------------------------------------
(***************************************************************************)
(* Type correctness.  It is inductive only together with what the daemon   *)
(* holds in hand: a pop takes the head of a queue that must not be empty,  *)
(* although the state mutex was released since the queue was looked at.    *)
(***************************************************************************)
Holding ==
    /\ daemon = "pop" => queue # <<>>
    /\ daemon = "send" => \E x \in Item : payload = <<x>>
    /\ daemon # "send" => payload = <<>>

\* What starting the daemon's thread contributes to both.
LEMMA LaunchThreadKeeps ==
    ASSUME TypeOK, Holding, LaunchThread, notEmpty' \in BOOLEAN, run' \in BOOLEAN,
           producer' \in [Producers -> {"idle", "flag", "notify"}], torn' \in BOOLEAN
    PROVE  TypeOK' /\ Holding'
<1>1. launches' \in Nat
  BY DEF LaunchThread, TypeOK
<1>2. daemon' \in DaemonAt /\ stopping' \in BOOLEAN
  BY DEF LaunchThread, DaemonAt
<1>3. UNCHANGED <<queue, payload, controller, pushed, handed, late, ready>>
  BY DEF LaunchThread
<1>4. payload' = <<>>
  BY <1>3 DEF LaunchThread, Holding
<1>5. TypeOK'
  BY <1>1, <1>2, <1>3, <1>4 DEF TypeOK
<1> QED
  BY <1>4, <1>5 DEF LaunchThread, Holding

\* Every step keeps both.
LEMMA HoldingInductive == TypeOK /\ Holding /\ [Next]_vars => TypeOK' /\ Holding'
<1> SUFFICES ASSUME TypeOK, Holding, [Next]_vars PROVE TypeOK' /\ Holding'
  OBVIOUS
<1> USE SenderDaemonAssumption DEF TypeOK, DaemonAt, Holding
<1>1. CASE UNCHANGED vars
  BY <1>1 DEF vars
<1>2. ASSUME NEW p \in Producers, Push(p) PROVE TypeOK' /\ Holding'
  <2>0. pushed[p] \in 0..MaxPush /\ pushed[p] < MaxPush /\ pushed \in [Producers -> 0..MaxPush]
    BY <1>2 DEF Push
  <2>1. [from |-> p, seq |-> pushed[p] + 1] \in Item
    <3> HIDE DEF TypeOK, Holding, DaemonAt
    <3> QED
      BY <2>0 DEF Item
  <2>2. queue' \in Seq(Item) /\ queue' # <<>>
    <3>1. queue \in Seq(Item) /\ queue' = Append(queue, [from |-> p, seq |-> pushed[p] + 1])
      BY <1>2 DEF Push
    <3> HIDE DEF TypeOK, Holding, DaemonAt
    <3> QED
      BY <3>1, <2>1, AppendProperties
  <2>3. pushed' \in [Producers -> 0..MaxPush]
    <3>1. pushed' = [pushed EXCEPT ![p] = @ + 1]
      BY <1>2 DEF Push
    <3> HIDE DEF TypeOK, Holding, DaemonAt
    <3> QED
      BY <2>0, <3>1
  <2>4. producer' \in [Producers -> {"idle", "flag", "notify"}]
    BY <1>2 DEF Push
  <2>5. UNCHANGED <<notEmpty, run, ready, daemon, payload, controller, handed, late,
                   stopping, launches, torn>>
    BY <1>2 DEF Push
  <2>6. TypeOK'
    BY <2>2, <2>3, <2>4, <2>5
  <2>7. Holding'
    BY <2>2, <2>5
  <2> QED
    BY <2>6, <2>7
<1>3. ASSUME NEW p \in Producers, SetNotEmpty(p) PROVE TypeOK' /\ Holding'
  BY <1>3 DEF SetNotEmpty
<1>4. ASSUME NEW p \in Producers, NotifyOne(p) PROVE TypeOK' /\ Holding'
  BY <1>4 DEF NotifyOne, WakeDaemon
<1>5. ASSUME NEW p \in Producers, LaunchTorn(p) PROVE TypeOK' /\ Holding'
  <2>1. LaunchThread /\ {notEmpty', run', torn'} \subseteq BOOLEAN
    BY <1>5 DEF LaunchTorn
  <2>2. producer' \in [Producers -> {"idle", "flag", "notify"}]
    BY <1>5 DEF LaunchTorn
  <2> QED
    BY <2>1, <2>2, LaunchThreadKeeps
<1>6. ASSUME NEW c \in Controllers, Open(c) \/ Close(c) \/ Stop(c)
      PROVE  TypeOK' /\ Holding'
  <2>1. CASE Open(c)
    BY <2>1 DEF Open
  <2>2. CASE Close(c)
    BY <2>2 DEF Close
  <2>3. CASE Stop(c)
    BY <2>3 DEF Stop
  <2> QED
    BY <1>6, <2>1, <2>2, <2>3
<1>7. ASSUME NEW c \in Controllers, NotifyAll(c) PROVE TypeOK' /\ Holding'
  BY <1>7 DEF NotifyAll, WakeDaemon
<1>8. CASE Launch \/ Join \/ SpuriousWake
  <2>1. CASE Launch
    BY <2>1, LaunchThreadKeeps DEF Launch
  <2>2. CASE Join
    BY <2>2 DEF Join
  <2>3. CASE SpuriousWake
    BY <2>3 DEF SpuriousWake
  <2> QED
    BY <1>8, <2>1, <2>2, <2>3
<1>9. CASE Check \/ LockQueue \/ Relock \/ Drained
  <2>1. CASE Check
    BY <2>1 DEF Check
  <2>2. CASE LockQueue
    BY <2>2 DEF LockQueue
  <2>3. CASE Relock
    BY <2>3 DEF Relock
  <2>4. CASE Drained
    BY <2>4 DEF Drained
  <2> QED
    BY <1>9, <2>1, <2>2, <2>3, <2>4
<1>10. CASE UnlockState
  BY <1>10 DEF UnlockState, MaySend
<1>11. CASE Pop
  <2>1. Head(queue) \in Item /\ Tail(queue) \in Seq(Item)
    BY <1>11, HeadTailProperties DEF Pop
  <2>2. <<Head(queue)>> \in Seq(Item)
    BY <2>1
  <2> QED
    BY <1>11, <2>1, <2>2 DEF Pop
<1>12. CASE HandOver
  <2>1. handed' \in Seq(Item)
    BY <1>12, ConcatProperties DEF HandOver
  <2>2. payload' \in Seq(Item)
    BY <1>12, EmptySeq DEF HandOver
  <2> QED
    BY <1>12, <2>1, <2>2 DEF HandOver
<1> QED
  BY <1>1, <1>2, <1>3, <1>4, <1>5, <1>6, <1>7, <1>8, <1>9, <1>10, <1>11, <1>12
     DEF Next, DaemonStep

\* So both hold in every state of every behaviour.
LEMMA HoldingAlways == Spec => [](TypeOK /\ Holding)
<1>1. Init => TypeOK /\ Holding
  <2> SUFFICES ASSUME Init PROVE TypeOK /\ Holding
    OBVIOUS
  <2>1. queue \in Seq(Item) /\ payload \in Seq(Item) /\ handed \in Seq(Item)
    BY EmptySeq DEF Init
  <2>2. pushed \in [Producers -> 0..MaxPush]
    BY SenderDaemonAssumption DEF Init
  <2> QED
    BY <2>1, <2>2 DEF Init, TypeOK, DaemonAt, Holding
<1> QED
  BY <1>1, HoldingInductive, PTL DEF Spec

\* Every variable keeps its type.
THEOREM TypeCorrect == Spec => []TypeOK
  BY HoldingAlways, PTL
-----------------------------------------------------------------------------
(***************************************************************************)
(* The queue and its flag                                                  *)
(***************************************************************************)
\* A queued request always has the flag set or its producer about to set it,
\* although queue and flag are under different mutexes - unless a launch's unlocked
\* update of the flags overlapped a producer's.
THEOREM FlagAlwaysCoversQueue == Spec => []FlagCoversQueue
<1>1. Init => FlagCoversQueue
  BY DEF Init, FlagCoversQueue
<1>2. TypeOK /\ Holding /\ FlagCoversQueue /\ [Next]_vars => FlagCoversQueue'
  <2> SUFFICES ASSUME TypeOK, Holding, FlagCoversQueue, [Next]_vars PROVE FlagCoversQueue'
    OBVIOUS
  <2> USE DEF TypeOK, FlagCoversQueue, SomeoneSetsFlag
  <2>1. CASE UNCHANGED vars
    BY <2>1 DEF vars
  \* The producer that pushed is the one about to set the flag.
  <2>2. ASSUME NEW p \in Producers, Push(p) PROVE FlagCoversQueue'
    BY <2>2 DEF Push
  <2>3. ASSUME NEW p \in Producers, SetNotEmpty(p) PROVE FlagCoversQueue'
    BY <2>3 DEF SetNotEmpty
  \* A producer that notifies was not the one about to set it.
  <2>4. ASSUME NEW p \in Producers, NotifyOne(p) PROVE FlagCoversQueue'
    BY <2>4 DEF NotifyOne
  <2>5. ASSUME NEW p \in Producers, LaunchTorn(p) PROVE FlagCoversQueue'
    BY <2>5 DEF LaunchTorn
  <2>6. ASSUME NEW c \in Controllers, Open(c) \/ Close(c) \/ Stop(c) \/ NotifyAll(c)
        PROVE  FlagCoversQueue'
    BY <2>6 DEF Open, Close, Stop, NotifyAll
  <2>7. CASE Launch \/ Join \/ SpuriousWake
    BY <2>7 DEF Launch, LaunchThread, Join, SpuriousWake
  <2>8. CASE Check \/ LockQueue \/ UnlockState \/ HandOver \/ Relock
    BY <2>8 DEF Check, LockQueue, UnlockState, HandOver, Relock
  \* Popping only makes the queue shorter.
  <2>9. CASE Pop
    <3>1. notEmpty \/ torn \/ \E p \in Producers : producer[p] = "flag"
      BY <2>9 DEF Pop, Holding
    <3> QED
      BY <2>9, <3>1 DEF Pop
  \* The flag is cleared with both mutexes held, and only if nothing is queued.
  <2>10. CASE Drained
    BY <2>10 DEF Drained
  <2> QED
    BY <2>1, <2>2, <2>3, <2>4, <2>5, <2>6, <2>7, <2>8, <2>9, <2>10
       DEF Next, DaemonStep
<1> QED
  BY <1>1, <1>2, HoldingAlways, PTL DEF Spec

-----------------------------------------------------------------------------
(***************************************************************************)
(* No lost wakeup                                                          *)
(***************************************************************************)
\* The daemon never sleeps while its predicate holds, unless a notification is
\* on its way: every update of what the predicate reads is followed by one.
THEOREM NeverLosesWakeup == Spec => []NoLostWakeup
<1>1. Init => NoLostWakeup
  BY DEF Init, NoLostWakeup
<1>2. TypeOK /\ NoLostWakeup /\ [Next]_vars => NoLostWakeup'
  <2> SUFFICES ASSUME TypeOK, NoLostWakeup, [Next]_vars PROVE NoLostWakeup'
    OBVIOUS
  <2> USE DEF TypeOK, NoLostWakeup, ShouldWake, SomeoneNotifies
  <2>1. CASE UNCHANGED vars
    BY <2>1 DEF vars
  <2>2. ASSUME NEW p \in Producers, Push(p) PROVE NoLostWakeup'
    BY <2>2 DEF Push
  <2>3. ASSUME NEW p \in Producers, SetNotEmpty(p) PROVE NoLostWakeup'
    BY <2>3 DEF SetNotEmpty
  <2>4. ASSUME NEW p \in Producers, NotifyOne(p) PROVE NoLostWakeup'
    BY <2>4 DEF NotifyOne, WakeDaemon
  \* The thread is just starting: it will look at the flags by itself.
  <2>5. ASSUME NEW p \in Producers, LaunchTorn(p) PROVE NoLostWakeup'
    BY <2>5 DEF LaunchTorn, LaunchThread
  <2>6. ASSUME NEW c \in Controllers, Open(c) PROVE NoLostWakeup'
    BY <2>6 DEF Open
  <2>7. ASSUME NEW c \in Controllers, Close(c) PROVE NoLostWakeup'
    BY <2>7 DEF Close
  <2>8. ASSUME NEW c \in Controllers, Stop(c) PROVE NoLostWakeup'
    BY <2>8 DEF Stop, Joinable
  <2>9. ASSUME NEW c \in Controllers, NotifyAll(c) PROVE NoLostWakeup'
    BY <2>9 DEF NotifyAll, WakeDaemon
  \* The daemon goes to sleep with the mutex held and the predicate false.
  <2>10. CASE Check
    BY <2>10 DEF Check
  <2>11. CASE Launch \/ Join \/ SpuriousWake
    BY <2>11 DEF Launch, LaunchThread, Join, SpuriousWake
  <2>12. CASE LockQueue \/ UnlockState \/ Pop \/ HandOver \/ Relock \/ Drained
    BY <2>12 DEF LockQueue, UnlockState, Pop, HandOver, Relock, Drained
  <2> QED
    BY <2>1, <2>2, <2>3, <2>4, <2>5, <2>6, <2>7, <2>8, <2>9, <2>10, <2>11, <2>12
       DEF Next, DaemonStep
<1> QED
  BY <1>1, <1>2, TypeCorrect, PTL DEF Spec

-----------------------------------------------------------------------------
(***************************************************************************)
(* At most one late request.  The strengthening says when the count can    *)
(* still grow: a request is only popped after the state was seen ready.    *)
(***************************************************************************)
LatenessInv ==
    /\ late <= 1
    /\ ready \/ daemon \in {"pop", "send"} => late = 0

\* After the state stopped being ready, at most one request is handed over.
THEOREM AtMostOneHandedOverLate == Spec => []AtMostOneLate
<1>1. Init => LatenessInv
  BY DEF Init, LatenessInv
<1>2. TypeOK /\ LatenessInv /\ [Next]_vars => LatenessInv'
  <2> SUFFICES ASSUME TypeOK, LatenessInv, [Next]_vars PROVE LatenessInv'
    OBVIOUS
  <2> USE DEF TypeOK, LatenessInv
  <2>1. CASE UNCHANGED vars
    BY <2>1 DEF vars
  <2>2. ASSUME NEW p \in Producers,
               Push(p) \/ SetNotEmpty(p) \/ NotifyOne(p) \/ LaunchTorn(p)
        PROVE  LatenessInv'
    BY <2>2 DEF Push, SetNotEmpty, NotifyOne, WakeDaemon, LaunchTorn, LaunchThread
  \* Closing starts a new count only if the state was ready.
  <2>3. ASSUME NEW c \in Controllers, Open(c) \/ Close(c) \/ Stop(c) \/ NotifyAll(c)
        PROVE  LatenessInv'
    BY <2>3 DEF Open, Close, Stop, NotifyAll, WakeDaemon
  <2>4. CASE Launch \/ Join \/ SpuriousWake
    BY <2>4 DEF Launch, LaunchThread, Join, SpuriousWake
  <2>5. CASE Check \/ LockQueue \/ Pop \/ Relock \/ Drained
    BY <2>5 DEF Check, LockQueue, Pop, Relock, Drained
  \* The state is looked at again before every pop.
  <2>6. CASE UnlockState
    BY <2>6 DEF UnlockState, MaySend
  <2>7. CASE HandOver
    BY <2>7 DEF HandOver
  <2> QED
    BY <2>1, <2>2, <2>3, <2>4, <2>5, <2>6, <2>7 DEF Next, DaemonStep
<1>3. LatenessInv => AtMostOneLate
  BY DEF LatenessInv, AtMostOneLate
<1> QED
  BY <1>1, <1>2, <1>3, TypeCorrect, PTL DEF Spec

-----------------------------------------------------------------------------
(***************************************************************************)
(* The daemon implements a FIFO channel: a push sends, a hand-over         *)
(* delivers, every other step leaves the channel alone.                    *)
(***************************************************************************)
\* A push puts its request at the end of the channel.
LEMMA PushSends ==
    ASSUME TypeOK, NEW p \in Producers, Push(p)
    PROVE  \E i \in Item : Fifo!Send(i)
<1> DEFINE i == [from |-> p, seq |-> pushed[p] + 1]
<1>1. i \in Item
  BY SenderDaemonAssumption DEF Push, Item, TypeOK
<1>2. payload \o Append(queue, i) = Append(payload \o queue, i)
  BY <1>1, ConcatAppend DEF TypeOK
<1>3. Fifo!Send(i)
  BY <1>2 DEF Push, Fifo!Send
<1> QED
  BY <1>1, <1>3

\* A pop moves the oldest request from the queue into the daemon's hand.
LEMMA PopStutters ==
    ASSUME TypeOK, Holding, Pop
    PROVE  UNCHANGED Fifo!vars
<1>1. payload = <<>> /\ queue # <<>>
  BY DEF Pop, Holding
<1>2. <<Head(queue)>> \o Tail(queue) = queue
  BY <1>1, HeadThenTail DEF TypeOK
<1>3. payload \o queue = queue
  BY <1>1, ConcatEmptySeq DEF TypeOK
<1> QED
  BY <1>2, <1>3 DEF Pop, Fifo!vars

\* A hand-over delivers the oldest request of the channel.
LEMMA HandOverDelivers ==
    ASSUME TypeOK, Holding, HandOver
    PROVE  Fifo!Deliver
<1>1. PICK x \in Item : payload = <<x>>
  BY DEF HandOver, Holding
<1>2. /\ payload \o queue # <<>>
      /\ Head(payload \o queue) = x
      /\ Tail(payload \o queue) = queue
  BY <1>1, OneThenRest DEF TypeOK
<1>3. handed \o payload = Append(handed, x)
  BY <1>1, AppendIsConcat DEF TypeOK
<1>4. <<>> \o queue = queue
  BY ConcatEmptySeq DEF TypeOK
<1> QED
  BY <1>2, <1>3, <1>4 DEF HandOver, Fifo!Deliver

\* Between asyncRequest and the hand-over nothing is lost, duplicated or
\* reordered, whatever pauses, stops and launches, torn ones included, happen in between.
THEOREM DaemonImplementsFifo == Spec => ImplementsFifo
<1>1. Init => Fifo!Init
  BY ConcatEmptySeq, EmptySeq DEF Init, Fifo!Init
<1>2. TypeOK /\ Holding /\ [Next]_vars => [Fifo!Next]_(Fifo!vars)
  <2> SUFFICES ASSUME TypeOK, Holding, [Next]_vars
               PROVE  Fifo!Next \/ UNCHANGED Fifo!vars
    OBVIOUS
  <2>1. CASE UNCHANGED vars
    BY <2>1 DEF vars, Fifo!vars
  <2>2. ASSUME NEW p \in Producers, Push(p) PROVE Fifo!Next
    BY <2>2, PushSends DEF Fifo!Next
  <2>3. ASSUME NEW p \in Producers, SetNotEmpty(p) \/ NotifyOne(p) \/ LaunchTorn(p)
        PROVE  UNCHANGED Fifo!vars
    BY <2>3 DEF SetNotEmpty, NotifyOne, LaunchTorn, LaunchThread, Fifo!vars
  <2>4. ASSUME NEW c \in Controllers, Open(c) \/ Close(c) \/ Stop(c) \/ NotifyAll(c)
        PROVE  UNCHANGED Fifo!vars
    BY <2>4 DEF Open, Close, Stop, NotifyAll, Fifo!vars
  <2>5. CASE Launch \/ Join \/ SpuriousWake
    BY <2>5 DEF Launch, LaunchThread, Join, SpuriousWake, Fifo!vars
  <2>6. CASE Check \/ LockQueue \/ UnlockState \/ Relock \/ Drained
    BY <2>6 DEF Check, LockQueue, UnlockState, Relock, Drained, Fifo!vars
  <2>7. CASE Pop
    BY <2>7, PopStutters
  <2>8. CASE HandOver
    BY <2>8, HandOverDelivers DEF Fifo!Next
  <2> QED
    BY <2>1, <2>2, <2>3, <2>4, <2>5, <2>6, <2>7, <2>8 DEF Next, DaemonStep
<1> QED
  BY <1>1, <1>2, HoldingAlways, PTL DEF Spec, ImplementsFifo, Fifo!Spec
=============================================================================
