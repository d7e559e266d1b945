---------------------------- MODULE SenderDaemon ----------------------------
(***************************************************************************)
(* The sending pattern the library uses twice, in the same words:          *)
(*                                                                         *)
(*                      Streamer             WebsocketSession              *)
(*   enqueue            asyncRequest         asyncSend                     *)
(*   daemon thread      sendRequests         sendMessages                  *)
(*   run flag           RunRequestDaemon     RunSenderDaemon               *)
(*   ready state        Active               WebsocketHandshaked           *)
(*   Open               login, resume        onWebsocketHandshake          *)
(*   Close              pause, reconnected   -                             *)
(*   Stop               stop                 asyncDisconnect               *)
(*   Launch             start (once)         asyncConnect (per connection) *)
(*                                                                         *)
(* Two mutexes guard the queue and the flags; a condition variable wakes   *)
(* the daemon.  Only the daemon holds a mutex from one step to the next,   *)
(* so which mutexes are held follows from where the daemon is.             *)
(***************************************************************************)
EXTENDS Naturals, Sequences

CONSTANTS
    Producers,       \* threads that call asyncRequest / asyncSend
    Controllers,     \* threads that change the state (application, io thread)
    MaxPush,         \* bound: requests per producer
    MaxLaunch        \* bound: times the daemon is launched

ASSUME SenderDaemonAssumption ==
    /\ MaxPush \in Nat
    /\ MaxLaunch \in Nat

VARIABLES
    queue,           \* m_requestQueue, m_messageQueue
    notEmpty,        \* the flag RequestQueueNotEmpty, MessageQueueNotEmpty
    run,             \* the flag RunRequestDaemon, RunSenderDaemon
    ready,           \* state = Active, state = WebsocketHandshaked
    daemon,          \* where the daemon thread is
    payload,         \* the request popped and not yet handed over, if any
    producer,        \* where each producer is inside asyncRequest
    controller,      \* where each controller is
    pushed,          \* history: requests enqueued by each producer
    handed,          \* history: requests handed over, oldest first
    late,            \* history: requests handed over since ready was cleared
    stopping,        \* history: stop was requested since the last launch
    launches,        \* history: launches so far
    torn             \* history: an update of the flags was lost at a launch

vars == <<queue, notEmpty, run, ready, daemon, payload, producer, controller,
          pushed, handed, late, stopping, launches, torn>>

Item == [from : Producers, seq : 1..MaxPush]

(***************************************************************************)
(* Where the daemon can be.  "none": no thread to join.  "lockQ" holds the *)
(* state mutex and wants the queue's; "relockS" the other way round.       *)
(***************************************************************************)
DaemonAt == {"none", "start", "waiting", "woken", "top", "lockQ", "drain",
             "pop", "send", "relockQ", "relockS", "exited"}

StateLocked == daemon \in {"top", "lockQ", "drain"}
QueueLocked == daemon \in {"drain", "pop", "relockS"}
Joinable    == daemon # "none"

TypeOK ==
    /\ queue \in Seq(Item)
    /\ notEmpty \in BOOLEAN
    /\ run \in BOOLEAN
    /\ ready \in BOOLEAN
    /\ daemon \in DaemonAt
    /\ payload \in Seq(Item)
    /\ daemon # "send" => payload = <<>>
    /\ producer \in [Producers -> {"idle", "flag", "notify"}]
    /\ controller \in [Controllers -> {"idle", "notify"}]
    /\ pushed \in [Producers -> 0..MaxPush]
    /\ handed \in Seq(Item)
    /\ late \in Nat
    /\ stopping \in BOOLEAN
    /\ launches \in Nat
    /\ torn \in BOOLEAN

Init ==
    /\ queue = <<>>
    /\ notEmpty = FALSE
    /\ run = FALSE
    /\ ready = FALSE
    /\ daemon = "none"
    /\ payload = <<>>
    /\ producer = [p \in Producers |-> "idle"]
    /\ controller = [c \in Controllers |-> "idle"]
    /\ pushed = [p \in Producers |-> 0]
    /\ handed = <<>>
    /\ late = 0
    /\ stopping = FALSE
    /\ launches = 0
    /\ torn = FALSE

(***************************************************************************)
(* CVState::shouldWakeSender, and notify_one / notify_all: the daemon is   *)
(* the only thread that ever waits.                                        *)
(***************************************************************************)
ShouldWakeOnlyToSend == ready /\ notEmpty       \* mutant: no wakeup to stop

ShouldWake == (ready /\ notEmpty) \/ ~run

WakeDaemon == daemon' = IF daemon = "waiting" THEN "woken" ELSE daemon

-----------------------------------------------------------------------------
(***************************************************************************)
(* Producers: asyncRequest / asyncSend, three separately locked steps.     *)
(***************************************************************************)
Push(p) ==
    /\ producer[p] = "idle"
    /\ pushed[p] < MaxPush
    /\ ~QueueLocked
    /\ queue' = Append(queue, [from |-> p, seq |-> pushed[p] + 1])
    /\ pushed' = [pushed EXCEPT ![p] = @ + 1]
    /\ producer' = [producer EXCEPT ![p] = "flag"]
    /\ UNCHANGED <<notEmpty, run, ready, daemon, payload, controller, handed,
                   late, stopping, launches, torn>>

SetNotEmptyWithoutNotify(p) ==                  \* mutant: notify forgotten
    /\ producer[p] = "flag"
    /\ ~StateLocked
    /\ notEmpty' = TRUE
    /\ producer' = [producer EXCEPT ![p] = "idle"]
    /\ UNCHANGED <<queue, run, ready, daemon, payload, controller, pushed,
                   handed, late, stopping, launches, torn>>

SetNotEmpty(p) ==
    /\ producer[p] = "flag"
    /\ ~StateLocked
    /\ notEmpty' = TRUE
    /\ producer' = [producer EXCEPT ![p] = "notify"]
    /\ UNCHANGED <<queue, run, ready, daemon, payload, controller, pushed,
                   handed, late, stopping, launches, torn>>

NotifyOne(p) ==
    /\ producer[p] = "notify"
    /\ WakeDaemon
    /\ producer' = [producer EXCEPT ![p] = "idle"]
    /\ UNCHANGED <<queue, notEmpty, run, ready, payload, controller, pushed,
                   handed, late, stopping, launches, torn>>

-----------------------------------------------------------------------------
(***************************************************************************)
(* Controllers: the threads that make the daemon's state ready or not.     *)
(***************************************************************************)
OpenWithoutNotify(c) ==                         \* mutant: notify forgotten
    /\ controller[c] = "idle"
    /\ ~StateLocked
    /\ ready' = TRUE
    /\ late' = 0
    /\ UNCHANGED <<queue, notEmpty, run, daemon, payload, producer, controller,
                   pushed, handed, stopping, launches, torn>>

Open(c) ==
    /\ controller[c] = "idle"
    /\ ~StateLocked
    /\ ready' = TRUE
    /\ late' = 0
    /\ controller' = [controller EXCEPT ![c] = "notify"]
    /\ UNCHANGED <<queue, notEmpty, run, daemon, payload, producer, pushed,
                   handed, stopping, launches, torn>>

\* Nobody is notified: a daemon that is sending looks at the state by itself.
Close(c) ==
    /\ controller[c] = "idle"
    /\ ~StateLocked
    /\ ready' = FALSE
    /\ late' = IF ready THEN 0 ELSE late
    /\ UNCHANGED <<queue, notEmpty, run, daemon, payload, producer, controller,
                   pushed, handed, stopping, launches, torn>>

Stop(c) ==
    /\ controller[c] = "idle"
    /\ ~StateLocked
    /\ ready' = FALSE
    /\ run' = FALSE
    /\ late' = IF ready THEN 0 ELSE late
    /\ stopping' = TRUE
    /\ controller' = [controller EXCEPT ![c] = IF Joinable THEN "notify" ELSE @]
    /\ UNCHANGED <<queue, notEmpty, daemon, payload, producer, pushed, handed,
                   launches, torn>>

NotifyAll(c) ==
    /\ controller[c] = "notify"
    /\ WakeDaemon
    /\ controller' = [controller EXCEPT ![c] = "idle"]
    /\ UNCHANGED <<queue, notEmpty, run, ready, payload, producer, pushed,
                   handed, late, stopping, launches, torn>>

-----------------------------------------------------------------------------
(***************************************************************************)
(* Launching sets the run flag WITHOUT the state mutex, then starts the    *)
(* thread.  A producer's locked update of the same byte can overlap it, in *)
(* which case either update can be lost.  On the first launch nobody else  *)
(* calls yet; when a session reconnects, the request daemon does.          *)
(***************************************************************************)
LaunchThread ==
    /\ daemon = "none"
    /\ launches < MaxLaunch
    /\ launches' = launches + 1
    /\ stopping' = FALSE
    /\ daemon' = "start"
    /\ UNCHANGED <<queue, ready, payload, controller, pushed, handed, late>>

Launch ==
    /\ LaunchThread
    /\ run' = TRUE
    /\ UNCHANGED <<notEmpty, producer, torn>>

LaunchTorn(p) ==
    /\ launches > 0
    /\ producer[p] = "flag"
    /\ LaunchThread
    /\ \/ run' = TRUE /\ UNCHANGED notEmpty     \* the producer's update is lost
       \/ notEmpty' = TRUE /\ UNCHANGED run     \* the launcher's update is lost
    /\ producer' = [producer EXCEPT ![p] = "notify"]
    /\ torn' = TRUE

\* The thread object is joined before the next launch (asyncReconnect) or at
\* the end (the destructors).
Join ==
    /\ daemon = "exited"
    /\ daemon' = "none"
    /\ UNCHANGED <<queue, notEmpty, run, ready, payload, producer, controller,
                   pushed, handed, late, stopping, launches, torn>>

-----------------------------------------------------------------------------
(***************************************************************************)
(* The daemon: sendRequests / sendMessages.                                *)
(***************************************************************************)
\* Takes or keeps the state mutex, tests the run flag and the wait predicate.
Check ==
    /\ daemon \in {"start", "woken", "top"}
    /\ daemon' = IF ~ShouldWake THEN "waiting"
                 ELSE IF ~run THEN "exited"
                 ELSE "lockQ"
    /\ UNCHANGED <<queue, notEmpty, run, ready, payload, producer, controller,
                   pushed, handed, late, stopping, launches, torn>>

LockQueue ==
    /\ daemon = "lockQ"
    /\ daemon' = "drain"
    /\ UNCHANGED <<queue, notEmpty, run, ready, payload, producer, controller,
                   pushed, handed, late, stopping, launches, torn>>

\* The inner loop's condition, with both mutexes held.
MaySendUnchecked == queue # <<>>                \* mutant: state not rechecked

MaySend == queue # <<>> /\ ready

\* The state mutex is released before the pop, the queue's after it.
UnlockState ==
    /\ daemon = "drain"
    /\ MaySend
    /\ daemon' = "pop"
    /\ UNCHANGED <<queue, notEmpty, run, ready, payload, producer, controller,
                   pushed, handed, late, stopping, launches, torn>>

PopWithoutRemoving ==                           \* mutant: front() without pop()
    /\ daemon = "pop"
    /\ payload' = <<Head(queue)>>
    /\ daemon' = "send"
    /\ UNCHANGED <<queue, notEmpty, run, ready, producer, controller, pushed,
                   handed, late, stopping, launches, torn>>

Pop ==
    /\ daemon = "pop"
    /\ payload' = <<Head(queue)>>
    /\ queue' = Tail(queue)
    /\ daemon' = "send"
    /\ UNCHANGED <<notEmpty, run, ready, producer, controller, pushed, handed,
                   late, stopping, launches, torn>>

HandOverKeepingIt ==                            \* mutant: still in hand
    /\ daemon = "send"
    /\ handed' = handed \o payload
    /\ late' = IF ready THEN 0 ELSE late + 1
    /\ daemon' = "relockQ"
    /\ UNCHANGED <<queue, notEmpty, run, ready, payload, producer, controller,
                   pushed, stopping, launches, torn>>

HandOver ==
    /\ daemon = "send"
    /\ handed' = handed \o payload
    /\ payload' = <<>>
    /\ late' = IF ready THEN 0 ELSE late + 1
    /\ daemon' = "relockQ"
    /\ UNCHANGED <<queue, notEmpty, run, ready, producer, controller, pushed,
                   stopping, launches, torn>>

Relock ==
    /\ daemon \in {"relockQ", "relockS"}
    /\ daemon' = IF daemon = "relockQ" THEN "relockS" ELSE "drain"
    /\ UNCHANGED <<queue, notEmpty, run, ready, payload, producer, controller,
                   pushed, handed, late, stopping, launches, torn>>

DrainedAlwaysClears ==                          \* mutant: flag cleared anyway
    /\ daemon = "drain"
    /\ ~MaySend
    /\ notEmpty' = FALSE
    /\ daemon' = "top"
    /\ UNCHANGED <<queue, run, ready, payload, producer, controller, pushed,
                   handed, late, stopping, launches, torn>>

Drained ==
    /\ daemon = "drain"
    /\ ~MaySend
    /\ notEmpty' = (notEmpty /\ queue # <<>>)
    /\ daemon' = "top"
    /\ UNCHANGED <<queue, run, ready, payload, producer, controller, pushed,
                   handed, late, stopping, launches, torn>>

\* std::condition_variable may wake a waiter that nobody notified.
SpuriousWake ==
    /\ daemon = "waiting"
    /\ daemon' = "woken"
    /\ UNCHANGED <<queue, notEmpty, run, ready, payload, producer, controller,
                   pushed, handed, late, stopping, launches, torn>>

-----------------------------------------------------------------------------
DaemonStep == \/ Check \/ LockQueue \/ UnlockState \/ Pop \/ HandOver
              \/ Relock \/ Drained

Next ==
    \/ \E p \in Producers : Push(p) \/ SetNotEmpty(p) \/ NotifyOne(p) \/ LaunchTorn(p)
    \/ \E c \in Controllers : Open(c) \/ Close(c) \/ Stop(c) \/ NotifyAll(c)
    \/ Launch \/ Join \/ SpuriousWake
    \/ DaemonStep

Spec == Init /\ [][Next]_vars

(***************************************************************************)
(* Fairness: a thread inside asyncRequest or about to notify, and the      *)
(* daemon itself, keep running.  Nobody is obliged to call anything.       *)
(***************************************************************************)
Fairness ==
    /\ WF_vars(DaemonStep)
    /\ \A p \in Producers : WF_vars(SetNotEmpty(p)) /\ WF_vars(NotifyOne(p))
    /\ \A c \in Controllers : WF_vars(NotifyAll(c))

FairSpec == Spec /\ Fairness

-----------------------------------------------------------------------------
(***************************************************************************)
(* Properties                                                              *)
(***************************************************************************)
SomeoneSetsFlag == \E p \in Producers : producer[p] = "flag"
SomeoneNotifies == \/ \E p \in Producers : producer[p] = "notify"
                   \/ \E c \in Controllers : controller[c] = "notify"

\* The NotEmpty flag and the queue are updated under different mutexes at
\* different times; still a queued request is never left with the flag clear
\* unless its producer is about to set it (asyncRequest, sendRequests), or a launch
\* lost a flag.
FlagCoversQueue == queue # <<>> => notEmpty \/ SomeoneSetsFlag \/ torn

\* No lost wakeup: the daemon never sleeps on the condition variable while its
\* predicate holds, unless a notification is on its way.
NoLostWakeup == daemon = "waiting" /\ ShouldWake => SomeoneNotifies

\* pause(), stop() and a disconnect take effect at once: after the state stopped
\* being ready, at most the one request already popped is still handed over.
AtMostOneLate == late <= 1

\* A daemon that was launched and not told to stop keeps its run flag: what
\* "don't need mutex here, sender not launched yet" claims of the launch.
LaunchedKeepsRunning == Joinable /\ ~stopping => run

\* The queue and the daemon together are a FIFO channel: nothing is lost,
\* duplicated or reordered between asyncRequest and the hand-over, whatever
\* pauses, stops and relaunches happen in between.
Fifo == INSTANCE FifoChannel WITH chan <- payload \o queue, out <- handed
ImplementsFifo == Fifo!Spec

\* While the state stays ready and the run flag set, the queue drains, unless a
\* launch lost a flag.
EventuallyDrained ==
    <>[](ready /\ run /\ Joinable /\ ~torn) => <>[](queue = <<>> /\ payload = <<>>)

\* A stopped daemon exits: ~Streamer and asyncReconnect join it, the latter on
\* the io thread, which would otherwise hang.
StopTerminates == stopping /\ ~run ~> daemon \in {"exited", "none"}
=============================================================================
