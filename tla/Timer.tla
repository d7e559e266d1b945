-------------------------------- MODULE Timer --------------------------------
(***************************************************************************)
(* utils/timer.h: a thread that calls a callback periodically, or once.    *)
(* The owner calls start, runOnce and stop, one call at a time; the        *)
(* callback itself may call back into the timer.  Every launch has a       *)
(* thread of its own, and m_timerThread refers to the last one.            *)
(*                                                                         *)
(* Nobody but a timer thread holds the mutex from one step to the next, so *)
(* whether it is held follows from where the threads are.                  *)
(***************************************************************************)
EXTENDS Naturals

CONSTANTS
    MaxLaunches,         \* bound: threads launched
    MayReenter           \* the callback may call stop or start

ASSUME TimerAssumption == MaxLaunches \in Nat /\ MayReenter \in BOOLEAN

VARIABLES
    active,              \* m_active
    thread,              \* the launch m_timerThread is joinable with, 0 for none
    owner,               \* where the owner is
    wanted,              \* what the owner launches after it has stopped
    launched,            \* launches so far
    mode,                \* of each launch: how it calls the callback
    at,                  \* where the thread of each launch is
    died                 \* why std::terminate was called

vars == <<active, thread, owner, wanted, launched, mode, at, died>>

Launches == 1..MaxLaunches

\* start, start with fireOnStart, runOnce.
Modes == {"periodic", "onStart", "once"}

\* "unlocked" is past the test of m_active and about to call back; "call" calls
\* back without the mutex and "callHeld" with it; "sleepy" has found the wait's
\* predicate false and holds the mutex; "stuck" locks a mutex it already holds.
Places == {"none", "begin", "unlocked", "call", "relock", "sleepy", "wait",
           "woken", "expired", "callHeld", "stuck", "exited"}

TypeOK ==
    /\ active \in BOOLEAN
    /\ thread \in 0..MaxLaunches
    /\ owner \in {"idle", "stop", "notify", "join", "launch"}
    /\ wanted \in Modes \cup {"nothing"}
    /\ launched \in 0..MaxLaunches
    /\ mode \in [Launches -> Modes]
    /\ at \in [Launches -> Places]
    /\ \A t \in Launches : at[t] = "none" <=> t > launched
    /\ owner = "idle" => wanted = "nothing"
    /\ died \in {"no", "joinable", "self_join"}

Init ==
    /\ active = FALSE
    /\ thread = 0
    /\ owner = "idle" /\ wanted = "nothing"
    /\ launched = 0
    /\ mode = [t \in Launches |-> "periodic"]
    /\ at = [t \in Launches |-> "none"]
    /\ died = "no"

MutexFreeOfStop ==                              \* mutant: joined with the mutex held
    /\ owner \notin {"notify", "join"}
    /\ \A t \in Launches : at[t] \notin {"sleepy", "callHeld", "stuck"}

MutexFree == \A t \in Launches : at[t] \notin {"sleepy", "callHeld", "stuck"}

OwnerAt(place)     == died = "no" /\ owner = place
ThreadAt(t, place) == died = "no" /\ at[t] = place

Goes(t, place) ==
    /\ at' = [at EXCEPT ![t] = place]
    /\ UNCHANGED <<active, thread, owner, wanted, launched, mode, died>>

-----------------------------------------------------------------------------
(***************************************************************************)
(* start and runOnce.  Assigning to a thread object that is still joinable *)
(* calls std::terminate.                                                   *)
(***************************************************************************)
LaunchThread(m) ==
    /\ launched < MaxLaunches
    /\ active' = TRUE
    /\ IF thread # 0
       THEN died' = "joinable" /\ UNCHANGED <<thread, launched, mode, at>>
       ELSE /\ launched' = launched + 1
            /\ thread' = launched + 1
            /\ mode' = [mode EXCEPT ![launched + 1] = m]
            /\ at' = [at EXCEPT ![launched + 1] = "begin"]
            /\ UNCHANGED died
    /\ owner' = "idle"
    /\ wanted' = "nothing"

\* Not active: the mutex is held until the thread object is assigned.
StartFresh(m) ==
    /\ OwnerAt("idle")
    /\ MutexFree
    /\ ~active
    /\ LaunchThread(m)

\* Active: stop first, the mutex released.
StartOver(m) ==
    /\ OwnerAt("idle")
    /\ MutexFree
    /\ active
    /\ launched < MaxLaunches
    /\ owner' = "stop"
    /\ wanted' = m
    /\ UNCHANGED <<active, thread, launched, mode, at, died>>

\* The rest of it, without the mutex.
LaunchAfterStop ==
    /\ OwnerAt("launch")
    /\ LaunchThread(wanted)

-----------------------------------------------------------------------------
(***************************************************************************)
(* stop                                                                    *)
(***************************************************************************)
StopCalled ==
    /\ OwnerAt("idle")
    /\ owner' = "stop"
    /\ UNCHANGED <<active, thread, wanted, launched, mode, at, died>>

ClearActiveUnlocked ==                          \* mutant: mutex not taken
    /\ OwnerAt("stop")
    /\ active' = FALSE
    /\ owner' = "notify"
    /\ UNCHANGED <<thread, wanted, launched, mode, at, died>>

ClearActive ==
    /\ OwnerAt("stop")
    /\ MutexFree
    /\ active' = FALSE
    /\ owner' = "notify"
    /\ UNCHANGED <<thread, wanted, launched, mode, at, died>>

NotifyAll ==
    /\ OwnerAt("notify")
    /\ at' = [t \in Launches |-> IF at[t] = "wait" THEN "woken" ELSE at[t]]
    /\ owner' = "join"
    /\ UNCHANGED <<active, thread, wanted, launched, mode, died>>

JoinWithoutLaunch ==                            \* mutant: start only stops
    /\ OwnerAt("join")
    /\ thread # 0 => at[thread] = "exited"
    /\ thread' = 0
    /\ owner' = "idle"
    /\ UNCHANGED <<active, wanted, launched, mode, at, died>>

JoinThread ==
    /\ OwnerAt("join")
    /\ thread # 0 => at[thread] = "exited"
    /\ thread' = 0
    /\ owner' = IF wanted = "nothing" THEN "idle" ELSE "launch"
    /\ UNCHANGED <<active, wanted, launched, mode, at, died>>

-----------------------------------------------------------------------------
(***************************************************************************)
(* The thread of a launch                                                  *)
(***************************************************************************)
\* runOnce waits at once; start looks at m_active before each round.
FirstPlace(t) ==
    IF ~active THEN "exited"
    ELSE IF mode[t] = "once" THEN "sleepy" ELSE "unlocked"

Begin(t) ==
    /\ ThreadAt(t, "begin")
    /\ MutexFree
    /\ Goes(t, FirstPlace(t))

CallUnlocked(t) ==
    /\ ThreadAt(t, "unlocked")
    /\ Goes(t, IF mode[t] = "onStart" THEN "call" ELSE "relock")

\* wait_for: look at the predicate first, and after each wakeup; a spurious one
\* is like any other.
LookAtActive(t) ==
    /\ ThreadAt(t, "relock") \/ ThreadAt(t, "woken")
    /\ MutexFree
    /\ Goes(t, IF active THEN "sleepy" ELSE "exited")

Sleep(t) == ThreadAt(t, "sleepy") /\ Goes(t, "wait")

WakeSpuriously(t) == ThreadAt(t, "wait") /\ Goes(t, "woken")

Expire(t) == ThreadAt(t, "wait") /\ Goes(t, "expired")

AfterIntervalUnchecked(t) ==                    \* mutant: predicate not looked at
    /\ ThreadAt(t, "expired")
    /\ MutexFree
    /\ Goes(t, IF mode[t] = "onStart" THEN "unlocked" ELSE "callHeld")

\* The interval is over, and the predicate is looked at once more.
AfterInterval(t) ==
    /\ ThreadAt(t, "expired")
    /\ MutexFree
    /\ Goes(t, IF ~active THEN "exited"
               ELSE IF mode[t] = "onStart" THEN "unlocked" ELSE "callHeld")

OnceDeactivates(t) ==                           \* mutant: runOnce cleans up after itself
    \/ ThreadAt(t, "call") /\ Goes(t, "relock")
    \/ /\ ThreadAt(t, "callHeld")
       /\ at' = [at EXCEPT ![t] = IF mode[t] = "once" THEN "exited" ELSE "unlocked"]
       /\ active' = IF mode[t] = "once" THEN FALSE ELSE active
       /\ UNCHANGED <<thread, owner, wanted, launched, mode, died>>

\* With the mutex held since the interval was over, m_active is still set.
CallbackReturns(t) ==
    \/ ThreadAt(t, "call") /\ Goes(t, "relock")
    \/ ThreadAt(t, "callHeld") /\ Goes(t, IF mode[t] = "once" THEN "exited" ELSE "unlocked")

\* The callback calls start or stop: it locks the mutex it holds, or joins the
\* thread it runs on.
Reenter(t) ==
    /\ MayReenter
    /\ \/ ThreadAt(t, "callHeld") /\ Goes(t, "stuck")
       \/ /\ ThreadAt(t, "call")
          /\ MutexFree
          /\ died' = "self_join"
          /\ UNCHANGED <<active, thread, owner, wanted, launched, mode, at>>

-----------------------------------------------------------------------------
OwnerCalls == StopCalled \/ \E m \in Modes : StartFresh(m) \/ StartOver(m)

OwnerProceeds == NotifyAll \/ JoinThread \/ LaunchAfterStop

ThreadStep(t) ==
    \/ Begin(t) \/ CallUnlocked(t) \/ LookAtActive(t) \/ Sleep(t) \/ Expire(t)
    \/ AfterInterval(t) \/ CallbackReturns(t)

Next ==
    \/ OwnerCalls \/ ClearActive \/ OwnerProceeds
    \/ \E t \in Launches : ThreadStep(t) \/ WakeSpuriously(t) \/ Reenter(t)

Spec == Init /\ [][Next]_vars

\* The thread sleeps a whole interval with the mutex free: whoever waits for the
\* mutex gets it.  The callback returns.
Fairness ==
    /\ \A t \in Launches : WF_vars(ThreadStep(t))
    /\ WF_vars(OwnerProceeds)
    /\ SF_vars(ClearActive)

FairSpec == Spec /\ Fairness

-----------------------------------------------------------------------------
(***************************************************************************)
(* Properties                                                              *)
(***************************************************************************)
\* m_active is all start looks at to know whether the thread object is joinable;
\* a thread that has ended by itself, after runOnce, must not lead it astray.
NeverReplacesJoinable == died # "joinable"

\* stop never waits for an interval to elapse: once it has notified, no thread is
\* asleep.
StopIsPrompt == owner = "join" => \A t \in Launches : at[t] # "wait"

\* The launch whose callback runs, and how many it may still begin.
Calling(t) == at[t] \in {"call", "callHeld", "stuck"}
Running ==
    IF \E t \in Launches : Calling(t) THEN CHOOSE t \in Launches : Calling(t) ELSE 0

BeforeItsCall == {"begin", "sleepy", "wait", "woken", "expired"}
Credit ==
    IF thread = 0 THEN "none"
    ELSE IF ~active THEN IF at[thread] = "unlocked" /\ mode[thread] = "onStart"
                         THEN "one" ELSE "none"
    ELSE IF mode[thread] # "once" THEN "many"
    ELSE IF at[thread] \in BeforeItsCall THEN "one" ELSE "none"

Promise == INSTANCE TimerPromise WITH current <- thread, running <- Running, credit <- Credit

\* One callback at a time, of the launch in force, at most one more once stop has
\* asked, none once it has returned, one in all after runOnce.
KeepsPromise == Promise!Spec

\* stop returns if the callback does, unless the callback called it.
StopReturns ==
    owner = "stop" ~> owner = "idle" \/ died # "no" \/ \E t \in Launches : at[t] = "stuck"
=============================================================================
