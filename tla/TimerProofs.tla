----------------------------- MODULE TimerProofs -----------------------------
(***************************************************************************)
(* What Timer.tla keeps for any number of launches, whether or not the     *)
(* callback calls back into the timer.                                     *)
(***************************************************************************)
EXTENDS Timer, TLAPS

-----------------------------------------------------------------------------
(***************************************************************************)
(* The inductive invariant, in parts.                                      *)
(***************************************************************************)
\* Every thread but the one m_timerThread refers to has ended.
OnlyThread == \A t \in Launches : at[t] \notin {"none", "exited"} => t = thread

\* Outside of a stop, m_active and m_timerThread agree.
ActiveAgrees ==
    /\ owner \in {"idle", "stop"} => (active <=> thread # 0)
    /\ owner \in {"notify", "join", "launch"} => ~active
    /\ owner = "launch" => thread = 0 /\ launched < MaxLaunches
    /\ wanted # "nothing" => launched < MaxLaunches
    /\ owner = "launch" => wanted \in Modes
    /\ thread <= launched

\* While a timer thread holds the mutex nobody clears m_active.
HeldMeansActive ==
    \A t \in Launches : at[t] \in {"sleepy", "callHeld", "stuck"} => active

\* runOnce never calls back without the mutex, and start with fireOnStart never
\* with it.
ModeFits ==
    \A t \in Launches :
        /\ mode[t] = "once" => at[t] \notin {"unlocked", "call", "relock"}
        /\ mode[t] = "onStart" => at[t] \notin {"callHeld", "stuck"}
        /\ at[t] = "call" => mode[t] = "onStart"

IInv ==
    /\ TypeOK
    /\ NeverReplacesJoinable
    /\ StopIsPrompt
    /\ OnlyThread
    /\ ActiveAgrees
    /\ HeldMeansActive
    /\ ModeFits

\* The invariant holds before the first launch.
LEMMA IInvInit == Init => IInv
<1> SUFFICES ASSUME Init PROVE IInv
  OBVIOUS
<1> USE TimerAssumption DEF Init
<1>1. TypeOK
  <2>1. \A t \in Launches : at[t] = "none" /\ t > launched
    BY DEF Launches
  <2>2. mode \in [Launches -> Modes] /\ at \in [Launches -> Places]
    BY DEF Modes, Places
  <2>3. thread \in 0..MaxLaunches /\ launched \in 0..MaxLaunches
    OBVIOUS
  <2> QED
    BY <2>1, <2>2, <2>3 DEF TypeOK
<1>2. NeverReplacesJoinable /\ StopIsPrompt /\ ActiveAgrees
  BY DEF NeverReplacesJoinable, StopIsPrompt, ActiveAgrees
<1>3. OnlyThread /\ HeldMeansActive /\ ModeFits
  BY DEF OnlyThread, HeldMeansActive, ModeFits
<1> QED
  BY <1>1, <1>2, <1>3 DEF IInv

\* A thread step moves one thread, to a place that fits, and nothing else.
LEMMA GoesKeepsIInv ==
    ASSUME IInv, NEW t \in Launches, NEW place \in Places \ {"none"},
           at[t] \notin {"none", "exited"}, Goes(t, place),
           place = "wait" => active,
           place \in {"sleepy", "callHeld", "stuck"} => active,
           mode[t] = "once" => place \notin {"unlocked", "call", "relock"},
           mode[t] = "onStart" => place \notin {"callHeld", "stuck"},
           place = "call" => mode[t] = "onStart"
    PROVE  IInv'
<1> USE TimerAssumption DEF Goes, IInv
<1>1. TypeOK'
  BY DEF TypeOK, Launches, Places
<1>2. at' = [at EXCEPT ![t] = place] /\ at \in [Launches -> Places]
  BY DEF TypeOK
<1>3. NeverReplacesJoinable' /\ StopIsPrompt'
  BY <1>2 DEF NeverReplacesJoinable, StopIsPrompt, ActiveAgrees
<1>4. OnlyThread' /\ HeldMeansActive' /\ ModeFits'
  BY <1>2 DEF OnlyThread, HeldMeansActive, ModeFits
<1>5. ActiveAgrees'
  BY DEF ActiveAgrees
<1> QED
  BY <1>1, <1>3, <1>4, <1>5

\* Launching finds no thread to replace.
LEMMA LaunchKeepsIInv ==
    ASSUME IInv, NEW m \in Modes, thread = 0, ~active, LaunchThread(m)
    PROVE  IInv'
<1> USE TimerAssumption DEF LaunchThread, IInv
<1>1. TypeOK'
  BY DEF TypeOK, Launches, Places, Modes
<1>2. /\ launched + 1 \in Launches
      /\ thread' = launched + 1
      /\ at' = [at EXCEPT ![launched + 1] = "begin"]
      /\ mode' = [mode EXCEPT ![launched + 1] = m]
      /\ at \in [Launches -> Places] /\ mode \in [Launches -> Modes]
  BY DEF TypeOK, Launches
<1>3. \A t \in Launches : at[t] \in {"none", "exited"}
  BY DEF OnlyThread, Launches
<1>4. NeverReplacesJoinable' /\ StopIsPrompt'
  BY DEF NeverReplacesJoinable, StopIsPrompt
<1>5. OnlyThread' /\ HeldMeansActive'
  BY <1>2, <1>3 DEF OnlyThread, HeldMeansActive
<1>6. ModeFits'
  BY <1>2, <1>3 DEF ModeFits
<1>7. ActiveAgrees'
  BY <1>2 DEF ActiveAgrees, TypeOK
<1> QED
  BY <1>1, <1>4, <1>5, <1>6, <1>7

\* Every step keeps it.
LEMMA IInvInductive == IInv /\ [Next]_vars => IInv'
<1> SUFFICES ASSUME IInv, [Next]_vars PROVE IInv'
  OBVIOUS
<1> USE TimerAssumption
<1> DEFINE Parts == /\ NeverReplacesJoinable' /\ StopIsPrompt' /\ OnlyThread'
                    /\ HeldMeansActive' /\ ModeFits'
<1>1. CASE UNCHANGED vars
  BY <1>1 DEF vars, IInv, TypeOK, NeverReplacesJoinable, StopIsPrompt, OnlyThread,
              ActiveAgrees, HeldMeansActive, ModeFits
<1>2. ASSUME NEW m \in Modes, StartFresh(m) PROVE IInv'
  <2>1. thread = 0 /\ ~active
    BY <1>2 DEF StartFresh, OwnerAt, IInv, ActiveAgrees
  <2> QED
    BY <1>2, <2>1, LaunchKeepsIInv DEF StartFresh
<1>3. ASSUME NEW m \in Modes, StartOver(m) PROVE IInv'
  <2>1. TypeOK' /\ ActiveAgrees'
    BY <1>3 DEF StartOver, OwnerAt, IInv, TypeOK, ActiveAgrees, Modes
  <2>2. Parts
    BY <1>3 DEF StartOver, IInv, NeverReplacesJoinable, StopIsPrompt, OnlyThread,
                HeldMeansActive, ModeFits
  <2> QED
    BY <2>1, <2>2 DEF IInv
<1>4. CASE LaunchAfterStop
  <2>1. thread = 0 /\ ~active /\ wanted \in Modes
    BY <1>4 DEF LaunchAfterStop, OwnerAt, IInv, ActiveAgrees
  <2> QED
    BY <1>4, <2>1, LaunchKeepsIInv DEF LaunchAfterStop
<1>5. CASE StopCalled
  <2>1. TypeOK' /\ ActiveAgrees'
    BY <1>5 DEF StopCalled, OwnerAt, IInv, TypeOK, ActiveAgrees
  <2>2. Parts
    BY <1>5 DEF StopCalled, IInv, NeverReplacesJoinable, StopIsPrompt, OnlyThread,
                HeldMeansActive, ModeFits
  <2> QED
    BY <2>1, <2>2 DEF IInv
<1>6. CASE ClearActive
  <2>1. TypeOK' /\ ActiveAgrees'
    BY <1>6 DEF ClearActive, OwnerAt, IInv, TypeOK, ActiveAgrees
  <2>2. Parts
    BY <1>6 DEF ClearActive, MutexFree, IInv, NeverReplacesJoinable, StopIsPrompt,
                OnlyThread, HeldMeansActive, ModeFits
  <2> QED
    BY <2>1, <2>2 DEF IInv
<1>7. CASE NotifyAll
  <2>1. TypeOK' /\ ActiveAgrees'
    BY <1>7 DEF NotifyAll, OwnerAt, IInv, TypeOK, ActiveAgrees, Places, Launches
  <2>2. Parts
    BY <1>7 DEF NotifyAll, IInv, TypeOK, NeverReplacesJoinable, StopIsPrompt,
                OnlyThread, HeldMeansActive, ModeFits
  <2> QED
    BY <2>1, <2>2 DEF IInv
<1>8. CASE JoinThread
  <2>1. TypeOK' /\ ActiveAgrees'
    BY <1>8 DEF JoinThread, OwnerAt, IInv, TypeOK, ActiveAgrees, Launches, Modes
  <2>2. OnlyThread'
    BY <1>8 DEF JoinThread, IInv, OnlyThread
  <2>3. Parts
    BY <1>8, <2>2 DEF JoinThread, IInv, NeverReplacesJoinable, StopIsPrompt,
                      HeldMeansActive, ModeFits
  <2> QED
    BY <2>1, <2>3 DEF IInv
<1>9. ASSUME NEW t \in Launches, ThreadStep(t) PROVE IInv'
  <2> USE <1>9 DEF ThreadAt
  <2>1. mode[t] \in Modes /\ at[t] \in Places
    BY DEF IInv, TypeOK
  <2>2. CASE Begin(t)
    <3>1. FirstPlace(t) \in {"exited", "sleepy", "unlocked"}
      BY DEF FirstPlace
    <3> QED
      BY <2>1, <2>2, <3>1, GoesKeepsIInv DEF Begin, FirstPlace, Places
  <2>3. CASE CallUnlocked(t)
    BY <2>1, <2>3, GoesKeepsIInv DEF CallUnlocked, Places, IInv, ModeFits
  <2>4. CASE LookAtActive(t)
    BY <2>1, <2>4, GoesKeepsIInv DEF LookAtActive, Places
  <2>5. CASE Sleep(t)
    BY <2>1, <2>5, GoesKeepsIInv DEF Sleep, Places, IInv, HeldMeansActive
  <2>6. CASE Expire(t)
    BY <2>1, <2>6, GoesKeepsIInv DEF Expire, Places
  <2>7. CASE AfterInterval(t)
    <3> DEFINE place == IF ~active THEN "exited"
                        ELSE IF mode[t] = "onStart" THEN "unlocked" ELSE "callHeld"
    <3>1. Goes(t, place) /\ at[t] = "expired"
      BY <2>7 DEF AfterInterval
    <3>2. /\ place \in Places \ {"none"}
          /\ place = "callHeld" => active /\ mode[t] # "onStart"
          /\ place = "unlocked" => mode[t] # "once"
          /\ place \notin {"wait", "sleepy", "stuck", "call", "relock"}
      BY DEF Places
    <3> HIDE DEF place
    <3> QED
      BY <2>1, <3>1, <3>2, GoesKeepsIInv
  <2>8. CASE CallbackReturns(t)
    BY <2>1, <2>8, GoesKeepsIInv DEF CallbackReturns, Places, IInv, ModeFits
  <2> QED
    BY <2>2, <2>3, <2>4, <2>5, <2>6, <2>7, <2>8 DEF ThreadStep
<1>10. ASSUME NEW t \in Launches, WakeSpuriously(t) PROVE IInv'
  BY <1>10, GoesKeepsIInv DEF WakeSpuriously, ThreadAt, Places
<1>11. ASSUME NEW t \in Launches, Reenter(t) PROVE IInv'
  <2>1. CASE ThreadAt(t, "callHeld") /\ Goes(t, "stuck")
    BY <2>1, GoesKeepsIInv DEF ThreadAt, Places, IInv, HeldMeansActive, ModeFits
  <2>2. CASE UNCHANGED <<active, thread, owner, wanted, launched, mode, at>> /\ died' = "self_join"
    BY <2>2 DEF IInv, TypeOK, NeverReplacesJoinable, StopIsPrompt, OnlyThread,
                ActiveAgrees, HeldMeansActive, ModeFits
  <2> QED
    BY <1>11, <2>1, <2>2 DEF Reenter
<1> QED
  BY <1>1, <1>2, <1>3, <1>4, <1>5, <1>6, <1>7, <1>8, <1>9, <1>10, <1>11
     DEF Next, OwnerCalls, OwnerProceeds

\* The invariant holds in every state.
LEMMA IInvAlways == Spec => []IInv
  BY IInvInit, IInvInductive, PTL DEF Spec

\* Every variable of the timer keeps its type, and every thread that has not been
\* launched is none.
THEOREM TypeCorrect == Spec => []TypeOK
  BY IInvAlways, PTL DEF IInv

\* However start, runOnce and stop follow each other, and whether or not threads
\* have ended by themselves, start never assigns to a joinable thread object.
THEOREM NeverReplaces == Spec => []NeverReplacesJoinable
  BY IInvAlways, PTL DEF IInv

\* No notification is lost: when stop joins, the thread has been woken.
THEOREM StopPrompt == Spec => []StopIsPrompt
  BY IInvAlways, PTL DEF IInv

-----------------------------------------------------------------------------
(***************************************************************************)
(* The timer implements TimerPromise.                                      *)
(***************************************************************************)
\* At most one callback runs, and it is that of the launch in force.
LEMMA RunningIs ==
    IInv => Running = IF thread # 0 /\ Calling(thread) THEN thread ELSE 0
<1> SUFFICES ASSUME IInv
    PROVE  Running = IF thread # 0 /\ Calling(thread) THEN thread ELSE 0
  OBVIOUS
<1>1. \A t \in Launches : Calling(t) => t = thread
  BY DEF IInv, OnlyThread, Calling
<1>2. thread # 0 => thread \in Launches
  BY TimerAssumption DEF IInv, TypeOK, Launches
<1>3. CASE \E t \in Launches : Calling(t)
  <2>1. PICK t \in Launches : Calling(t)
    BY <1>3
  <2>2. t = thread /\ t # 0
    BY <1>1, <2>1 DEF Launches
  <2>3. (CHOOSE u \in Launches : Calling(u)) = thread
    BY <1>1, <2>1
  <2> QED
    BY <1>3, <2>1, <2>2, <2>3 DEF Running
<1>4. CASE ~ \E t \in Launches : Calling(t)
  BY <1>2, <1>4 DEF Running
<1> QED
  BY <1>3, <1>4

\* A timer not yet started is a promise not yet given.
LEMMA PromiseInit == Init => Promise!Init
<1> SUFFICES ASSUME Init PROVE Promise!Init
  OBVIOUS
<1>1. Running = 0
  BY DEF Init, Running, Calling
<1>2. Credit = "none"
  BY DEF Init, Credit
<1> QED
  BY <1>1, <1>2 DEF Init, Promise!Init

\* Every step is one of the promise, or none.
LEMMA PromiseNext ==
    ASSUME IInv, IInv', [Next]_vars
    PROVE  [Promise!Next]_Promise!vars
<1> USE TimerAssumption
<1> DEFINE R == IF thread # 0 /\ Calling(thread) THEN thread ELSE 0
<1>a. Running = R /\ Running' = R'
  <2>1. Running = R
    BY RunningIs
  <2>2. (IInv => Running = R)'
    BY RunningIs, PTL
  <2> QED
    BY <2>1, <2>2
<1>b. /\ TypeOK /\ thread \in 0..MaxLaunches
      /\ \A t \in Launches : at[t] \notin {"none", "exited"} => t = thread
      /\ \A t \in Launches : mode[t] \in Modes /\ at[t] \in Places
      /\ thread # 0 => thread \in Launches
  BY DEF IInv, TypeOK, OnlyThread, Launches
<1> HIDE DEF R
<1>1. CASE UNCHANGED vars
  <2>1. R' = R /\ Credit' = Credit
    BY <1>1 DEF vars, R, Calling, Credit, BeforeItsCall
  <2> QED
    BY <1>1, <1>a, <2>1 DEF vars, Promise!vars
\* A launch, fresh or after a stop.
<1>2. ASSUME NEW m \in Modes, thread = 0, LaunchThread(m) PROVE Promise!Launch
  <2>1. /\ thread' = launched + 1 /\ launched' = launched + 1
        /\ launched + 1 \in Launches
        /\ mode' = [mode EXCEPT ![launched + 1] = m]
        /\ at' = [at EXCEPT ![launched + 1] = "begin"]
        /\ active'
    BY <1>2, <1>b DEF LaunchThread, TypeOK, Launches
  <2>2. at'[thread'] = "begin" /\ mode'[thread'] = m /\ thread' # 0
    BY <2>1, <1>b DEF TypeOK, Launches
  <2>3. R = 0 /\ R' = 0
    BY <1>2, <2>2 DEF R, Calling
  <2>4. Credit' \in {"one", "many"}
    BY <2>1, <2>2 DEF Credit, BeforeItsCall
  <2> QED
    BY <1>2, <1>a, <2>1, <2>3, <2>4 DEF Promise!Launch, LaunchThread
<1>3. ASSUME NEW m \in Modes, StartFresh(m) PROVE Promise!Next
  BY <1>2, <1>3 DEF StartFresh, OwnerAt, IInv, ActiveAgrees, Promise!Next
<1>4. CASE LaunchAfterStop
  BY <1>2, <1>4 DEF LaunchAfterStop, OwnerAt, IInv, ActiveAgrees, Promise!Next
<1>5. CASE StopCalled \/ \E m \in Modes : StartOver(m)
  <2>1. UNCHANGED <<launched, thread, active, mode, at>>
    BY <1>5 DEF StopCalled, StartOver
  <2>2. R' = R /\ Credit' = Credit
    BY <2>1 DEF R, Calling, Credit, BeforeItsCall
  <2> QED
    BY <2>1, <2>2, <1>a DEF Promise!vars
\* m_active is cleared: the credit shrinks.
<1>6. CASE ClearActive
  <2>1. UNCHANGED <<launched, thread, mode, at>> /\ ~active'
    BY <1>6 DEF ClearActive
  <2>2. R' = R
    BY <2>1 DEF R, Calling
  <2>3. Credit' \in {"none", "one"}
    BY <2>1 DEF Credit
  <2>4. CASE Credit = "none"
    <3>1. Credit' = "none"
      BY <1>b, <2>1, <2>4 DEF Credit, BeforeItsCall
    <3> QED
      BY <1>a, <2>1, <2>2, <2>4, <3>1 DEF Promise!vars
  <2>5. CASE Credit # "none"
    BY <1>a, <2>1, <2>2, <2>3, <2>5 DEF Promise!AskToStop, Promise!Next
  <2> QED
    BY <2>4, <2>5
<1>7. CASE NotifyAll
  <2>1. /\ UNCHANGED <<launched, thread, mode, active>>
        /\ at' = [t \in Launches |-> IF at[t] = "wait" THEN "woken" ELSE at[t]]
    BY <1>7 DEF NotifyAll
  <2>2. R' = R
    BY <1>b, <2>1 DEF R, Calling
  <2>3. Credit' = Credit
    BY <1>b, <2>1 DEF Credit, BeforeItsCall
  <2> QED
    BY <1>a, <2>1, <2>2, <2>3 DEF Promise!vars
\* The thread has ended: its launch is over.
<1>8. CASE JoinThread
  <2>1. /\ UNCHANGED <<launched, mode, active, at>> /\ thread' = 0
        /\ thread # 0 => at[thread] = "exited"
    BY <1>8 DEF JoinThread
  <2>2. R = 0 /\ R' = 0
    BY <2>1 DEF R, Calling
  <2>3. Credit' = "none"
    BY <2>1 DEF Credit
  <2>4. CASE thread = 0
    BY <1>a, <2>1, <2>2, <2>3, <2>4 DEF Credit, Promise!vars
  <2>5. CASE thread # 0
    BY <1>a, <2>1, <2>2, <2>3, <2>5 DEF Promise!Cease, Promise!Next
  <2> QED
    BY <2>4, <2>5
\* A step of a thread is a step of the thread in force.
<1>9. ASSUME NEW t \in Launches, NEW place \in Places, Goes(t, place),
             at[t] \notin {"none", "exited"}
      PROVE  /\ t = thread /\ thread # 0
             /\ UNCHANGED <<launched, thread, mode, active>>
             /\ at[thread] = at[t] /\ at'[thread] = place
  BY <1>9, <1>b DEF Goes, TypeOK, Launches
\* Between two callbacks, it neither begins nor ends one ...
<1>10. ASSUME NEW t \in Launches, NEW place \in Places, Goes(t, place),
              at[t] \notin {"none", "exited", "unlocked"}, ~Calling(t),
              place \notin {"call", "callHeld", "stuck", "none"},
              place = "unlocked" => active /\ mode[t] # "once",
              active /\ mode[t] = "once" => place \in BeforeItsCall /\ at[t] \in BeforeItsCall
       PROVE  UNCHANGED Promise!vars
  <2>1. R = 0 /\ R' = 0
    BY <1>9, <1>10 DEF R, Calling
  <2>2. Credit' = Credit
    BY <1>9, <1>10 DEF Credit
  <2> QED
    BY <1>a, <1>9, <1>10, <2>1, <2>2 DEF Promise!vars
\* ... when it begins one, there was a credit ...
<1>11. ASSUME NEW t \in Launches, NEW place \in {"call", "callHeld"}, Goes(t, place),
              \/ place = "call" /\ at[t] = "unlocked" /\ mode[t] = "onStart"
              \/ place = "callHeld" /\ at[t] = "expired" /\ active
       PROVE  Promise!Fire
  <2>1. place \in Places /\ at[t] \notin {"none", "exited"}
    BY <1>11 DEF Places
  <2>2. R = 0 /\ R' = thread
    BY <1>9, <1>11, <2>1 DEF R, Calling
  <2>3. Credit # "none" /\ Credit' = IF Credit = "one" THEN "none" ELSE Credit
    BY <1>9, <1>11, <2>1 DEF Credit, BeforeItsCall
  <2> QED
    BY <1>a, <1>9, <1>11, <2>1, <2>2, <2>3 DEF Promise!Fire
\* ... and what it returns to grants no other.
<1>12. ASSUME NEW t \in Launches, CallbackReturns(t) PROVE Promise!Return
  <2> DEFINE place == IF at[t] = "call" THEN "relock"
                      ELSE IF mode[t] = "once" THEN "exited" ELSE "unlocked"
  <2>1. /\ Goes(t, place) /\ at[t] \in {"call", "callHeld"}
        /\ place \in {"relock", "exited", "unlocked"}
    BY <1>12 DEF CallbackReturns, ThreadAt
  <2>2. /\ place \in Places
        /\ at[t] = "call" => mode[t] = "onStart"
        /\ at[t] = "callHeld" => active /\ mode[t] # "onStart"
        /\ place = "exited" <=> at[t] = "callHeld" /\ mode[t] = "once"
        /\ place = "unlocked" => at[t] = "callHeld" /\ mode[t] # "once"
    BY <2>1 DEF Places, IInv, ModeFits, HeldMeansActive
  <2> HIDE DEF place
  <2>3. R = thread /\ R' = 0
    BY <1>9, <2>1, <2>2 DEF R, Calling
  <2>4. Credit' = Credit
    BY <1>9, <2>1, <2>2 DEF Credit, BeforeItsCall
  <2> QED
    BY <1>a, <1>9, <2>1, <2>2, <2>3, <2>4 DEF Promise!Return
<1>13. ASSUME NEW t \in Launches, ThreadStep(t) \/ WakeSpuriously(t)
       PROVE  [Promise!Next]_Promise!vars
  <2> USE <1>13, <1>b DEF ThreadAt
  <2>1. CASE Begin(t)
    <3>1. FirstPlace(t) \in Places
      BY DEF FirstPlace, Places
    <3> QED
      BY <2>1, <3>1, <1>10 DEF Begin, FirstPlace, BeforeItsCall, Calling
  <2>2. CASE CallUnlocked(t) /\ mode[t] = "onStart"
    BY <2>2, <1>11 DEF CallUnlocked, Promise!Next
  <2>3. CASE CallUnlocked(t) /\ mode[t] # "onStart"
    <3>1. Goes(t, "relock") /\ at[t] = "unlocked" /\ "relock" \in Places
      BY <2>3 DEF CallUnlocked, Places
    <3>2. mode[t] # "once"
      BY <3>1 DEF IInv, ModeFits
    <3>3. R = 0 /\ R' = 0
      BY <1>9, <3>1 DEF R, Calling
    <3>4. Credit' = Credit
      BY <1>9, <2>3, <3>1, <3>2 DEF Credit
    <3> QED
      BY <1>a, <1>9, <3>1, <3>3, <3>4 DEF Promise!vars
  <2>4. CASE LookAtActive(t)
    BY <2>4, <1>10 DEF LookAtActive, BeforeItsCall, Calling, Places, IInv, ModeFits
  <2>5. CASE Sleep(t) \/ Expire(t) \/ WakeSpuriously(t)
    BY <2>5, <1>10 DEF Sleep, Expire, WakeSpuriously, BeforeItsCall, Calling, Places
  <2>6. CASE AfterInterval(t) /\ active /\ mode[t] # "onStart"
    BY <2>6, <1>11 DEF AfterInterval, Promise!Next
  <2>7. CASE AfterInterval(t) /\ ~(active /\ mode[t] # "onStart")
    BY <2>7, <1>10 DEF AfterInterval, BeforeItsCall, Calling, Places
  <2>8. CASE CallbackReturns(t)
    BY <2>8, <1>12 DEF Promise!Next
  <2> QED
    BY <2>1, <2>2, <2>3, <2>4, <2>5, <2>6, <2>7, <2>8 DEF ThreadStep
<1>14. ASSUME NEW t \in Launches, Reenter(t) PROVE UNCHANGED Promise!vars
  <2>1. CASE ThreadAt(t, "callHeld") /\ Goes(t, "stuck")
    <3>1. "stuck" \in Places /\ active /\ at[t] = "callHeld"
      BY <2>1 DEF Places, ThreadAt, IInv, HeldMeansActive
    <3>2. R = thread /\ R' = thread
      BY <1>9, <2>1, <3>1 DEF R, Calling
    <3>3. Credit' = Credit
      BY <1>9, <2>1, <3>1 DEF Credit, BeforeItsCall
    <3> QED
      BY <1>a, <1>9, <2>1, <3>1, <3>2, <3>3 DEF Promise!vars
  <2>2. CASE UNCHANGED <<active, thread, owner, wanted, launched, mode, at>>
    <3>1. R' = R /\ Credit' = Credit
      BY <2>2 DEF R, Calling, Credit, BeforeItsCall
    <3> QED
      BY <1>a, <2>2, <3>1 DEF Promise!vars
  <2> QED
    BY <1>14, <2>1, <2>2 DEF Reenter
<1> QED
  BY <1>1, <1>3, <1>4, <1>5, <1>6, <1>7, <1>8, <1>13, <1>14
     DEF Next, OwnerCalls, OwnerProceeds, Promise!Next

\* One callback at a time and only of the launch in force, at most one more once
\* stop has asked and none once it has returned, and one in all after runOnce.
THEOREM KeepsItsPromise == Spec => KeepsPromise
<1>1. IInv /\ IInv' /\ [Next]_vars => [Promise!Next]_Promise!vars
  BY PromiseNext
<1> QED
  BY <1>1, PromiseInit, IInvAlways, PTL DEF Spec, KeepsPromise, Promise!Spec
=============================================================================
