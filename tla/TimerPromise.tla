---------------------------- MODULE TimerPromise ----------------------------
(***************************************************************************)
(* What utils/timer.h promises whoever uses it: one callback at a time, of *)
(* the launch in force and of no other; once stop has returned, none; once *)
(* it has asked, at most one more; and after runOnce, one in all.          *)
(***************************************************************************)
EXTENDS Naturals

CONSTANT MaxLaunches     \* bound: calls of start and runOnce that launch a thread

VARIABLES
    launched,            \* launches so far
    current,             \* the launch in force, 0 for none
    running,             \* the launch whose callback runs, 0 for none
    credit               \* callbacks the launch in force may still begin

vars == <<launched, current, running, credit>>

Init ==
    /\ launched = 0
    /\ current = 0
    /\ running = 0
    /\ credit = "none"

Launch ==
    /\ current = 0
    /\ running = 0
    /\ launched < MaxLaunches
    /\ launched' = launched + 1
    /\ current' = launched + 1
    /\ credit' \in {"one", "many"}
    /\ UNCHANGED running

Fire ==
    /\ current # 0
    /\ running = 0
    /\ credit # "none"
    /\ running' = current
    /\ credit' = IF credit = "one" THEN "none" ELSE credit
    /\ UNCHANGED <<launched, current>>

Return ==
    /\ running # 0
    /\ running' = 0
    /\ UNCHANGED <<launched, current, credit>>

AskToStop ==
    /\ credit # "none"
    /\ credit' \in {"none", "one"}
    /\ UNCHANGED <<launched, current, running>>

Cease ==
    /\ current # 0
    /\ running = 0
    /\ current' = 0
    /\ credit' = "none"
    /\ UNCHANGED <<launched, running>>

Next == Launch \/ Fire \/ Return \/ AskToStop \/ Cease

Spec == Init /\ [][Next]_vars
=============================================================================
