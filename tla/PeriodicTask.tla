---------------------------- MODULE PeriodicTask ----------------------------
(***************************************************************************)
(* The periodic task of common/task/task.go: a body that is run once per   *)
(* interval, armed again by time.AfterFunc after every run, and started    *)
(* and closed by any goroutine, its own body included.                     *)
(*                                                                         *)
(* A goroutine is either a caller of Start/Close or the goroutine that the *)
(* runtime spawns for a timer that expires; the latter is identified with  *)
(* its timer.  A critical section of the mutex access never blocks inside, *)
(* so it is one step.  execMu is held across the body and is explicit.     *)
(* Intervals and jitter (nextDelay) only decide when an armed timer        *)
(* expires: here it may do so at any moment.                               *)
(*                                                                         *)
(* An operator that no action uses is a mistake the code could have made,  *)
(* named for it: the checks make sure that a property would notice.        *)
(***************************************************************************)
EXTENDS Naturals, FiniteSets

CONSTANTS Caller,    \* goroutines that call Start and Close from outside
          Timer,     \* timers, and the goroutines that run t.fire for them
          NoTimer,   \* the nil of t.timer
          Nobody,    \* the owner of execMu when it is unlocked
          MaxCalls   \* bound: calls of Start and Close made altogether

ASSUME TaskAssumption ==
    /\ Caller \cap Timer = {}
    /\ NoTimer \notin Timer
    /\ Nobody \notin Caller \cup Timer
    /\ MaxCalls \in Nat

Goroutine == Caller \cup Timer

VARIABLES running,   \* t.running
          timer,     \* t.timer
          execMu,    \* owner of t.execMu
          pc,        \* where each goroutine is
          calls      \* calls of Start and Close so far

vars == <<running, timer, execMu, pc, calls>>

(***************************************************************************)
(* "armed" and "free" are states of a timer whose goroutine does not       *)
(* exist; the others are places in the code:                               *)
(*   fire      entered t.fire, not yet past its critical section           *)
(*   check     hasClosed at the head of checkedExecute(true)               *)
(*   check0    hasClosed at the head of checkedExecute(false)              *)
(*   lock      waiting for execMu                                          *)
(*   recheck   hasClosed after execMu was obtained                         *)
(*   body      in t.Execute                                                *)
(*   selfCheck, selfArm   in a Start(false) called by the body             *)
(*   fail      Execute returned an error                                   *)
(*   arm       at the critical section that arms the next run              *)
(*   startErr  checkedExecute returned an error to Start                   *)
(***************************************************************************)
InBodyPlace == {"body", "selfCheck", "selfArm"}
RunPlace    == {"check", "check0", "lock", "recheck", "fail", "arm"} \cup InBodyPlace
CallerPlace == {"idle", "startErr"} \cup RunPlace
TimerPlace  == {"free", "armed", "fire"} \cup RunPlace

TypeOK ==
    /\ running \in BOOLEAN
    /\ timer \in Timer \cup {NoTimer}
    /\ execMu \in Goroutine \cup {Nobody}
    /\ pc \in [Goroutine -> CallerPlace \cup TimerPlace]
    /\ \A c \in Caller : pc[c] \in CallerPlace
    /\ \A t \in Timer : pc[t] \in TimerPlace
    /\ calls \in 0..MaxCalls

Init ==
    /\ running = FALSE
    /\ timer = NoTimer
    /\ execMu = Nobody
    /\ pc = [g \in Goroutine |-> IF g \in Timer THEN "free" ELSE "idle"]
    /\ calls = 0

-----------------------------------------------------------------------------
(* Helpers *)

Goto(g, place) == pc' = [pc EXCEPT ![g] = place]

\* Where a goroutine is once its outermost call has returned.
Returned(g) == IF g \in Timer THEN "free" ELSE "idle"

\* timer.Stop(): an armed timer is cancelled; one that has already expired has
\* its goroutine on the way and is not affected.
Stopped(t, places) ==
    [places EXCEPT ![t] = IF places[t] = "armed" THEN "free" ELSE places[t]]

\* "t.timer != nil: Stop it and forget it", with goroutine g going to place.
StopTimer(g, place) ==
    LET moved == [pc EXCEPT ![g] = place]
    IN  /\ timer' = NoTimer
        /\ pc' = IF timer = NoTimer THEN moved ELSE Stopped(timer, moved)

CountCall == calls < MaxCalls /\ calls' = calls + 1

-----------------------------------------------------------------------------
(* The last critical section of checkedExecute; g goes on at place back.   *)

ArmOnlyFirstRun(g, back) ==
    /\ UNCHANGED <<running, execMu, calls, timer>>
    /\ Goto(g, back)

ArmNext(g, back) ==
    /\ UNCHANGED <<running, execMu, calls>>
    /\ \/ /\ ~running \/ timer # NoTimer
          /\ Goto(g, back)
          /\ UNCHANGED timer
       \/ /\ running /\ timer = NoTimer
          /\ \E t \in Timer :
                /\ pc[t] = "free"
                /\ timer' = t
                /\ pc' = [pc EXCEPT ![g] = back, ![t] = "armed"]

-----------------------------------------------------------------------------
(* checkedExecute *)

HasClosed(g) ==
    /\ pc[g] \in {"check", "check0"}
    /\ Goto(g, IF ~running THEN Returned(g)
               ELSE IF pc[g] = "check" THEN "lock" ELSE "arm")
    /\ UNCHANGED <<running, timer, execMu, calls>>

LockNothing(g) ==
    /\ pc[g] = "lock"
    /\ execMu' = g
    /\ Goto(g, "recheck")
    /\ UNCHANGED <<running, timer, calls>>

LockExecMu(g) ==
    /\ pc[g] = "lock"
    /\ execMu = Nobody
    /\ execMu' = g
    /\ Goto(g, "recheck")
    /\ UNCHANGED <<running, timer, calls>>

LeakExecMu(g) ==
    /\ pc[g] = "recheck"
    /\ Goto(g, IF running THEN "body" ELSE Returned(g))
    /\ UNCHANGED <<running, timer, execMu, calls>>

RecheckClosed(g) ==
    /\ pc[g] = "recheck"
    /\ IF running
       THEN Goto(g, "body") /\ UNCHANGED execMu
       ELSE Goto(g, Returned(g)) /\ execMu' = Nobody
    /\ UNCHANGED <<running, timer, calls>>

UnlockOnSuccess(g, failed) ==
    /\ pc[g] = "body"
    /\ execMu' = IF failed THEN execMu ELSE Nobody
    /\ Goto(g, IF failed THEN "fail" ELSE "arm")
    /\ UNCHANGED <<running, timer, calls>>

\* Execute returns, with or without an error, and execMu is unlocked.
BodyReturns(g, failed) ==
    /\ pc[g] = "body"
    /\ execMu' = Nobody
    /\ Goto(g, IF failed THEN "fail" ELSE "arm")
    /\ UNCHANGED <<running, timer, calls>>

\* The error stops the loop.  Start sees it, fire drops it.
ExecuteFailed(g) ==
    /\ pc[g] = "fail"
    /\ running' = FALSE
    /\ Goto(g, IF g \in Caller THEN "startErr" ELSE "free")
    /\ UNCHANGED <<timer, execMu, calls>>

Arm(g) == pc[g] = "arm" /\ ArmNext(g, Returned(g))

-----------------------------------------------------------------------------
(* The body may close its own task and start it again without running it.  *)

BodyCallsClose(g) ==
    /\ pc[g] = "body"
    /\ CountCall
    /\ running' = FALSE
    /\ StopTimer(g, "body")
    /\ UNCHANGED execMu

BodyCallsStart(g) ==
    /\ pc[g] = "body"
    /\ CountCall
    /\ running' = TRUE
    /\ Goto(g, IF running THEN "body" ELSE "selfCheck")
    /\ UNCHANGED <<timer, execMu>>

BodyHasClosed(g) ==
    /\ pc[g] = "selfCheck"
    /\ Goto(g, IF running THEN "selfArm" ELSE "body")
    /\ UNCHANGED <<running, timer, execMu, calls>>

BodyArm(g) == pc[g] = "selfArm" /\ ArmNext(g, "body")

-----------------------------------------------------------------------------
(* Start and Close called from outside *)

Start(c, first) ==
    /\ pc[c] = "idle"
    /\ CountCall
    /\ running' = TRUE
    /\ Goto(c, IF running THEN "idle" ELSE IF first THEN "check" ELSE "check0")
    /\ UNCHANGED <<timer, execMu>>

StartFailed(c) ==
    /\ pc[c] = "startErr"
    /\ running' = FALSE
    /\ StopTimer(c, "idle")
    /\ UNCHANGED <<execMu, calls>>

StopWithoutForget(c) ==
    /\ pc[c] = "idle"
    /\ CountCall
    /\ running' = FALSE
    /\ pc' = IF timer = NoTimer THEN pc ELSE Stopped(timer, pc)
    /\ UNCHANGED <<timer, execMu>>

Close(c) ==
    /\ pc[c] = "idle"
    /\ CountCall
    /\ running' = FALSE
    /\ StopTimer(c, "idle")
    /\ UNCHANGED execMu

-----------------------------------------------------------------------------
(* The runtime's timers *)

\* The delay of an armed timer is over: the runtime starts its goroutine.
Expire(t) ==
    /\ pc[t] = "armed"
    /\ Goto(t, "fire")
    /\ UNCHANGED <<running, timer, execMu, calls>>

FireKeepsHandle(t) ==
    /\ pc[t] = "fire"
    /\ Goto(t, "check")
    /\ UNCHANGED <<running, timer, execMu, calls>>

Fire(t) ==
    /\ pc[t] = "fire"
    /\ timer' = NoTimer
    /\ Goto(t, "check")
    /\ UNCHANGED <<running, execMu, calls>>

-----------------------------------------------------------------------------
\* A step of the task's own code, which the scheduler lets go on.
Step(g) ==
    \/ HasClosed(g)
    \/ RecheckClosed(g)
    \/ BodyReturns(g, FALSE)
    \/ ExecuteFailed(g)
    \/ Arm(g)
    \/ BodyHasClosed(g)
    \/ BodyArm(g)

Next ==
    \/ \E g \in Goroutine :
          \/ Step(g)
          \/ LockExecMu(g)
          \/ BodyReturns(g, TRUE)
          \/ BodyCallsClose(g)
          \/ BodyCallsStart(g)
    \/ \E c \in Caller :
          \/ \E first \in BOOLEAN : Start(c, first)
          \/ StartFailed(c)
          \/ Close(c)
    \/ \E t \in Timer : Expire(t) \/ Fire(t)

Spec == Init /\ [][Next]_vars

(***************************************************************************)
(* Fairness: every goroutine that can run goes on, bodies return, timers   *)
(* expire, and sync.Mutex does not starve a waiter (its starvation mode    *)
(* hands the lock over after 1 ms).  Nobody has to call Start or Close.    *)
(***************************************************************************)
Fairness ==
    /\ \A g \in Goroutine : WF_vars(Step(g)) /\ SF_vars(LockExecMu(g))
    /\ \A c \in Caller : WF_vars(StartFailed(c))
    /\ \A t \in Timer : WF_vars(Expire(t)) /\ WF_vars(Fire(t))

FairSpec == Spec /\ Fairness

-----------------------------------------------------------------------------
(* Properties *)

InBody(g) == pc[g] \in InBodyPlace

\* Bodies are serialized: a restart that finds a body running (the report task
\* re-armed by nodeInfoMonitor) never runs a second report beside it, whatever
\* the interleaving of Start, Close and expiring timers.
BodiesSerialized ==
    \A g, h \in Goroutine : InBody(g) /\ InBody(h) => g = h

\* t.timer never dangles: it is nil, or a timer that is still to expire, or one
\* whose goroutine has not yet taken it out.  Otherwise the "timer != nil" test
\* of checkedExecute would skip arming for a timer that no longer exists.
HandleIsPending ==
    timer # NoTimer => pc[timer] \in {"armed", "fire"}

\* A goroutine, or an armed timer, that still carries the loop on.
CarriesLoop(g) == pc[g] \notin {"idle", "free", "startErr"}

\* While the task counts as running somebody is still there to run the body
\* again: no interleaving of an interval change, a restart and a firing timer
\* ends with running = true and nothing armed.
LoopIsCarried ==
    running => \E g \in Goroutine : CarriesLoop(g)

\* execMu is owned by exactly the goroutine that is past LockExecMu and has not
\* unlocked it.  This is the strengthening that makes BodiesSerialized inductive.
MutexHeld ==
    \A g \in Goroutine : (pc[g] = "recheck" \/ InBody(g)) <=> execMu = g

\* The loop goes on: as long as nobody closes the task, and no body fails, the
\* body is run again and again.
LoopKeepsRunning == []<>(~running \/ \E g \in Goroutine : pc[g] = "body")

\* Closing is effective: once the task stays closed, body and timers die out,
\* the ones the task had lost sight of too.
ClosedTaskQuiesces ==
    <>[](~running) => <>[](\A g \in Goroutine : ~CarriesLoop(g))

\* Start and Close return: a caller is never stuck behind execMu for good.
CallsReturn == \A c \in Caller : pc[c] # "idle" ~> pc[c] = "idle"

\* What the comment at task.go:84-86 promises: a run that finds a timer armed
\* does not arm another one, so the task never runs N times per interval.
SingleTimerArmed ==
    Cardinality({t \in Timer : pc[t] = "armed"}) <= 1
=============================================================================
