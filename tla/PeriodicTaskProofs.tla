------------------------ MODULE PeriodicTaskProofs -------------------------
(***************************************************************************)
(* Proofs about PeriodicTask, for any number of goroutines, timers and     *)
(* calls.  MutexHeld says who owns execMu and gives BodiesSerialized;      *)
(* HandleIsPending says what t.timer points at, which Close, the failing   *)
(* Start and LoopIsCarried need; the three are inductive together.         *)
(***************************************************************************)
EXTENDS PeriodicTask, FiniteSetTheorems, TLAPS

\* The inductive invariant of the task.
IndInv == TypeOK /\ MutexHeld /\ HandleIsPending /\ LoopIsCarried

LEMMA InitIndInv == Init => IndInv
<1> SUFFICES ASSUME Init PROVE IndInv
  OBVIOUS
<1> USE TaskAssumption DEF TaskAssumption, Init, Goroutine
<1>1. \A g \in Goroutine : pc[g] = IF g \in Timer THEN "free" ELSE "idle"
  OBVIOUS
<1>2. TypeOK
  <2>1. pc \in [Goroutine -> CallerPlace \cup TimerPlace]
    BY DEF CallerPlace, TimerPlace
  <2>2. /\ \A c \in Caller : pc[c] \in CallerPlace
        /\ \A t \in Timer : pc[t] \in TimerPlace
    BY <1>1 DEF CallerPlace, TimerPlace
  <2>3. calls \in 0..MaxCalls
    OBVIOUS
  <2>4. QED BY <2>1, <2>2, <2>3 DEF TypeOK
<1>3. MutexHeld
  BY <1>1 DEF MutexHeld, InBody, InBodyPlace
<1>4. QED BY <1>2, <1>3 DEF IndInv, HandleIsPending, LoopIsCarried

\* What StopTimer does to the places of the goroutines: g moves, and of the
\* others only an armed timer that is t.timer changes, to "free".
LEMMA StopTimerEffect ==
  ASSUME TypeOK, HandleIsPending, NEW g \in Goroutine, NEW place, StopTimer(g, place),
         pc[g] \notin {"armed", "fire"}
  PROVE  /\ timer' = NoTimer
         /\ pc' \in [Goroutine -> {place} \cup CallerPlace \cup TimerPlace]
         /\ pc'[g] = place
         /\ \A h \in Goroutine \ {g} :
               \/ pc'[h] = pc[h]
               \/ h = timer /\ h \in Timer /\ pc[h] = "armed" /\ pc'[h] = "free"
<1> USE DEF StopTimer, TypeOK, HandleIsPending
<1>1. CASE timer = NoTimer
  BY <1>1
<1>2. CASE timer # NoTimer
  <2>1. timer \in Goroutine /\ timer \in Timer /\ timer # g
    BY <1>2 DEF Goroutine
  <2>2. pc' = [[pc EXCEPT ![g] = place] EXCEPT
                 ![timer] = IF pc[timer] = "armed" THEN "free" ELSE pc[timer]]
    BY <1>2, <2>1 DEF Stopped
  <2>3. \A h \in Goroutine \ {g} : h # timer => pc'[h] = pc[h]
    BY <2>1, <2>2
  <2>4. pc'[g] = place /\ pc'[timer] = IF pc[timer] = "armed" THEN "free" ELSE pc[timer]
    BY <2>1, <2>2
  <2>5. pc' \in [Goroutine -> {place} \cup CallerPlace \cup TimerPlace]
    BY <2>1, <2>2 DEF TimerPlace
  <2>6. QED BY <2>1, <2>3, <2>4, <2>5, <1>2
<1>3. QED BY <1>1, <1>2

\* What ArmNext does: nothing but move g, or arm one free timer and keep it in
\* t.timer.
LEMMA ArmNextEffect ==
  ASSUME TypeOK, NEW g \in Goroutine, NEW back, ArmNext(g, back), pc[g] # "free"
  PROVE  /\ running' = running /\ execMu' = execMu /\ calls' = calls
         /\ pc' \in [Goroutine -> {back} \cup CallerPlace \cup TimerPlace]
         /\ pc'[g] = back
         /\ \/ /\ ~running \/ timer # NoTimer
               /\ timer' = timer
               /\ \A h \in Goroutine \ {g} : pc'[h] = pc[h]
            \/ \E t \in Timer \ {g} :
                  /\ pc[t] = "free" /\ timer' = t /\ pc'[t] = "armed"
                  /\ \A h \in Goroutine \ {g, t} : pc'[h] = pc[h]
<1> USE DEF ArmNext, TypeOK, Goto, Goroutine
<1>1. CASE ~running \/ timer # NoTimer
  BY <1>1
<1>2. CASE running /\ timer = NoTimer
  <2>1. PICK t \in Timer : /\ pc[t] = "free" /\ timer' = t
                           /\ pc' = [pc EXCEPT ![g] = back, ![t] = "armed"]
    BY <1>2
  <2>2. t # g
    BY <2>1
  <2>3. /\ pc'[g] = back /\ pc'[t] = "armed"
        /\ \A h \in Goroutine \ {g, t} : pc'[h] = pc[h]
        /\ pc' \in [Goroutine -> {back} \cup CallerPlace \cup TimerPlace]
    BY <2>1, <2>2 DEF TimerPlace
  <2>4. QED BY <2>1, <2>2, <2>3
<1>3. QED BY <1>1, <1>2

\* Every step preserves the types.
LEMMA TypeOKStep == IndInv /\ [Next]_vars => TypeOK'
<1> SUFFICES ASSUME IndInv, [Next]_vars PROVE TypeOK'
  OBVIOUS
<1> USE TaskAssumption DEF TaskAssumption, IndInv, TypeOK, Goroutine, CallerPlace, TimerPlace, RunPlace, InBodyPlace,
        Goto, Returned
<1>1. ASSUME NEW g \in Goroutine, Step(g) PROVE TypeOK'
  <2>1. CASE HasClosed(g)
    BY <2>1 DEF HasClosed
  <2>2. CASE RecheckClosed(g)
    BY <2>2 DEF RecheckClosed
  <2>3. CASE BodyReturns(g, FALSE)
    BY <2>3 DEF BodyReturns
  <2>4. CASE ExecuteFailed(g)
    BY <2>4 DEF ExecuteFailed
  <2>5. CASE Arm(g)
    <3>1. ArmNext(g, Returned(g)) /\ pc[g] # "free"
      BY <2>5 DEF Arm
    <3>2. QED BY <3>1, <2>5, ArmNextEffect DEF Arm
  <2>6. CASE BodyHasClosed(g)
    BY <2>6 DEF BodyHasClosed
  <2>7. CASE BodyArm(g)
    <3>1. ArmNext(g, "body") /\ pc[g] # "free"
      BY <2>7 DEF BodyArm
    <3>2. QED BY <3>1, <2>7, ArmNextEffect DEF BodyArm
  <2>8. QED BY <1>1, <2>1, <2>2, <2>3, <2>4, <2>5, <2>6, <2>7 DEF Step
<1>2. ASSUME NEW g \in Goroutine, LockExecMu(g) PROVE TypeOK'
  BY <1>2 DEF LockExecMu
<1>3. ASSUME NEW g \in Goroutine, BodyReturns(g, TRUE) PROVE TypeOK'
  BY <1>3 DEF BodyReturns
<1>4. ASSUME NEW g \in Goroutine, BodyCallsClose(g) PROVE TypeOK'
  <2>1. g \in Goroutine /\ StopTimer(g, "body") /\ pc[g] \notin {"armed", "fire"}
    BY <1>4 DEF BodyCallsClose
  <2>2. calls' \in 0..MaxCalls /\ running' = FALSE /\ execMu' = execMu
    BY <1>4 DEF BodyCallsClose, CountCall
  <2>3. /\ timer' = NoTimer
        /\ pc' \in [Goroutine -> {"body"} \cup CallerPlace \cup TimerPlace]
        /\ pc'[g] = "body"
        /\ \A h \in Goroutine \ {g} :
              pc'[h] = pc[h] \/ (h \in Timer /\ pc'[h] = "free")
    BY <2>1, StopTimerEffect
  <2>4. QED BY <2>2, <2>3
<1>5. ASSUME NEW g \in Goroutine, BodyCallsStart(g) PROVE TypeOK'
  BY <1>5 DEF BodyCallsStart, CountCall
<1>6. ASSUME NEW c \in Caller, NEW first \in BOOLEAN, Start(c, first) PROVE TypeOK'
  BY <1>6 DEF Start, CountCall
<1>7. ASSUME NEW c \in Caller, StartFailed(c) PROVE TypeOK'
  <2>1. c \in Goroutine /\ StopTimer(c, "idle") /\ pc[c] \notin {"armed", "fire"}
    BY <1>7 DEF StartFailed
  <2>2. calls' \in 0..MaxCalls /\ running' = FALSE /\ execMu' = execMu
    BY <1>7 DEF StartFailed
  <2>3. /\ timer' = NoTimer
        /\ pc' \in [Goroutine -> {"idle"} \cup CallerPlace \cup TimerPlace]
        /\ pc'[c] = "idle"
        /\ \A h \in Goroutine \ {c} :
              pc'[h] = pc[h] \/ (h \in Timer /\ pc'[h] = "free")
    BY <2>1, StopTimerEffect
  <2>4. QED BY <2>2, <2>3
<1>8. ASSUME NEW c \in Caller, Close(c) PROVE TypeOK'
  <2>1. c \in Goroutine /\ StopTimer(c, "idle") /\ pc[c] \notin {"armed", "fire"}
    BY <1>8 DEF Close
  <2>2. calls' \in 0..MaxCalls /\ running' = FALSE /\ execMu' = execMu
    BY <1>8 DEF Close, CountCall
  <2>3. /\ timer' = NoTimer
        /\ pc' \in [Goroutine -> {"idle"} \cup CallerPlace \cup TimerPlace]
        /\ pc'[c] = "idle"
        /\ \A h \in Goroutine \ {c} :
              pc'[h] = pc[h] \/ (h \in Timer /\ pc'[h] = "free")
    BY <2>1, StopTimerEffect
  <2>4. QED BY <2>2, <2>3
<1>9. ASSUME NEW t \in Timer, Expire(t) PROVE TypeOK'
  BY <1>9 DEF Expire
<1>10. ASSUME NEW t \in Timer, Fire(t) PROVE TypeOK'
  BY <1>10 DEF Fire
<1>11. CASE UNCHANGED vars
  BY <1>11 DEF vars
<1>12. QED
  BY <1>1, <1>2, <1>3, <1>4, <1>5, <1>6, <1>7, <1>8, <1>9, <1>10, <1>11 DEF Next

\* Every step preserves the ownership of execMu.
LEMMA MutexStep == IndInv /\ [Next]_vars => MutexHeld'
<1> SUFFICES ASSUME IndInv, [Next]_vars PROVE MutexHeld'
  OBVIOUS
<1> USE TaskAssumption DEF TaskAssumption, IndInv, TypeOK, MutexHeld, InBody, InBodyPlace,
        Goroutine, Goto, Returned
<1>1. ASSUME NEW g \in Goroutine, Step(g) PROVE MutexHeld'
  <2>1. CASE HasClosed(g)
    BY <2>1 DEF HasClosed
  <2>2. CASE RecheckClosed(g)
    BY <2>2 DEF RecheckClosed
  <2>3. CASE BodyReturns(g, FALSE)
    BY <2>3 DEF BodyReturns
  <2>4. CASE ExecuteFailed(g)
    BY <2>4 DEF ExecuteFailed
  <2>5. CASE Arm(g)
    <3>1. ArmNext(g, Returned(g)) /\ pc[g] # "free"
      BY <2>5 DEF Arm
    <3>2. QED BY <3>1, <2>5, ArmNextEffect DEF Arm
  <2>6. CASE BodyHasClosed(g)
    BY <2>6 DEF BodyHasClosed
  <2>7. CASE BodyArm(g)
    <3>1. ArmNext(g, "body") /\ pc[g] # "free"
      BY <2>7 DEF BodyArm
    <3>2. QED BY <3>1, <2>7, ArmNextEffect DEF BodyArm
  <2>8. QED BY <1>1, <2>1, <2>2, <2>3, <2>4, <2>5, <2>6, <2>7 DEF Step
<1>2. ASSUME NEW g \in Goroutine, LockExecMu(g) PROVE MutexHeld'
  BY <1>2 DEF LockExecMu
<1>3. ASSUME NEW g \in Goroutine, BodyReturns(g, TRUE) PROVE MutexHeld'
  BY <1>3 DEF BodyReturns
<1>4. ASSUME NEW g \in Goroutine, BodyCallsClose(g) PROVE MutexHeld'
  <2>1. g \in Goroutine /\ StopTimer(g, "body") /\ pc[g] \notin {"armed", "fire"}
    BY <1>4 DEF BodyCallsClose
  <2>2. calls' \in 0..MaxCalls /\ running' = FALSE /\ execMu' = execMu
    BY <1>4 DEF BodyCallsClose, CountCall
  <2>3. QED BY <2>1, <2>2, <1>4, StopTimerEffect DEF BodyCallsClose
<1>5. ASSUME NEW g \in Goroutine, BodyCallsStart(g) PROVE MutexHeld'
  BY <1>5 DEF BodyCallsStart, CountCall
<1>6. ASSUME NEW c \in Caller, NEW first \in BOOLEAN, Start(c, first) PROVE MutexHeld'
  BY <1>6 DEF Start, CountCall
<1>7. ASSUME NEW c \in Caller, StartFailed(c) PROVE MutexHeld'
  <2>1. c \in Goroutine /\ StopTimer(c, "idle") /\ pc[c] \notin {"armed", "fire"}
    BY <1>7 DEF StartFailed
  <2>2. calls' \in 0..MaxCalls /\ running' = FALSE /\ execMu' = execMu
    BY <1>7 DEF StartFailed
  <2>3. QED BY <2>1, <2>2, <1>7, StopTimerEffect DEF StartFailed
<1>8. ASSUME NEW c \in Caller, Close(c) PROVE MutexHeld'
  <2>1. c \in Goroutine /\ StopTimer(c, "idle") /\ pc[c] \notin {"armed", "fire"}
    BY <1>8 DEF Close
  <2>2. calls' \in 0..MaxCalls /\ running' = FALSE /\ execMu' = execMu
    BY <1>8 DEF Close, CountCall
  <2>3. QED BY <2>1, <2>2, <1>8, StopTimerEffect DEF Close
<1>9. ASSUME NEW t \in Timer, Expire(t) PROVE MutexHeld'
  BY <1>9 DEF Expire
<1>10. ASSUME NEW t \in Timer, Fire(t) PROVE MutexHeld'
  BY <1>10 DEF Fire
<1>11. CASE UNCHANGED vars
  BY <1>11 DEF vars
<1>12. QED
  BY <1>1, <1>2, <1>3, <1>4, <1>5, <1>6, <1>7, <1>8, <1>9, <1>10, <1>11 DEF Next

\* Every step keeps t.timer pending.
LEMMA HandleStep == IndInv /\ [Next]_vars => HandleIsPending'
<1> SUFFICES ASSUME IndInv, [Next]_vars PROVE HandleIsPending'
  OBVIOUS
<1> USE TaskAssumption DEF TaskAssumption, IndInv, TypeOK, HandleIsPending, Goroutine, Goto, Returned
<1>1. ASSUME NEW g \in Goroutine, Step(g) PROVE HandleIsPending'
  <2>1. CASE HasClosed(g)
    BY <2>1 DEF HasClosed
  <2>2. CASE RecheckClosed(g)
    BY <2>2 DEF RecheckClosed
  <2>3. CASE BodyReturns(g, FALSE)
    BY <2>3 DEF BodyReturns
  <2>4. CASE ExecuteFailed(g)
    BY <2>4 DEF ExecuteFailed
  <2>5. CASE Arm(g)
    <3>1. ArmNext(g, Returned(g)) /\ pc[g] # "free"
      BY <2>5 DEF Arm
    <3>2. QED BY <3>1, <2>5, ArmNextEffect DEF Arm
  <2>6. CASE BodyHasClosed(g)
    BY <2>6 DEF BodyHasClosed
  <2>7. CASE BodyArm(g)
    <3>1. ArmNext(g, "body") /\ pc[g] # "free"
      BY <2>7 DEF BodyArm
    <3>2. QED BY <3>1, <2>7, ArmNextEffect DEF BodyArm
  <2>8. QED BY <1>1, <2>1, <2>2, <2>3, <2>4, <2>5, <2>6, <2>7 DEF Step
<1>2. ASSUME NEW g \in Goroutine, LockExecMu(g) PROVE HandleIsPending'
  BY <1>2 DEF LockExecMu
<1>3. ASSUME NEW g \in Goroutine, BodyReturns(g, TRUE) PROVE HandleIsPending'
  BY <1>3 DEF BodyReturns
<1>4. ASSUME NEW g \in Goroutine, BodyCallsClose(g) PROVE HandleIsPending'
  <2>1. g \in Goroutine /\ StopTimer(g, "body") /\ pc[g] \notin {"armed", "fire"}
    BY <1>4 DEF BodyCallsClose
  <2>2. calls' \in 0..MaxCalls /\ running' = FALSE /\ execMu' = execMu
    BY <1>4 DEF BodyCallsClose, CountCall
  <2>3. QED BY <2>1, <2>2, <1>4, StopTimerEffect DEF BodyCallsClose
<1>5. ASSUME NEW g \in Goroutine, BodyCallsStart(g) PROVE HandleIsPending'
  BY <1>5 DEF BodyCallsStart, CountCall
<1>6. ASSUME NEW c \in Caller, NEW first \in BOOLEAN, Start(c, first) PROVE HandleIsPending'
  BY <1>6 DEF Start, CountCall
<1>7. ASSUME NEW c \in Caller, StartFailed(c) PROVE HandleIsPending'
  <2>1. c \in Goroutine /\ StopTimer(c, "idle") /\ pc[c] \notin {"armed", "fire"}
    BY <1>7 DEF StartFailed
  <2>2. calls' \in 0..MaxCalls /\ running' = FALSE /\ execMu' = execMu
    BY <1>7 DEF StartFailed
  <2>3. QED BY <2>1, <2>2, <1>7, StopTimerEffect DEF StartFailed
<1>8. ASSUME NEW c \in Caller, Close(c) PROVE HandleIsPending'
  <2>1. c \in Goroutine /\ StopTimer(c, "idle") /\ pc[c] \notin {"armed", "fire"}
    BY <1>8 DEF Close
  <2>2. calls' \in 0..MaxCalls /\ running' = FALSE /\ execMu' = execMu
    BY <1>8 DEF Close, CountCall
  <2>3. QED BY <2>1, <2>2, <1>8, StopTimerEffect DEF Close
<1>9. ASSUME NEW t \in Timer, Expire(t) PROVE HandleIsPending'
  BY <1>9 DEF Expire
<1>10. ASSUME NEW t \in Timer, Fire(t) PROVE HandleIsPending'
  BY <1>10 DEF Fire
<1>11. CASE UNCHANGED vars
  BY <1>11 DEF vars
<1>12. QED
  BY <1>1, <1>2, <1>3, <1>4, <1>5, <1>6, <1>7, <1>8, <1>9, <1>10, <1>11 DEF Next

\* Every step keeps the loop of a running task carried.
LEMMA LoopStep == IndInv /\ [Next]_vars => LoopIsCarried'
<1> SUFFICES ASSUME IndInv, [Next]_vars PROVE LoopIsCarried'
  OBVIOUS
<1> USE TaskAssumption DEF TaskAssumption, IndInv, TypeOK, HandleIsPending, LoopIsCarried,
        CarriesLoop, Goroutine, Goto, Returned
<1>1. ASSUME NEW g \in Goroutine, Step(g) PROVE LoopIsCarried'
  <2>1. CASE HasClosed(g)
    BY <2>1 DEF HasClosed
  <2>2. CASE RecheckClosed(g)
    BY <2>2 DEF RecheckClosed
  <2>3. CASE BodyReturns(g, FALSE)
    BY <2>3 DEF BodyReturns
  <2>4. CASE ExecuteFailed(g)
    BY <2>4 DEF ExecuteFailed
  <2>5. CASE Arm(g)
    <3>1. ArmNext(g, Returned(g)) /\ pc[g] # "free"
      BY <2>5 DEF Arm
    <3>2. QED BY <3>1, <2>5, ArmNextEffect DEF Arm
  <2>6. CASE BodyHasClosed(g)
    BY <2>6 DEF BodyHasClosed
  <2>7. CASE BodyArm(g)
    <3>1. ArmNext(g, "body") /\ pc[g] # "free"
      BY <2>7 DEF BodyArm
    <3>2. QED BY <3>1, <2>7, ArmNextEffect DEF BodyArm
  <2>8. QED BY <1>1, <2>1, <2>2, <2>3, <2>4, <2>5, <2>6, <2>7 DEF Step
<1>2. ASSUME NEW g \in Goroutine, LockExecMu(g) PROVE LoopIsCarried'
  BY <1>2 DEF LockExecMu
<1>3. ASSUME NEW g \in Goroutine, BodyReturns(g, TRUE) PROVE LoopIsCarried'
  BY <1>3 DEF BodyReturns
<1>4. ASSUME NEW g \in Goroutine, BodyCallsClose(g) PROVE LoopIsCarried'
  <2>1. g \in Goroutine /\ StopTimer(g, "body") /\ pc[g] \notin {"armed", "fire"}
    BY <1>4 DEF BodyCallsClose
  <2>2. calls' \in 0..MaxCalls /\ running' = FALSE /\ execMu' = execMu
    BY <1>4 DEF BodyCallsClose, CountCall
  <2>3. QED BY <2>1, <2>2, <1>4, StopTimerEffect DEF BodyCallsClose
<1>5. ASSUME NEW g \in Goroutine, BodyCallsStart(g) PROVE LoopIsCarried'
  BY <1>5 DEF BodyCallsStart, CountCall
<1>6. ASSUME NEW c \in Caller, NEW first \in BOOLEAN, Start(c, first) PROVE LoopIsCarried'
  BY <1>6 DEF Start, CountCall
<1>7. ASSUME NEW c \in Caller, StartFailed(c) PROVE LoopIsCarried'
  <2>1. c \in Goroutine /\ StopTimer(c, "idle") /\ pc[c] \notin {"armed", "fire"}
    BY <1>7 DEF StartFailed
  <2>2. calls' \in 0..MaxCalls /\ running' = FALSE /\ execMu' = execMu
    BY <1>7 DEF StartFailed
  <2>3. QED BY <2>1, <2>2, <1>7, StopTimerEffect DEF StartFailed
<1>8. ASSUME NEW c \in Caller, Close(c) PROVE LoopIsCarried'
  <2>1. c \in Goroutine /\ StopTimer(c, "idle") /\ pc[c] \notin {"armed", "fire"}
    BY <1>8 DEF Close
  <2>2. calls' \in 0..MaxCalls /\ running' = FALSE /\ execMu' = execMu
    BY <1>8 DEF Close, CountCall
  <2>3. QED BY <2>1, <2>2, <1>8, StopTimerEffect DEF Close
<1>9. ASSUME NEW t \in Timer, Expire(t) PROVE LoopIsCarried'
  BY <1>9 DEF Expire
<1>10. ASSUME NEW t \in Timer, Fire(t) PROVE LoopIsCarried'
  BY <1>10 DEF Fire
<1>11. CASE UNCHANGED vars
  BY <1>11 DEF vars
<1>12. QED
  BY <1>1, <1>2, <1>3, <1>4, <1>5, <1>6, <1>7, <1>8, <1>9, <1>10, <1>11 DEF Next

LEMMA IndInvStep == IndInv /\ [Next]_vars => IndInv'
BY TypeOKStep, MutexStep, HandleStep, LoopStep DEF IndInv

LEMMA IndInvHolds == Spec => []IndInv
BY InitIndInv, IndInvStep, PTL DEF Spec

\* Every variable of the task stays within its type.
THEOREM TypeCorrect == Spec => []TypeOK
<1>1. IndInv => TypeOK
  BY DEF IndInv
<1>2. QED BY IndInvHolds, <1>1, PTL

\* task.go:27-30: whatever the interleaving of starts, closes and timers, two
\* bodies of one task never run at the same time.
THEOREM BodiesNeverOverlap == Spec => []BodiesSerialized
<1>1. IndInv => BodiesSerialized
  BY DEF IndInv, MutexHeld, BodiesSerialized
<1>2. QED BY IndInvHolds, <1>1, PTL

\* task.go:87: a non-nil t.timer is a timer that is still going to run t.fire.
THEOREM HandleNeverDangles == Spec => []HandleIsPending
<1>1. IndInv => HandleIsPending
  BY DEF IndInv
<1>2. QED BY IndInvHolds, <1>1, PTL

\* A task that counts as running always has a timer armed or a goroutine in
\* its code that will run or arm it: no interleaving silently ends the loop.
THEOREM LoopNeverAbandoned == Spec => []LoopIsCarried
<1>1. IndInv => LoopIsCarried
  BY DEF IndInv
<1>2. QED BY IndInvHolds, <1>1, PTL
-----------------------------------------------------------------------------
(* The second timer *)

\* A fire that finds another timer in t.timer than its own would take that one out.
FireTakesOwn ==
    \A t \in Timer : pc[t] = "fire" /\ pc'[t] # "fire" => timer \in {t, NoTimer}

\* The task, but for those steps
OwnFireSpec == Init /\ [][Next /\ FireTakesOwn]_vars

\* Every timer that is armed is the one that the next run, or Close, will find.
ArmedIsHandle == \A t \in Timer : pc[t] = "armed" => timer = t

\* After StopTimer no timer that t.timer held is armed.
LEMMA StopTimerForgets ==
  ASSUME TypeOK, HandleIsPending, ArmedIsHandle, NEW g \in Goroutine, NEW place,
         place # "armed", StopTimer(g, place), pc[g] \notin {"armed", "fire"}
  PROVE  ArmedIsHandle'
<1> SUFFICES ASSUME NEW t \in Timer, pc'[t] = "armed" PROVE FALSE
  BY DEF ArmedIsHandle
<1>1. t \in Goroutine /\ t # g
  BY StopTimerEffect DEF Goroutine
<1>2. pc[t] = "armed" /\ timer = t
  BY <1>1, StopTimerEffect DEF ArmedIsHandle
<1>3. timer # NoTimer
  BY <1>2, TaskAssumption DEF TaskAssumption
<1>4. pc'[t] = "free"
  BY <1>1, <1>2, <1>3 DEF StopTimer, Stopped, TypeOK, Goroutine
<1>5. QED BY <1>4

\* ArmNext arms a timer only when t.timer is nil, so when none is armed.
LEMMA ArmNextKeepsHandle ==
  ASSUME TypeOK, ArmedIsHandle, NEW g \in Goroutine, NEW back,
         back # "armed", ArmNext(g, back), pc[g] \notin {"free", "armed"}
  PROVE  ArmedIsHandle'
<1>1. CASE ~running \/ timer # NoTimer
  BY <1>1 DEF ArmNext, Goto, TypeOK, ArmedIsHandle, Goroutine
<1>2. CASE running /\ timer = NoTimer
  <2>1. PICK t \in Timer : /\ pc[t] = "free" /\ timer' = t
                           /\ pc' = [pc EXCEPT ![g] = back, ![t] = "armed"]
    BY <1>2 DEF ArmNext
  <2>2. \A u \in Timer : pc[u] # "armed"
    BY <1>2, TaskAssumption DEF TaskAssumption, ArmedIsHandle
  <2>3. \A u \in Timer \ {t} : pc'[u] # "armed"
    BY <2>1, <2>2 DEF TypeOK, Goroutine
  <2>4. QED BY <2>1, <2>3 DEF ArmedIsHandle
<1>3. QED BY <1>1, <1>2

\* Only such a fire leaves an armed timer behind.
LEMMA ArmedStep ==
  ASSUME IndInv, ArmedIsHandle, [Next /\ FireTakesOwn]_vars
  PROVE  ArmedIsHandle'
<1> USE TaskAssumption DEF TaskAssumption, IndInv, TypeOK, Goroutine, ArmedIsHandle, Goto, Returned
<1>1. ASSUME NEW g \in Goroutine, Step(g) PROVE ArmedIsHandle'
  <2>1. CASE HasClosed(g)
    BY <2>1 DEF HasClosed
  <2>2. CASE RecheckClosed(g)
    BY <2>2 DEF RecheckClosed
  <2>3. CASE BodyReturns(g, FALSE)
    BY <2>3 DEF BodyReturns
  <2>4. CASE ExecuteFailed(g)
    BY <2>4 DEF ExecuteFailed
  <2>5. CASE Arm(g)
    <3>1. ArmNext(g, Returned(g)) /\ pc[g] \notin {"free", "armed"} /\ Returned(g) # "armed"
      BY <2>5 DEF Arm
    <3>2. QED BY <3>1, ArmNextKeepsHandle
  <2>6. CASE BodyHasClosed(g)
    BY <2>6 DEF BodyHasClosed
  <2>7. CASE BodyArm(g)
    <3>1. ArmNext(g, "body") /\ pc[g] \notin {"free", "armed"}
      BY <2>7 DEF BodyArm
    <3>2. QED BY <3>1, ArmNextKeepsHandle
  <2>8. QED BY <1>1, <2>1, <2>2, <2>3, <2>4, <2>5, <2>6, <2>7 DEF Step
<1>2. ASSUME NEW g \in Goroutine, LockExecMu(g) PROVE ArmedIsHandle'
  BY <1>2 DEF LockExecMu
<1>3. ASSUME NEW g \in Goroutine, BodyReturns(g, TRUE) PROVE ArmedIsHandle'
  BY <1>3 DEF BodyReturns
<1>4. ASSUME NEW g \in Goroutine, BodyCallsClose(g) PROVE ArmedIsHandle'
  <2>1. StopTimer(g, "body") /\ pc[g] \notin {"armed", "fire"}
    BY <1>4 DEF BodyCallsClose
  <2>2. QED BY <2>1, StopTimerForgets
<1>5. ASSUME NEW g \in Goroutine, BodyCallsStart(g) PROVE ArmedIsHandle'
  BY <1>5 DEF BodyCallsStart
<1>6. ASSUME NEW c \in Caller, NEW first \in BOOLEAN, Start(c, first) PROVE ArmedIsHandle'
  BY <1>6 DEF Start
<1>7. ASSUME NEW c \in Caller, StartFailed(c) \/ Close(c) PROVE ArmedIsHandle'
  <2>1. StopTimer(c, "idle") /\ pc[c] \notin {"armed", "fire"}
    BY <1>7 DEF StartFailed, Close
  <2>2. QED BY <2>1, StopTimerForgets
<1>8. ASSUME NEW t \in Timer, Expire(t) PROVE ArmedIsHandle'
  BY <1>8 DEF Expire
<1>9. ASSUME NEW t \in Timer, Fire(t), FireTakesOwn PROVE ArmedIsHandle'
  <2>1. timer \in {t, NoTimer} /\ pc[t] = "fire"
    BY <1>9 DEF Fire, FireTakesOwn
  <2>2. \A u \in Timer : pc[u] # "armed"
    BY <2>1
  <2>3. QED BY <1>9, <2>2 DEF Fire
<1>10. CASE UNCHANGED vars
  BY <1>10 DEF vars
<1>11. QED
  BY <1>1, <1>2, <1>3, <1>4, <1>5, <1>6, <1>7, <1>8, <1>9, <1>10 DEF Next

\* task.go:84-86, 118: the comment's promise is broken by nothing but a fire that forgets a
\* timer it did not come from.  For any goroutines, timers and calls, and however Start, Close
\* and the body interleave, no second timer is armed as long as that does not happen.
THEOREM OneTimerUnlessForgotten == OwnFireSpec => []SingleTimerArmed
<1>1. Init => IndInv /\ ArmedIsHandle
  BY InitIndInv DEF Init, ArmedIsHandle, Goroutine
<1>2. IndInv /\ ArmedIsHandle /\ [Next /\ FireTakesOwn]_vars => (IndInv /\ ArmedIsHandle)'
  <2>1. [Next /\ FireTakesOwn]_vars => [Next]_vars
    OBVIOUS
  <2>2. QED BY <2>1, IndInvStep, ArmedStep
<1>3. ArmedIsHandle => SingleTimerArmed
  <2> SUFFICES ASSUME ArmedIsHandle PROVE SingleTimerArmed
    OBVIOUS
  <2>1. {t \in Timer : pc[t] = "armed"} \subseteq {timer}
    BY DEF ArmedIsHandle
  <2>2. IsFiniteSet({timer}) /\ Cardinality({timer}) = 1
    BY FS_Singleton
  <2>3. QED BY <2>1, <2>2, FS_Subset DEF SingleTimerArmed
<1>4. QED BY <1>1, <1>2, <1>3, PTL DEF OwnFireSpec
=============================================================================
