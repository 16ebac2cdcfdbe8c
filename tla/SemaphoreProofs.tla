--------------------------- MODULE SemaphoreProofs ---------------------------
(* For any number of threads and calls: a Semaphore outlives the notify() on it,  *)
(* and blocking calls keep the safety part of what Completion promises.           *)
EXTENDS Semaphore, TLAPS

\* Who holds a Semaphore's mutex, and how far the call it belongs to has come.
MutexHeld == \A t \in Thread :
  /\ mutex[t] = "waiter" <=> waiter[t] \in {"checking", "leaving"}
  /\ mutex[t] = "worker" <=>
       worker # NobodyNotified /\ worker.at # "locking" /\ worker.sem = t

Notifying(t, places) == worker # NobodyNotified /\ worker.sem = t /\ worker.at \in places

Progress == \A t \in Thread :
  /\ count[t] \in {0, 1}
  /\ t \in work => /\ waiter[t] \notin {"idle", "leaving"} /\ count[t] = 0
                   /\ ~Notifying(t, {"locking", "locked", "counted", "notified"})
  /\ Notifying(t, {"locking", "locked"}) =>
       waiter[t] \notin {"idle", "leaving"} /\ count[t] = 0
  /\ Notifying(t, {"counted", "notified"}) =>
       waiter[t] \notin {"idle", "checking", "leaving"} /\ count[t] = 1
  /\ waiter[t] \in {"idle", "leaving"} => count[t] = 0

IInv == TypeOK /\ MutexHeld /\ Progress

LEMMA InitInv == Init => IInv
  BY MaxCallAssumption DEF Init, IInv, TypeOK, MutexHeld, Progress, Notifying, NobodyNotified

LEMMA TypeStep == TypeOK /\ [Next]_vars => TypeOK'
<1> SUFFICES ASSUME TypeOK, [Next]_vars PROVE TypeOK'
  OBVIOUS
<1> USE MaxCallAssumption DEF TypeOK, NobodyNotified, At
<1>1. ASSUME NEW t \in Thread, Begin(t) PROVE TypeOK'
  BY <1>1 DEF Begin
<1>2. ASSUME NEW t \in Thread, WaitLocks(t) PROVE TypeOK'
  BY <1>2 DEF WaitLocks
<1>3. ASSUME NEW t \in Thread, WaitSleeps(t) PROVE TypeOK'
  BY <1>3 DEF WaitSleeps
<1>4. ASSUME NEW t \in Thread, SpuriousWakeUp(t) PROVE TypeOK'
  BY <1>4 DEF SpuriousWakeUp
<1>5. ASSUME NEW t \in Thread, WaitTakes(t) PROVE TypeOK'
  BY <1>5 DEF WaitTakes
<1>6. ASSUME NEW t \in Thread, Return(t) PROVE TypeOK'
  BY <1>6 DEF Return
<1>7. ASSUME NEW t \in Thread, WorkDone(t) PROVE TypeOK'
  BY <1>7 DEF WorkDone
<1>8. CASE NotifyLocks
  BY <1>8 DEF NotifyLocks
<1>9. CASE NotifyCounts
  BY <1>9 DEF NotifyCounts
<1>10. CASE NotifyWakes
  BY <1>10 DEF NotifyWakes
<1>11. CASE NotifyUnlocks
  BY <1>11 DEF NotifyUnlocks
<1>12. CASE UNCHANGED vars
  BY <1>12 DEF vars
<1> QED
  BY <1>1, <1>2, <1>3, <1>4, <1>5, <1>6, <1>7, <1>8, <1>9, <1>10, <1>11, <1>12
     DEF Next, Wait, Notify

LEMMA InvStep == IInv /\ [Next]_vars => IInv'
<1> SUFFICES ASSUME IInv, [Next]_vars PROVE MutexHeld' /\ Progress'
  BY TypeStep DEF IInv
<1> USE DEF IInv, TypeOK, MutexHeld, Progress, Notifying, NobodyNotified, At
<1>1. ASSUME NEW t \in Thread, Begin(t) PROVE MutexHeld' /\ Progress'
  BY <1>1 DEF Begin
<1>2. ASSUME NEW t \in Thread, WaitLocks(t) PROVE MutexHeld' /\ Progress'
  BY <1>2 DEF WaitLocks
<1>3. ASSUME NEW t \in Thread, WaitSleeps(t) PROVE MutexHeld' /\ Progress'
  BY <1>3 DEF WaitSleeps
<1>4. ASSUME NEW t \in Thread, SpuriousWakeUp(t) PROVE MutexHeld' /\ Progress'
  BY <1>4 DEF SpuriousWakeUp
<1>5. ASSUME NEW t \in Thread, WaitTakes(t) PROVE MutexHeld' /\ Progress'
  BY <1>5 DEF WaitTakes
<1>6. ASSUME NEW t \in Thread, Return(t) PROVE MutexHeld' /\ Progress'
  BY <1>6 DEF Return
<1>7. ASSUME NEW t \in Thread, WorkDone(t) PROVE MutexHeld' /\ Progress'
  BY <1>7 DEF WorkDone
<1>8. CASE NotifyLocks
  BY <1>8 DEF NotifyLocks
<1>9. CASE NotifyCounts
  BY <1>9 DEF NotifyCounts
<1>10. CASE NotifyWakes
  BY <1>10 DEF NotifyWakes
<1>11. CASE NotifyUnlocks
  BY <1>11 DEF NotifyUnlocks
<1>12. CASE UNCHANGED vars
  BY <1>12 DEF vars
<1> QED
  BY <1>1, <1>2, <1>3, <1>4, <1>5, <1>6, <1>7, <1>8, <1>9, <1>10, <1>11, <1>12
     DEF Next, Wait, Notify

LEMMA Invariant == Spec => []IInv
  BY InitInv, InvStep, PTL DEF Spec

\* Every variable keeps its type.
THEOREM TypeCorrect == Spec => []TypeOK
<1>1. IInv => TypeOK
  BY DEF IInv
<1> QED
  BY <1>1, Invariant, PTL

\* notify() never touches a Semaphore whose wait() has returned (Semaphore.hpp:9).
THEOREM Safe == Spec => []NeverDangling
<1>1. IInv => NeverDangling
  BY DEF IInv, TypeOK, Progress, Notifying, NeverDangling, NobodyNotified
<1> QED
  BY <1>1, Invariant, PTL

\* A function that differs from another at x only.
LEMMA OneChanged ==
  ASSUME NEW S, NEW V, NEW f \in [S -> V], NEW g \in [S -> V], NEW x \in S,
         \A y \in S \ {x} : g[y] = f[y]
  PROVE  g = [f EXCEPT ![x] = g[x]]
OBVIOUS

\* The calls start idle and every step of a Semaphore is a step of its call or none:
\* none returns before its work is done, none is released twice.
LEMMA CallStep == IInv /\ IInv' /\ [Next]_vars => [Calls!Next]_CallState
<1> SUFFICES ASSUME IInv, IInv', [Next]_vars PROVE [Calls!Next]_CallState
  OBVIOUS
<1>0. /\ CallState \in [Thread -> {"idle", "waiting", "released"}]
      /\ CallState' \in [Thread -> {"idle", "waiting", "released"}]
  BY DEF CallState
<1> USE DEF IInv, TypeOK, Progress, Notifying, NobodyNotified, At, InHand
<1>1. ASSUME NEW t \in Thread, Begin(t) PROVE Calls!Begin(t)
  <2>1. CallState[t] = "idle" /\ CallState'[t] = "waiting"
    BY <1>1 DEF Begin, CallState
  <2>2. \A u \in Thread \ {t} : CallState'[u] = CallState[u]
    BY <1>1 DEF Begin, CallState
  <2>3. CallState' = [CallState EXCEPT ![t] = "waiting"]
    BY <1>0, <2>1, <2>2, OneChanged
  <2> QED
    BY <2>1, <2>3 DEF Calls!Begin
<1>2. ASSUME NEW t \in Thread, Return(t) PROVE Calls!Return(t)
  <2>1. CallState[t] = "released" /\ CallState'[t] = "idle"
    BY <1>2 DEF Return, CallState
  <2>2. \A u \in Thread \ {t} : CallState'[u] = CallState[u]
    BY <1>2 DEF Return, CallState
  <2>3. CallState' = [CallState EXCEPT ![t] = "idle"]
    BY <1>0, <2>1, <2>2, OneChanged
  <2> QED
    BY <2>1, <2>3 DEF Calls!Return
<1>3. ASSUME NotifyCounts PROVE \E t \in Thread : Calls!Release(t)
  <2>1. worker.sem \in Thread /\ Calls!Release(worker.sem)
    BY <1>3 DEF NotifyCounts, Calls!Release, CallState
  <2> QED
    BY <2>1
<1>4. ASSUME NEW t \in Thread, WaitLocks(t) \/ WaitSleeps(t) \/ SpuriousWakeUp(t)
                                \/ WaitTakes(t)
      PROVE UNCHANGED CallState
  BY <1>4 DEF WaitLocks, WaitSleeps, SpuriousWakeUp, WaitTakes, CallState
<1>5. ASSUME NEW t \in Thread, WorkDone(t) PROVE UNCHANGED CallState
  BY <1>5 DEF WorkDone, CallState
<1>6. ASSUME NotifyLocks \/ NotifyWakes \/ NotifyUnlocks PROVE UNCHANGED CallState
  BY <1>6 DEF NotifyLocks, NotifyWakes, NotifyUnlocks, CallState
<1>7. ASSUME UNCHANGED vars PROVE UNCHANGED CallState
  BY <1>7 DEF vars, CallState
<1> QED
  BY <1>1, <1>2, <1>3, <1>4, <1>5, <1>6, <1>7 DEF Next, Wait, Notify, Calls!Next

THEOREM Implements == Spec => Calls!Init /\ [][Calls!Next]_CallState
<1>1. Init => Calls!Init
  BY DEF Init, Calls!Init, CallState
<1>2. IInv /\ IInv' /\ [Next]_vars => [Calls!Next]_CallState
  BY CallStep
<1> QED
  BY <1>1, <1>2, Invariant, PTL DEF Spec
=============================================================================
