------------------------------ MODULE Semaphore ------------------------------
(* Semaphore, as addLogHandler() and removeAllHandlers() use it: each call has    *)
(* one on its stack, which the worker notifies through a reference and which is   *)
(* destroyed when wait() has returned.  Steps are those of the mutex and of the    *)
(* condition variable.                                                           *)
EXTENDS Naturals

CONSTANTS
  Thread,   \* the threads that make a blocking call
  MaxCall   \* calls that each of them makes

ASSUME MaxCallAssumption == MaxCall \in Nat

VARIABLES
  waiter,  \* of each thread, where it is in wait(); its Semaphore exists unless idle
  work,    \* the threads whose work is in the executor's queue
  worker,  \* the thread the worker notifies, and where it is in notify()
  mutex,   \* of each Semaphore: free, or held by the waiter or the worker
  count,   \* Count of each Semaphore
  calls    \* calls made by each thread

vars == <<waiter, work, worker, mutex, count, calls>>

NobodyNotified == [at |-> "idle"]
At(place) == worker.at = place

Init ==
  /\ waiter = [t \in Thread |-> "idle"]
  /\ work = {}
  /\ worker = NobodyNotified
  /\ mutex = [t \in Thread |-> "free"]
  /\ count = [t \in Thread |-> 0]
  /\ calls = [t \in Thread |-> 0]

\* Semaphore Check; Executor.SendWork(...)
Begin(t) ==
  /\ waiter[t] = "idle" /\ calls[t] < MaxCall
  /\ calls' = [calls EXCEPT ![t] = @ + 1]
  /\ waiter' = [waiter EXCEPT ![t] = "locking"]
  /\ work' = work \cup {t}
  /\ count' = [count EXCEPT ![t] = 0]
  /\ UNCHANGED <<worker, mutex>>

(* wait() *)

\* Defect: `if` in place of `while`.
WaitLocksOnce(t) ==
  /\ waiter[t] \in {"locking", "woken"} /\ mutex[t] = "free"
  /\ mutex' = [mutex EXCEPT ![t] = "waiter"]
  /\ waiter' = [waiter EXCEPT ![t] = IF @ = "woken" THEN "leaving" ELSE "checking"]
  /\ UNCHANGED <<work, worker, count, calls>>

WaitLocks(t) ==
  /\ waiter[t] \in {"locking", "woken"} /\ mutex[t] = "free"
  /\ mutex' = [mutex EXCEPT ![t] = "waiter"]
  /\ waiter' = [waiter EXCEPT ![t] = "checking"]
  /\ UNCHANGED <<work, worker, count, calls>>

\* while (!Count) Condition.wait(lock), which releases the mutex and sleeps at once.
WaitSleeps(t) ==
  /\ waiter[t] = "checking" /\ count[t] = 0
  /\ waiter' = [waiter EXCEPT ![t] = "asleep"]
  /\ mutex' = [mutex EXCEPT ![t] = "free"]
  /\ UNCHANGED <<work, worker, count, calls>>

SpuriousWakeUp(t) ==
  /\ waiter[t] = "asleep"
  /\ waiter' = [waiter EXCEPT ![t] = "woken"]
  /\ UNCHANGED <<work, worker, mutex, count, calls>>

\* Defect: Count is not looked at.
WaitTakesAnyway(t) ==
  /\ waiter[t] = "checking"
  /\ count' = [count EXCEPT ![t] = @ - 1]
  /\ waiter' = [waiter EXCEPT ![t] = "leaving"]
  /\ UNCHANGED <<work, worker, mutex, calls>>

WaitTakes(t) ==
  /\ waiter[t] = "checking" /\ count[t] > 0
  /\ count' = [count EXCEPT ![t] = @ - 1]
  /\ waiter' = [waiter EXCEPT ![t] = "leaving"]
  /\ UNCHANGED <<work, worker, mutex, calls>>

\* The lock is released, wait() returns and the Semaphore is destroyed.
Return(t) ==
  /\ waiter[t] = "leaving"
  /\ mutex' = [mutex EXCEPT ![t] = "free"]
  /\ waiter' = [waiter EXCEPT ![t] = "idle"]
  /\ UNCHANGED <<work, worker, count, calls>>

(* notify(), by the worker once it has done the work *)

WorkDone(t) ==
  /\ At("idle") /\ t \in work
  /\ work' = work \ {t}
  /\ worker' = [at |-> "locking", sem |-> t]
  /\ UNCHANGED <<waiter, mutex, count, calls>>

NotifyLocks ==
  /\ At("locking") /\ mutex[worker.sem] = "free"
  /\ mutex' = [mutex EXCEPT ![worker.sem] = "worker"]
  /\ worker' = [worker EXCEPT !.at = "locked"]
  /\ UNCHANGED <<waiter, work, count, calls>>

\* Defect: the mutex is released before notify_one().
NotifyCountsOnly ==
  /\ At("locked")
  /\ count' = [count EXCEPT ![worker.sem] = @ + 1]
  /\ mutex' = [mutex EXCEPT ![worker.sem] = "free"]
  /\ worker' = [worker EXCEPT !.at = "counted"]
  /\ UNCHANGED <<waiter, work, calls>>

NotifyCounts ==
  /\ At("locked")
  /\ count' = [count EXCEPT ![worker.sem] = @ + 1]
  /\ worker' = [worker EXCEPT !.at = "counted"]
  /\ UNCHANGED <<waiter, work, mutex, calls>>

\* Condition.notify_one(): lost if nobody sleeps.
NotifyWakes ==
  /\ At("counted")
  /\ waiter' = [waiter EXCEPT ![worker.sem] = IF @ = "asleep" THEN "woken" ELSE @]
  /\ worker' = [worker EXCEPT !.at = "notified"]
  /\ UNCHANGED <<work, mutex, count, calls>>

NotifyUnlocks ==
  /\ At("notified")
  /\ mutex' = [mutex EXCEPT ![worker.sem] = "free"]
  /\ worker' = NobodyNotified
  /\ UNCHANGED <<waiter, work, count, calls>>

Wait(t) == WaitLocks(t) \/ WaitSleeps(t) \/ WaitTakes(t) \/ Return(t)
Notify  == NotifyLocks \/ NotifyCounts \/ NotifyWakes \/ NotifyUnlocks
              \/ \E t \in Thread : WorkDone(t)

Next == \/ \E t \in Thread : Begin(t) \/ Wait(t) \/ SpuriousWakeUp(t)
        \/ Notify

Spec == Init /\ [][Next]_vars

\* Every thread runs on; a spurious wake-up need not happen.  A mutex is given to a
\* thread that keeps asking for it.
FairSpec == /\ Spec /\ WF_vars(Notify) /\ SF_vars(NotifyLocks)
            /\ \A t \in Thread : WF_vars(Wait(t)) /\ SF_vars(WaitLocks(t))
-----------------------------------------------------------------------------
(* Properties *)

TypeOK ==
  /\ waiter \in [Thread -> {"idle", "locking", "checking", "asleep", "woken", "leaving"}]
  /\ work \subseteq Thread
  /\ worker \in {NobodyNotified} \cup
       [at : {"locking", "locked", "counted", "notified"}, sem : Thread]
  /\ mutex \in [Thread -> {"free", "waiter", "worker"}]
  /\ count \in [Thread -> Nat]
  /\ calls \in [Thread -> 0..MaxCall]

\* The worker only touches a Semaphore that is still on its caller's stack: the
\* caller cannot return between ++Count and the end of notify().
NeverDangling == worker # NobodyNotified => waiter[worker.sem] # "idle"

\* A blocking call returns once its work is done, never before, and a wake-up is
\* never lost.
InHand(t) == \/ t \in work
             \/ /\ worker # NobodyNotified /\ worker.sem = t
                /\ worker.at \in {"locking", "locked"}
CallState == [t \in Thread |-> IF waiter[t] = "idle" THEN "idle"
                              ELSE IF InHand(t) THEN "waiting" ELSE "released"]
Calls == INSTANCE Completion WITH call <- CallState
CallsComplete == Calls!Spec
=============================================================================
