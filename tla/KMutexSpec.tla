----------------------------- MODULE KMutexSpec -----------------------------
(***************************************************************************)
(* What kmutex.c promises its callers (kmutex.h, and the comments at       *)
(* kmutex.c:34-38 and 90-103): a mutex has at most one owner; a thread     *)
(* that finds it taken waits its turn; unlocking it makes the thread that  *)
(* has waited longest the owner, with no moment at which the mutex is free *)
(* and somebody waits.  A waiter may give up when it is cancelled.         *)
(***************************************************************************)
EXTENDS QueueOps

CONSTANTS Thread, Mutex, NULL

VARIABLES
    owner,      \* the thread that owns each mutex, or NULL
    waiters     \* the threads that wait for each mutex, longest wait first

Waiting(t) == \E m \in Mutex : t \in Range(waiters[m])

Init ==
    /\ owner = [m \in Mutex |-> NULL]
    /\ waiters = [m \in Mutex |-> <<>>]

Acquire(t, m) ==
    /\ owner[m] = NULL /\ waiters[m] = <<>>
    /\ ~Waiting(t)
    /\ owner' = [owner EXCEPT ![m] = t]
    /\ UNCHANGED waiters

Wait(t, m) ==
    /\ owner[m] \notin {NULL, t}
    /\ ~Waiting(t)
    /\ waiters' = [waiters EXCEPT ![m] = Append(@, t)]
    /\ UNCHANGED owner

Release(t, m) ==
    /\ owner[m] = t
    /\ \/ /\ waiters[m] = <<>>
          /\ owner' = [owner EXCEPT ![m] = NULL]
          /\ UNCHANGED waiters
       \/ /\ waiters[m] # <<>>
          /\ owner' = [owner EXCEPT ![m] = Head(waiters[m])]
          /\ waiters' = [waiters EXCEPT ![m] = Tail(@)]

GiveUp(t, m) ==
    /\ \E i \in DOMAIN waiters[m] :
         /\ waiters[m][i] = t
         /\ waiters' = [waiters EXCEPT ![m] = RemoveAt(@, i)]
    /\ UNCHANGED owner

Next == \E t \in Thread, m \in Mutex :
            Acquire(t, m) \/ Wait(t, m) \/ Release(t, m) \/ GiveUp(t, m)

Spec == Init /\ [][Next]_<<owner, waiters>>
=============================================================================
