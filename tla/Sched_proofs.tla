---------------------------- MODULE Sched_proofs ----------------------------
(***************************************************************************)
(* Proofs about module Sched, for any number of threads, mutexes and wait  *)
(* queues, with any of the threads cancelling others.                      *)
(***************************************************************************)
EXTENDS Sched, QueueLemmas

(* Where the current thread is while the processor is in its code, in its   *)
(* exit or in sched_switch on its behalf.                                   *)
CurrentThread ==
    /\ cpu = "thread" => kt_wchan[curthr] = NULL /\ kt_state[curthr] = "run"
    /\ cpu = "exit" => kt_wchan[curthr] = NULL /\ kt_state[curthr] = "exited"
    /\ cpu \in {"switch", "idle", "halted"} =>
         kt_wchan[curthr] # NULL \/ kt_state[curthr] = "exited"

(* A thread asleep on a mutex returns into kmutex_lock of that mutex.       *)
WaiterFrame ==
    \A t \in Thread : kt_wchan[t] \in Mutex => frame[t] = kt_wchan[t]

(* A thread that returns into kmutex_lock is still asleep there, or was     *)
(* handed the mutex, or is cancelled and will not return.                   *)
LockFrame ==
    \A t \in Thread, m \in Mutex : frame[t] = m =>
        \/ kt_state[t] = "exited" \/ cpu = "lost"
        \/ kt_wchan[t] = m
        \/ kt_wchan[t] = RunQ /\ (km_holder[m] = t \/ kt_cancelled[t])

(* The inductive invariant.                                                 *)
IInv ==
    /\ TypeOK /\ QueueDiscipline /\ CurrentThread
    /\ WaiterFrame /\ LockFrame
    /\ LockReturnsHeld /\ NoWaiterOnFreeMutex /\ HolderWillKnow
    /\ RunningNotCancelled

-----------------------------------------------------------------------------
(* What the queue operations of sched.c do to the queues.                   *)

(* Every queue holds, once each, the threads whose kt_wchan names it.       *)
Queues ==
    \A q \in Queue :
        /\ tq_size[q] = Len(queue[q])
        /\ IsInjective(queue[q])
        /\ Range(queue[q]) = {t \in Thread : kt_wchan[t] = q}

QueueTypes ==
    /\ queue \in [Queue -> Seq(Thread)]
    /\ tq_size \in [Queue -> Nat]
    /\ kt_wchan \in [Thread -> Queue \cup {NULL}]

(* ktqueue_enqueue of a thread that is on no queue keeps the queues right.  *)
LEMMA EnqueueQueues ==
    ASSUME QueueTypes, Queues,
           NEW q \in Queue, NEW t \in Thread, kt_wchan[t] = NULL,
           ktqueue_enqueue(q, t)
    PROVE  QueueTypes' /\ Queues'
<1>0. NULL \notin Queue
  BY ConstantsOK
<1>1. /\ queue' = [queue EXCEPT ![q] = Append(queue[q], t)]
      /\ tq_size' = [tq_size EXCEPT ![q] = tq_size[q] + 1]
      /\ kt_wchan' = [kt_wchan EXCEPT ![t] = q]
  BY DEF ktqueue_enqueue
<1>2. QueueTypes'
  BY <1>1 DEF QueueTypes
<1>3. ASSUME NEW r \in Queue
      PROVE  /\ tq_size'[r] = Len(queue'[r])
             /\ IsInjective(queue'[r])
             /\ Range(queue'[r]) = {u \in Thread : kt_wchan'[u] = r}
  <2>1. CASE r = q
    <3>1. queue'[r] = Append(queue[q], t) /\ tq_size'[r] = tq_size[q] + 1
      BY <1>1, <2>1 DEF QueueTypes
    <3>2. t \notin Range(queue[q])
      BY <1>0 DEF Queues
    <3>3. queue[q] \in Seq(Thread)
      BY DEF QueueTypes
    <3>4. /\ Range(queue'[r]) = Range(queue[q]) \cup {t}
          /\ IsInjective(queue'[r])
      BY <3>1, <3>2, <3>3, AppendElements DEF Queues
    <3>5. Len(queue'[r]) = Len(queue[q]) + 1
      BY <3>1, <3>3, AppendProperties
    <3>6. {u \in Thread : kt_wchan'[u] = r} = {u \in Thread : kt_wchan[u] = q} \cup {t}
      BY <1>1, <2>1 DEF QueueTypes
    <3> QED BY <3>1, <3>4, <3>5, <3>6 DEF Queues
  <2>2. CASE r # q
    <3>1. queue'[r] = queue[r] /\ tq_size'[r] = tq_size[r]
      BY <1>1, <2>2 DEF QueueTypes
    <3>2. {u \in Thread : kt_wchan'[u] = r} = {u \in Thread : kt_wchan[u] = r}
      BY Zenon, <1>0, <1>1, <2>2 DEF QueueTypes
    <3> QED BY <3>1, <3>2 DEF Queues
  <2> QED BY <2>1, <2>2
<1> QED BY <1>2, <1>3 DEF Queues

(* Taking one thread out of a queue and putting it on the run queue, as     *)
(* sched_wakeup_on and sched_cancel do, keeps the queues right.             *)
LEMMA MoveQueues ==
    ASSUME QueueTypes, Queues,
           NEW q \in Queue \ {RunQ}, NEW t \in Thread, NEW rest \in Seq(Thread),
           t \in Range(queue[q]),
           Len(rest) = Len(queue[q]) - 1, IsInjective(rest),
           Range(rest) = Range(queue[q]) \ {t},
           queue' = [queue EXCEPT ![q] = rest, ![RunQ] = Append(@, t)],
           tq_size' = [tq_size EXCEPT ![q] = @ - 1, ![RunQ] = @ + 1],
           kt_wchan' = [kt_wchan EXCEPT ![t] = RunQ]
    PROVE  QueueTypes' /\ Queues'
<1>0. RunQ \in Queue /\ NULL \notin Queue
  BY ConstantsOK DEF Queue
<1>1. /\ queue[q] \in Seq(Thread) /\ queue[RunQ] \in Seq(Thread)
      /\ queue'[q] = rest
      /\ queue'[RunQ] = Append(queue[RunQ], t)
      /\ \A r \in Queue \ {q, RunQ} : queue'[r] = queue[r]
  BY <1>0 DEF QueueTypes
<1>2. /\ tq_size'[q] = tq_size[q] - 1
      /\ tq_size'[RunQ] = tq_size[RunQ] + 1
      /\ \A r \in Queue \ {q, RunQ} : tq_size'[r] = tq_size[r]
  BY <1>0 DEF QueueTypes
<1>3. /\ tq_size[q] = Len(queue[q]) /\ tq_size[RunQ] = Len(queue[RunQ])
      /\ Len(rest) \in Nat /\ Len(queue[RunQ]) \in Nat /\ Len(queue[q]) \in Nat
  BY Zenon, <1>0, <1>1, LenProperties DEF Queues
<1>4. kt_wchan[t] = q
  BY DEF Queues
<1>5. /\ Range(queue[q]) = {u \in Thread : kt_wchan[u] = q}
      /\ Range(queue[RunQ]) = {u \in Thread : kt_wchan[u] = RunQ}
      /\ IsInjective(queue[RunQ])
  BY <1>0 DEF Queues
<1>6. t \notin Range(queue[RunQ])
  BY <1>4, <1>5
<1>7. /\ Range(queue'[RunQ]) = Range(queue[RunQ]) \cup {t}
      /\ IsInjective(queue'[RunQ])
      /\ Len(queue'[RunQ]) = Len(queue[RunQ]) + 1
      /\ queue'[RunQ] \in Seq(Thread)
  <2>1. /\ Range(Append(queue[RunQ], t)) = Range(queue[RunQ]) \cup {t}
        /\ IsInjective(Append(queue[RunQ], t))
    BY <1>1, <1>5, <1>6, AppendElements
  <2>2. /\ Len(Append(queue[RunQ], t)) = Len(queue[RunQ]) + 1
        /\ Append(queue[RunQ], t) \in Seq(Thread)
    BY <1>1, AppendProperties
  <2> QED BY Zenon, <1>1, <2>1, <2>2
<1>8. \A u \in Thread : kt_wchan'[u] = IF u = t THEN RunQ ELSE kt_wchan[u]
  BY DEF QueueTypes
<1>9. QueueTypes'
  <2>1. queue' \in [Queue -> Seq(Thread)]
    BY Zenon, <1>1, <1>7 DEF QueueTypes
  <2>2. tq_size' \in [Queue -> Nat]
    <3>1. tq_size[q] - 1 \in Nat /\ tq_size[RunQ] + 1 \in Nat
      BY <1>3
    <3> QED BY Zenon, <3>1, <1>0 DEF QueueTypes
  <2>3. kt_wchan' \in [Thread -> Queue \cup {NULL}]
    BY <1>0 DEF QueueTypes
  <2> QED BY Zenon, <2>1, <2>2, <2>3 DEF QueueTypes
<1>10. ASSUME NEW r \in Queue
       PROVE  /\ tq_size'[r] = Len(queue'[r])
              /\ IsInjective(queue'[r])
              /\ Range(queue'[r]) = {u \in Thread : kt_wchan'[u] = r}
  <2>1. CASE r = q
    <3>1. {u \in Thread : kt_wchan'[u] = q} = {u \in Thread : kt_wchan[u] = q} \ {t}
      BY <1>8
    <3> QED BY ZenonT(40), <3>1, <2>1, <1>1, <1>2, <1>3, <1>5
  <2>2. CASE r = RunQ
    <3>1. {u \in Thread : kt_wchan'[u] = RunQ} = {u \in Thread : kt_wchan[u] = RunQ} \cup {t}
      BY <1>8
    <3> QED BY ZenonT(40), <3>1, <2>2, <1>2, <1>3, <1>5, <1>7
  <2>3. CASE r \in Queue \ {q, RunQ}
    <3>1. {u \in Thread : kt_wchan'[u] = r} = {u \in Thread : kt_wchan[u] = r}
      BY <1>4, <1>8, <2>3
    <3> QED BY Zenon, <3>1, <2>3, <1>1, <1>2 DEF Queues
  <2> QED BY Zenon, <2>1, <2>2, <2>3
<1> QED BY Zenon, <1>9, <1>10 DEF Queues

(* sched_wakeup_on: nothing happens, or the first sleeper is moved.         *)
LEMMA WakeupQueues ==
    ASSUME QueueTypes, Queues, NEW q \in Queue \ {RunQ}, Wakeup(q)
    PROVE  /\ QueueTypes' /\ Queues'
           /\ \/ queue[q] = <<>> /\ UNCHANGED <<queue, kt_state, kt_wchan>>
              \/ /\ queue[q] # <<>>
                 /\ Head(queue[q]) \in Thread /\ kt_wchan[Head(queue[q])] = q
                 /\ kt_state' = [kt_state EXCEPT ![Head(queue[q])] = "run"]
                 /\ kt_wchan' = [kt_wchan EXCEPT ![Head(queue[q])] = RunQ]
                 /\ queue' = [queue EXCEPT ![q] = Tail(@),
                                           ![RunQ] = Append(@, Head(queue[q]))]
<1>1. CASE queue[q] = <<>>
  BY <1>1 DEF Wakeup, queuevars, QueueTypes, Queues
<1>2. CASE queue[q] # <<>>
  <2>1. queue[q] \in Seq(Thread) /\ IsInjective(queue[q])
    BY DEF QueueTypes, Queues
  <2>2. /\ Head(queue[q]) \in Thread /\ Head(queue[q]) \in Range(queue[q])
        /\ Tail(queue[q]) \in Seq(Thread) /\ Len(Tail(queue[q])) = Len(queue[q]) - 1
        /\ Range(Tail(queue[q])) = Range(queue[q]) \ {Head(queue[q])}
        /\ IsInjective(Tail(queue[q]))
    BY <1>2, <2>1, TailElements
  <2>3. kt_wchan[Head(queue[q])] = q
    BY <2>2 DEF Queues
  <2>4. /\ queue' = [queue EXCEPT ![q] = Tail(queue[q]), ![RunQ] = Append(@, Head(queue[q]))]
        /\ queue' = [queue EXCEPT ![q] = Tail(@), ![RunQ] = Append(@, Head(queue[q]))]
        /\ tq_size' = [tq_size EXCEPT ![q] = @ - 1, ![RunQ] = @ + 1]
        /\ kt_state' = [kt_state EXCEPT ![Head(queue[q])] = "run"]
        /\ kt_wchan' = [kt_wchan EXCEPT ![Head(queue[q])] = RunQ]
    BY <1>2 DEF Wakeup
  <2>5. QueueTypes' /\ Queues'
    BY Zenon, <2>2, <2>4, MoveQueues
  <2> QED BY <1>2, <2>2, <2>3, <2>4, <2>5
<1> QED BY <1>1, <1>2

(* sched_cancel of a sleeper: it is moved.                                  *)
LEMMA CancelQueues ==
    ASSUME QueueTypes, Queues, NEW t \in Thread,
           kt_wchan[t] \in Queue \ {RunQ}, sched_cancel(t)
    PROVE  /\ QueueTypes' /\ Queues'
           /\ kt_state' = [kt_state EXCEPT ![t] = "run"]
           /\ kt_wchan' = [kt_wchan EXCEPT ![t] = RunQ]
<1> DEFINE q == kt_wchan[t]
<1>1. /\ kt_state' = [kt_state EXCEPT ![t] = "run"]
      /\ tq_size' = [tq_size EXCEPT ![q] = @ - 1, ![RunQ] = @ + 1]
      /\ kt_wchan' = [kt_wchan EXCEPT ![t] = RunQ]
  BY DEF sched_cancel
<1>2. PICK i \in 1..Len(queue[q]) :
        /\ queue[q][i] = t
        /\ queue' = [queue EXCEPT ![q] = RemoveAt(queue[q], i), ![RunQ] = Append(@, t)]
  BY Zenon DEF sched_cancel
<1>3. queue[q] \in Seq(Thread) /\ IsInjective(queue[q])
  BY DEF QueueTypes, Queues
<1>4. t \in Range(queue[q])
  BY DEF Queues
<1>5. q \in Queue \ {RunQ}
  OBVIOUS
<1> HIDE DEF q
<1>6. /\ RemoveAt(queue[q], i) \in Seq(Thread)
      /\ Len(RemoveAt(queue[q], i)) = Len(queue[q]) - 1
      /\ Range(RemoveAt(queue[q], i)) = Range(queue[q]) \ {t}
      /\ IsInjective(RemoveAt(queue[q], i))
  BY ZenonT(40), <1>2, <1>3, RemoveAtElements
<1>7. QueueTypes' /\ Queues'
  BY Zenon, <1>1, <1>2, <1>4, <1>5, <1>6, MoveQueues
<1> QED BY <1>1, <1>7

(* sched_broadcast_on: all the sleepers are moved.                          *)
LEMMA BroadcastQueues ==
    ASSUME QueueTypes, Queues, NEW q \in Queue \ {RunQ}, Broadcast(q)
    PROVE  /\ QueueTypes' /\ Queues'
           /\ kt_state' = [u \in Thread |-> IF kt_wchan[u] = q THEN "run" ELSE kt_state[u]]
           /\ kt_wchan' = [u \in Thread |-> IF kt_wchan[u] = q THEN RunQ ELSE kt_wchan[u]]
           /\ \A r \in Queue \ {q, RunQ} : queue'[r] = queue[r]
<1>0. RunQ \in Queue /\ NULL \notin Queue /\ q \in Queue
  BY ConstantsOK DEF Queue
<1>1. /\ queue[q] \in Seq(Thread) /\ queue[RunQ] \in Seq(Thread)
      /\ queue'[q] = <<>> /\ queue'[RunQ] = queue[RunQ] \o queue[q]
      /\ \A r \in Queue \ {q, RunQ} : queue'[r] = queue[r]
      /\ tq_size'[q] = 0 /\ tq_size'[RunQ] = tq_size[RunQ] + Len(queue[q])
      /\ \A r \in Queue \ {q, RunQ} : tq_size'[r] = tq_size[r]
  BY Zenon, <1>0 DEF QueueTypes, Broadcast
<1>2. /\ Range(queue[q]) = {u \in Thread : kt_wchan[u] = q}
      /\ Range(queue[RunQ]) = {u \in Thread : kt_wchan[u] = RunQ}
      /\ IsInjective(queue[RunQ]) /\ IsInjective(queue[q])
      /\ tq_size[q] = Len(queue[q]) /\ tq_size[RunQ] = Len(queue[RunQ])
  BY <1>0 DEF Queues
<1>3. Range(queue[RunQ]) \cap Range(queue[q]) = {}
  BY <1>2
<1>4. /\ Range(queue[RunQ] \o queue[q]) = Range(queue[RunQ]) \cup Range(queue[q])
      /\ IsInjective(queue[RunQ] \o queue[q])
  BY <1>1, <1>2, <1>3, ConcatElements
<1>5. /\ queue[RunQ] \o queue[q] \in Seq(Thread)
      /\ Len(queue[RunQ] \o queue[q]) = Len(queue[RunQ]) + Len(queue[q])
      /\ Len(queue[RunQ]) \in Nat /\ Len(queue[q]) \in Nat
  BY <1>1, ConcatProperties, LenProperties
<1>6. /\ kt_state' = [u \in Thread |-> IF kt_wchan[u] = q THEN "run" ELSE kt_state[u]]
      /\ kt_wchan' = [u \in Thread |-> IF kt_wchan[u] = q THEN RunQ ELSE kt_wchan[u]]
  BY <1>2 DEF Broadcast
<1>7. QueueTypes'
  <2>1. queue' \in [Queue -> Seq(Thread)]
    <3>1. queue' = [queue EXCEPT ![q] = <<>>, ![RunQ] = queue[RunQ] \o queue[q]]
      BY <1>0 DEF Broadcast, QueueTypes
    <3>2. <<>> \in Seq(Thread)
      OBVIOUS
    <3> QED BY Zenon, <1>0, <1>5, <3>1, <3>2 DEF QueueTypes
  <2>2. tq_size' \in [Queue -> Nat]
    <3>1. \A a, b \in Nat : a + b \in Nat
      OBVIOUS
    <3>2. tq_size[RunQ] + Len(queue[q]) \in Nat
      BY <1>0, <1>5, <3>1 DEF QueueTypes
    <3> QED BY Zenon, <1>0, <3>2 DEF QueueTypes, Broadcast
  <2>3. kt_wchan' \in [Thread -> Queue \cup {NULL}]
    BY <1>0, <1>6 DEF QueueTypes
  <2> QED BY <2>1, <2>2, <2>3 DEF QueueTypes
<1>8. ASSUME NEW r \in Queue
      PROVE  /\ tq_size'[r] = Len(queue'[r])
             /\ IsInjective(queue'[r])
             /\ Range(queue'[r]) = {u \in Thread : kt_wchan'[u] = r}
  <2>1. CASE r = q
    <3>1. {u \in Thread : kt_wchan'[u] = q} = {}
      BY <1>6
    <3>2. Range(<<>>) = {} /\ IsInjective(<<>>) /\ Len(<<>>) = 0
      BY DEF Range, IsInjective
    <3> QED BY <3>1, <3>2, <2>1, <1>1
  <2>2. CASE r = RunQ
    <3>1. {u \in Thread : kt_wchan'[u] = RunQ} = Range(queue[RunQ]) \cup Range(queue[q])
      BY <1>2, <1>6
    <3> QED BY Zenon, <3>1, <2>2, <1>1, <1>2, <1>4, <1>5
  <2>3. CASE r \in Queue \ {q, RunQ}
    <3>1. {u \in Thread : kt_wchan'[u] = r} = {u \in Thread : kt_wchan[u] = r}
      BY <1>6, <2>3
    <3> QED BY <3>1, <2>3, <1>1 DEF Queues
  <2> QED BY <2>1, <2>2, <2>3
<1> QED BY Zenon, <1>1, <1>6, <1>7, <1>8 DEF Queues

(* Taking the first thread off the run queue, as sched_switch does.         *)
LEMMA DequeueQueues ==
    ASSUME QueueTypes, Queues, NEW t, queue[RunQ] # <<>>, t = queue[RunQ][1],
           queue' = [queue EXCEPT ![RunQ] = SubSeq(@, 2, Len(@))],
           tq_size' = [tq_size EXCEPT ![RunQ] = @ - 1],
           kt_wchan' = [u \in Thread |-> IF u = t THEN NULL ELSE kt_wchan[u]]
    PROVE  /\ QueueTypes' /\ Queues'
           /\ t \in Thread /\ kt_wchan[t] = RunQ
<1>0. RunQ \in Queue /\ NULL \notin Queue
  BY ConstantsOK DEF Queue
<1> DEFINE s == queue[RunQ]
<1>1. s \in Seq(Thread) /\ IsInjective(s) /\ s # <<>>
  BY <1>0 DEF QueueTypes, Queues
<1>2. Tail(s) = SubSeq(s, 2, Len(s)) /\ Head(s) = t
  BY <1>1, TailIsSubSeq
<1>3. /\ t \in Thread /\ t \in Range(s)
      /\ Tail(s) \in Seq(Thread) /\ Len(Tail(s)) = Len(s) - 1
      /\ Range(Tail(s)) = Range(s) \ {t} /\ IsInjective(Tail(s))
      /\ Len(Tail(s)) \in Nat
  BY <1>1, <1>2, TailElements, LenProperties
<1>4. queue' = [queue EXCEPT ![RunQ] = Tail(s)]
  BY Zenon, <1>2
<1>5. /\ queue'[RunQ] = Tail(s) /\ \A r \in Queue \ {RunQ} : queue'[r] = queue[r]
      /\ tq_size'[RunQ] = tq_size[RunQ] - 1
      /\ \A r \in Queue \ {RunQ} : tq_size'[r] = tq_size[r]
  BY Zenon, <1>0, <1>4 DEF QueueTypes
<1>6. kt_wchan[t] = RunQ /\ tq_size[RunQ] = Len(s)
      /\ Range(s) = {u \in Thread : kt_wchan[u] = RunQ}
  BY <1>0, <1>3 DEF Queues
<1>7. QueueTypes'
  <2>1. queue' \in [Queue -> Seq(Thread)]
    BY Zenon, <1>3, <1>4 DEF QueueTypes
  <2>2. tq_size' \in [Queue -> Nat]
    <3>1. tq_size[RunQ] - 1 \in Nat
      BY <1>3, <1>6
    <3> QED BY <1>0, <3>1 DEF QueueTypes
  <2>3. kt_wchan' \in [Thread -> Queue \cup {NULL}]
    BY DEF QueueTypes
  <2> QED BY <2>1, <2>2, <2>3 DEF QueueTypes
<1> HIDE DEF s
<1>8. ASSUME NEW r \in Queue
      PROVE  /\ tq_size'[r] = Len(queue'[r])
             /\ IsInjective(queue'[r])
             /\ Range(queue'[r]) = {u \in Thread : kt_wchan'[u] = r}
  <2>1. CASE r = RunQ
    <3>1. {u \in Thread : kt_wchan'[u] = RunQ} = Range(s) \ {t}
      BY <1>0, <1>6
    <3> QED BY ZenonT(40), <3>1, <2>1, <1>3, <1>5, <1>6
  <2>2. CASE r # RunQ
    <3>1. {u \in Thread : kt_wchan'[u] = r} = {u \in Thread : kt_wchan[u] = r}
      BY <1>0, <1>6, <2>2
    <3> QED BY ZenonT(40), <3>1, <2>2, <1>5 DEF Queues
  <2> QED BY Zenon, <2>1, <2>2
<1> QED BY Zenon, <1>3, <1>6, <1>7, <1>8 DEF Queues

-----------------------------------------------------------------------------
(* The inductive invariant, apart from the queues, in terms of kt_wchan.    *)

OtherTypes ==
    /\ kt_state \in [Thread -> State]
    /\ kt_cancelled \in [Thread -> BOOLEAN]
    /\ km_holder \in [Mutex -> Thread \cup {NULL}]
    /\ curthr \in Thread
    /\ kstack \in Thread
    /\ resumable \subseteq Thread
    /\ frame \in [Thread -> Frame]
    /\ savedipl \in [Thread -> {LOW, HIGH}]
    /\ crit \in [Thread -> SUBSET Mutex]
    /\ cpu \in Cpu
    /\ ipl \in {LOW, HIGH}
    /\ swipl \in {LOW, HIGH}
    /\ devbusy \subseteq DevQ

Placement ==
    \A t \in Thread :
        \/ kt_wchan[t] = NULL /\ OffQueue(t)
        \/ kt_wchan[t] = RunQ /\ kt_state[t] = "run"
        \/ /\ kt_wchan[t] \in Mutex \cup WaitQ \cup DevQ
           /\ kt_state[t] \in {"sleep", "sleep_cancellable"}

WaitedForIsHeld ==
    \A m \in Mutex, t \in Thread : kt_wchan[t] = m => km_holder[m] # NULL

Core ==
    /\ Placement /\ CurrentThread
    /\ WaiterFrame /\ LockFrame
    /\ LockReturnsHeld /\ WaitedForIsHeld /\ HolderWillKnow
    /\ RunningNotCancelled

(* A mutex has waiters exactly if some kt_wchan names it.                   *)
LEMMA WaitersByChannel ==
    ASSUME QueueTypes, Queues
    PROVE  NoWaiterOnFreeMutex <=> WaitedForIsHeld
<1>1. \A m \in Mutex : queue[m] \in Seq(Thread) /\ Range(queue[m]) = {t \in Thread : kt_wchan[t] = m}
  BY DEF QueueTypes, Queues, Queue
<1>2. \A m \in Mutex : queue[m] = <<>> <=> Range(queue[m]) = {}
  BY <1>1, RangeProperties
<1> QED BY Zenon, <1>1, <1>2 DEF NoWaiterOnFreeMutex, WaitedForIsHeld

(* The same about the next state.                                           *)
LEMMA WaitersByChannelNext ==
    ASSUME QueueTypes', Queues'
    PROVE  NoWaiterOnFreeMutex' <=> WaitedForIsHeld'
<1>1. \A m \in Mutex : queue'[m] \in Seq(Thread) /\ Range(queue'[m]) = {t \in Thread : kt_wchan'[t] = m}
  BY DEF QueueTypes, Queues, Queue
<1>2. \A m \in Mutex : queue'[m] = <<>> <=> Range(queue'[m]) = {}
  BY <1>1, RangeProperties
<1> QED BY Zenon, <1>1, <1>2 DEF NoWaiterOnFreeMutex, WaitedForIsHeld

(* The inductive invariant in these parts.                                  *)
LEMMA Parts == IInv => QueueTypes /\ Queues /\ OtherTypes /\ Core
<1> SUFFICES ASSUME IInv PROVE QueueTypes /\ Queues /\ OtherTypes /\ Core
  OBVIOUS
<1>1. QueueTypes /\ Queues /\ OtherTypes /\ Placement
  BY DEF IInv, TypeOK, QueueDiscipline, QueueTypes, Queues, OtherTypes, Placement
<1>2. WaitedForIsHeld
  BY <1>1, WaitersByChannel DEF IInv
<1> QED BY <1>1, <1>2 DEF IInv, Core

(* ... and put together again after a step.                                 *)
LEMMA Whole == QueueTypes' /\ Queues' /\ OtherTypes' /\ Core' => IInv'
<1> SUFFICES ASSUME QueueTypes', Queues', OtherTypes', Core' PROVE IInv'
  OBVIOUS
<1>1. NoWaiterOnFreeMutex'
  BY WaitersByChannelNext DEF Core
<1>2. TypeOK' /\ QueueDiscipline'
  BY DEF TypeOK, QueueDiscipline, QueueTypes, Queues, OtherTypes, Core, Placement
<1> QED BY <1>1, <1>2 DEF IInv, Core

-----------------------------------------------------------------------------
(* One lemma per kind of step.                                              *)

(* The running thread goes to sleep.                                        *)
LEMMA SleepStep ==
    ASSUME IInv, cpu = "thread",
           NEW q \in Mutex \cup WaitQ \cup DevQ,
           NEW st \in {"sleep", "sleep_cancellable"},
           NEW fr \in Frame, NEW level \in {LOW, HIGH},
           q \in Mutex => fr = q /\ km_holder[q] # NULL,
           q \notin Mutex => fr \notin Mutex,
           SleepOn(q, st, fr, level), UNCHANGED km_holder, devbusy' \subseteq DevQ
    PROVE  IInv'
<1> USE DEF LOW, HIGH
<1>1. QueueTypes /\ Queues /\ OtherTypes /\ Core
  BY Parts
<1>2. /\ kt_state' = [kt_state EXCEPT ![curthr] = st]
      /\ ktqueue_enqueue(q, curthr)
      /\ kt_wchan' = [kt_wchan EXCEPT ![curthr] = q]
      /\ frame' = [frame EXCEPT ![curthr] = fr]
      /\ savedipl' = [savedipl EXCEPT ![curthr] = ipl]
      /\ ipl' = level /\ cpu' = "switch"
      /\ UNCHANGED <<kt_cancelled, curthr, kstack, resumable, crit, swipl, km_holder>>
  BY Zenon DEF SleepOn, ktqueue_enqueue
<1>3. curthr \in Thread /\ kt_wchan[curthr] = NULL /\ q \in Queue
  BY Zenon, <1>1 DEF Core, CurrentThread, OtherTypes, Queue
<1>4. QueueTypes' /\ Queues'
  BY <1>1, <1>2, <1>3, EnqueueQueues
<1>5. OtherTypes'
  BY <1>1, <1>2 DEF OtherTypes, State, Cpu
<1>6. /\ q # NULL /\ q # RunQ /\ NULL # RunQ
      /\ kt_wchan' = [kt_wchan EXCEPT ![curthr] = q]
      /\ kt_wchan \in [Thread -> Queue \cup {NULL}]
  BY Zenon, <1>1, <1>2, ConstantsOK DEF Queue, QueueTypes
<1>7. Placement'
  BY <1>1, <1>2, <1>3, <1>6 DEF Core, Placement, OffQueue, Unstarted, OtherTypes
<1>8. CurrentThread'
  BY Zenon, <1>1, <1>2, <1>3, <1>6 DEF CurrentThread, OtherTypes
<1>9. WaiterFrame'
  BY Zenon, <1>1, <1>2, <1>3, <1>6 DEF Core, WaiterFrame, OtherTypes
<1>10. LockFrame'
  BY SMTT(30), <1>1, <1>2, <1>3, <1>6 DEF Core, LockFrame, OtherTypes
<1>11. LockReturnsHeld' /\ RunningNotCancelled'
  BY Zenon, <1>1, <1>2 DEF Core, LockReturnsHeld, RunningNotCancelled
<1>12. WaitedForIsHeld'
  BY ZenonT(40), <1>1, <1>2, <1>3, <1>6 DEF Core, WaitedForIsHeld
<1>13. HolderWillKnow'
  BY SMTT(30), <1>1, <1>2, <1>3, <1>6 DEF Core, HolderWillKnow, CurrentThread, OtherTypes
<1> QED BY <1>4, <1>5, <1>7, <1>8, <1>9, <1>10, <1>11, <1>12, <1>13, Whole DEF Core

(* Some of the threads asleep on one wait or device queue become runnable;  *)
(* the processor stays where it is or goes on inside sched_switch.          *)
LEMMA WakeStep ==
    ASSUME IInv, QueueTypes', Queues',
           NEW woken \in SUBSET Thread,
           \A t \in woken : kt_wchan[t] \in WaitQ \cup DevQ,
           kt_wchan' = [t \in Thread |-> IF t \in woken THEN RunQ ELSE kt_wchan[t]],
           kt_state' = [t \in Thread |-> IF t \in woken THEN "run" ELSE kt_state[t]],
           UNCHANGED <<kt_cancelled, km_holder, curthr, ctxvars, crit>>,
           \/ cpu' = cpu
           \/ /\ cpu \in {"exit", "switch", "idle", "halted"}
              /\ cpu' \in {"switch", "idle", "halted"},
           ipl' \in {LOW, HIGH}, swipl' \in {LOW, HIGH}, devbusy' \subseteq DevQ
    PROVE  IInv'
<1> USE DEF LOW, HIGH, ctxvars
<1>1. QueueTypes /\ Queues /\ OtherTypes /\ Core
  BY Zenon, Parts
<1>2. NULL \notin Queue /\ RunQ \notin Mutex \cup WaitQ \cup DevQ
      /\ Mutex \cap (WaitQ \cup DevQ) = {} /\ RunQ \in Queue
      /\ WaitQ \cup DevQ \subseteq Queue
  BY ConstantsOK DEF Queue
<1>3. OtherTypes'
  BY <1>1 DEF OtherTypes, State, Cpu
<1>4. \A t \in woken : kt_state[t] \in {"sleep", "sleep_cancellable"}
  BY <1>1, <1>2 DEF Core, Placement
<1>5. Placement'
  BY ZenonT(40), <1>1, <1>2, <1>4 DEF Core, Placement, OffQueue, Unstarted
<1>6. CurrentThread'
  BY Zenon, <1>1, <1>2, <1>4 DEF Core, CurrentThread, OtherTypes
<1>7. WaiterFrame' /\ LockReturnsHeld' /\ WaitedForIsHeld'
  BY Zenon, <1>1, <1>2 DEF Core, WaiterFrame, LockReturnsHeld, WaitedForIsHeld
<1>8. LockFrame'
  BY ZenonT(40), <1>1, <1>2, <1>4 DEF Core, LockFrame
<1>9. HolderWillKnow'
  BY ZenonT(40), <1>1, <1>2, <1>4 DEF Core, HolderWillKnow
<1>10. RunningNotCancelled'
  BY Zenon, <1>1 DEF Core, RunningNotCancelled
<1> QED BY ZenonT(40), <1>3, <1>5, <1>6, <1>7, <1>8, <1>9, <1>10, Whole DEF Core

(* sched_wakeup_on of a wait queue, by a thread or in proc_thread_exited.   *)
LEMMA WakeupStep ==
    ASSUME IInv, NEW q \in WaitQ, Wakeup(q),
           UNCHANGED <<kt_cancelled, km_holder, curthr, ctxvars, crit, ipl, swipl, devbusy>>,
           cpu' = cpu \/ (cpu = "exit" /\ cpu' = "switch")
    PROVE  IInv'
<1>1. QueueTypes /\ Queues /\ OtherTypes
  BY Parts
<1>2. q \in Queue \ {RunQ}
  BY Zenon, ConstantsOK DEF Queue
<1>3. /\ QueueTypes' /\ Queues'
      /\ \/ UNCHANGED <<kt_state, kt_wchan>>
         \/ /\ Head(queue[q]) \in Thread /\ kt_wchan[Head(queue[q])] = q
            /\ kt_state' = [kt_state EXCEPT ![Head(queue[q])] = "run"]
            /\ kt_wchan' = [kt_wchan EXCEPT ![Head(queue[q])] = RunQ]
  BY Zenon, <1>1, <1>2, WakeupQueues
<1>4. \E woken \in SUBSET Thread :
         /\ \A t \in woken : kt_wchan[t] \in WaitQ \cup DevQ
         /\ kt_wchan' = [t \in Thread |-> IF t \in woken THEN RunQ ELSE kt_wchan[t]]
         /\ kt_state' = [t \in Thread |-> IF t \in woken THEN "run" ELSE kt_state[t]]
  <2>1. CASE UNCHANGED <<kt_state, kt_wchan>>
    <3> WITNESS {} \in SUBSET Thread
    <3> QED BY <1>1, <2>1 DEF QueueTypes, OtherTypes
  <2>2. CASE /\ Head(queue[q]) \in Thread /\ kt_wchan[Head(queue[q])] = q
             /\ kt_state' = [kt_state EXCEPT ![Head(queue[q])] = "run"]
             /\ kt_wchan' = [kt_wchan EXCEPT ![Head(queue[q])] = RunQ]
    <3>1. {Head(queue[q])} \in SUBSET Thread
      BY <2>2
    <3> WITNESS {Head(queue[q])} \in SUBSET Thread
    <3> QED BY Zenon, <1>1, <2>2 DEF QueueTypes, OtherTypes
  <2> QED BY Zenon, <1>3, <2>1, <2>2
<1>5. ipl' \in {LOW, HIGH} /\ swipl' \in {LOW, HIGH} /\ devbusy' \subseteq DevQ
  BY <1>1 DEF OtherTypes
<1> QED BY <1>3, <1>4, <1>5, WakeStep

(* sched_broadcast_on of a wait or device queue.                            *)
LEMMA BroadcastStep ==
    ASSUME IInv, NEW q \in WaitQ \cup DevQ, Broadcast(q),
           UNCHANGED <<kt_cancelled, km_holder, curthr, ctxvars, crit, swipl>>,
           cpu' = cpu \/ (cpu = "halted" /\ cpu' = "switch"),
           ipl' \in {LOW, HIGH}, devbusy' \subseteq DevQ
    PROVE  IInv'
<1>1. QueueTypes /\ Queues /\ OtherTypes
  BY Parts
<1>2. q \in Queue \ {RunQ}
  BY ConstantsOK DEF Queue
<1> DEFINE woken == {t \in Thread : kt_wchan[t] = q}
<1>3. /\ QueueTypes' /\ Queues'
      /\ kt_state' = [t \in Thread |-> IF t \in woken THEN "run" ELSE kt_state[t]]
      /\ kt_wchan' = [t \in Thread |-> IF t \in woken THEN RunQ ELSE kt_wchan[t]]
  BY <1>1, <1>2, BroadcastQueues
<1>4. woken \in SUBSET Thread /\ \A t \in woken : kt_wchan[t] \in WaitQ \cup DevQ
  OBVIOUS
<1>5. swipl' \in {LOW, HIGH}
  BY <1>1 DEF OtherTypes
<1> HIDE DEF woken
<1> QED BY <1>3, <1>4, <1>5, WakeStep

(* A step that changes nothing but where the processor is.                  *)
LEMMA QuietStep ==
    ASSUME IInv, UNCHANGED <<queuevars, threadvars, km_holder, curthr, ctxvars, crit>>,
           \/ cpu' = cpu
           \/ /\ cpu \in {"exit", "switch", "idle", "halted"}
              /\ cpu' \in {"switch", "idle", "halted"},
           ipl' \in {LOW, HIGH}, swipl' \in {LOW, HIGH}, devbusy' \subseteq DevQ
    PROVE  IInv'
<1>1. QueueTypes /\ Queues /\ OtherTypes
  BY Parts
<1>2. QueueTypes' /\ Queues'
  BY <1>1 DEF QueueTypes, Queues, queuevars, threadvars
<1>3. /\ {} \in SUBSET Thread /\ \A t \in {} : kt_wchan[t] \in WaitQ \cup DevQ
      /\ kt_wchan' = [t \in Thread |-> IF t \in {} THEN RunQ ELSE kt_wchan[t]]
      /\ kt_state' = [t \in Thread |-> IF t \in {} THEN "run" ELSE kt_state[t]]
      /\ UNCHANGED kt_cancelled
  BY <1>1 DEF QueueTypes, OtherTypes, threadvars
<1> QED BY Zenon, <1>2, <1>3, WakeStep

(* sched_make_runnable.                                                     *)
LEMMA MakeRunnableStep ==
    ASSUME IInv, NEW t \in Thread, sched_make_runnable(t)
    PROVE  IInv'
<1> USE DEF LOW, HIGH, ctxvars, threadvars, queuevars
<1>1. QueueTypes /\ Queues /\ OtherTypes /\ Core
  BY Parts
<1>2. NULL \notin Queue /\ RunQ \notin Mutex \cup WaitQ \cup DevQ
      /\ Mutex \cap (WaitQ \cup DevQ) = {} /\ RunQ \in Queue /\ Mutex \subseteq Queue
      /\ NULL \notin Thread
  BY ConstantsOK DEF Queue
<1>3. /\ cpu = "thread" /\ t # curthr /\ kt_state[t] = "run" /\ kt_wchan[t] = NULL
      /\ frame[t] = "start"
      /\ kt_state' = [kt_state EXCEPT ![t] = "run"]
      /\ ktqueue_enqueue(RunQ, t) /\ kt_wchan' = [kt_wchan EXCEPT ![t] = RunQ]
      /\ UNCHANGED <<kt_cancelled, km_holder, curthr, ctxvars, crit, cpu, ipl, swipl, devbusy>>
  BY DEF sched_make_runnable, Unstarted, ktqueue_enqueue
<1>4. QueueTypes' /\ Queues'
  BY Zenon, <1>1, <1>2, <1>3, EnqueueQueues
<1>5. OtherTypes'
  BY <1>1, <1>3 DEF OtherTypes, State
<1>6. kt_wchan \in [Thread -> Queue \cup {NULL}] /\ kt_state \in [Thread -> State]
  BY Zenon, <1>1 DEF QueueTypes, OtherTypes
<1>7. Placement'
  BY ZenonT(40), <1>1, <1>2, <1>3, <1>6 DEF Core, Placement, OffQueue, Unstarted
<1>8. CurrentThread' /\ RunningNotCancelled'
  BY ZenonT(40), <1>1, <1>2, <1>3, <1>6 DEF Core, CurrentThread, RunningNotCancelled, OtherTypes
<1>9. WaiterFrame' /\ LockReturnsHeld' /\ WaitedForIsHeld'
  BY ZenonT(40), <1>1, <1>2, <1>3, <1>6 DEF Core, WaiterFrame, LockReturnsHeld, WaitedForIsHeld
<1>10. LockFrame'
  BY ZenonT(40), <1>1, <1>2, <1>3, <1>6, ConstantsOK DEF Core, LockFrame
<1>11. HolderWillKnow'
  BY ZenonT(40), <1>1, <1>2, <1>3, <1>6 DEF Core, HolderWillKnow
<1> QED BY ZenonT(40), <1>4, <1>5, <1>7, <1>8, <1>9, <1>10, <1>11, Whole DEF Core

(* kmutex_lock of a free mutex.                                             *)
LEMMA TakeFreeStep ==
    ASSUME IInv, NEW m \in Mutex, cpu = "thread", km_holder[m] = NULL,
           km_holder' = [km_holder EXCEPT ![m] = curthr],
           crit' = [crit EXCEPT ![curthr] = @ \cup {m}],
           UNCHANGED <<queuevars, threadvars, curthr, ctxvars, cpu, ipl, swipl, devbusy>>
    PROVE  IInv'
<1> USE DEF LOW, HIGH, ctxvars, threadvars, queuevars
<1>1. QueueTypes /\ Queues /\ OtherTypes /\ Core
  BY Parts
<1>2. NULL \notin Queue /\ RunQ \notin Mutex \cup WaitQ \cup DevQ
      /\ Mutex \cap (WaitQ \cup DevQ) = {} /\ RunQ \in Queue /\ Mutex \subseteq Queue
      /\ NULL \notin Thread
  BY Zenon, ConstantsOK DEF Queue
<1>3. QueueTypes' /\ Queues'
  BY <1>1 DEF QueueTypes, Queues
<1>4. OtherTypes'
  BY SMTT(30), <1>1 DEF OtherTypes
<1>5. /\ km_holder \in [Mutex -> Thread \cup {NULL}] /\ crit \in [Thread -> SUBSET Mutex]
      /\ curthr \in Thread
  BY Zenon, <1>1 DEF OtherTypes
<1>6. Placement' /\ CurrentThread' /\ WaiterFrame' /\ RunningNotCancelled'
  BY Zenon, <1>1 DEF Core, Placement, OffQueue, Unstarted, CurrentThread, WaiterFrame,
              RunningNotCancelled
<1>7. LockFrame'
  BY ZenonT(40), <1>1, <1>2, <1>5 DEF Core, LockFrame
<1>8. LockReturnsHeld'
  BY SMTT(30), <1>1, <1>2, <1>5 DEF Core, LockReturnsHeld
<1>9. WaitedForIsHeld'
  BY ZenonT(40), <1>1, <1>2, <1>5 DEF Core, WaitedForIsHeld
<1>10. HolderWillKnow'
  BY ZenonT(40), <1>1, <1>2, <1>5 DEF Core, HolderWillKnow
<1> QED BY ZenonT(40), <1>3, <1>4, <1>6, <1>7, <1>8, <1>9, <1>10, Whole DEF Core

(* kmutex_unlock.                                                           *)
LEMMA UnlockStep ==
    ASSUME IInv, NEW m \in Mutex, kmutex_unlock(m)
    PROVE  IInv'
<1> USE DEF LOW, HIGH, ctxvars, threadvars, queuevars
<1>1. QueueTypes /\ Queues /\ OtherTypes /\ Core
  BY Parts
<1>2. NULL \notin Queue /\ RunQ \notin Mutex \cup WaitQ \cup DevQ
      /\ Mutex \cap (WaitQ \cup DevQ) = {} /\ RunQ \in Queue /\ Mutex \subseteq Queue
      /\ NULL \notin Thread
  BY Zenon, ConstantsOK DEF Queue
<1>3. /\ cpu = "thread" /\ m \in crit[curthr] /\ curthr \in Thread
      /\ crit' = [crit EXCEPT ![curthr] = @ \ {m}]
      /\ km_holder' = [km_holder EXCEPT ![m] = NewOwner(m)]
      /\ Wakeup(m)
      /\ UNCHANGED <<kt_cancelled, curthr, ctxvars, cpu, ipl, swipl, devbusy>>
  BY <1>1 DEF kmutex_unlock, OtherTypes
<1>4. km_holder[m] = curthr
  BY Zenon, <1>1, <1>3 DEF Core, LockReturnsHeld
<1>5. /\ QueueTypes' /\ Queues'
      /\ \/ queue[m] = <<>> /\ UNCHANGED <<queue, kt_state, kt_wchan>>
         \/ /\ queue[m] # <<>>
            /\ Head(queue[m]) \in Thread /\ kt_wchan[Head(queue[m])] = m
            /\ kt_state' = [kt_state EXCEPT ![Head(queue[m])] = "run"]
            /\ kt_wchan' = [kt_wchan EXCEPT ![Head(queue[m])] = RunQ]
  BY Zenon, <1>1, <1>2, <1>3, WakeupQueues
<1>6. /\ km_holder \in [Mutex -> Thread \cup {NULL}] /\ crit \in [Thread -> SUBSET Mutex]
      /\ kt_wchan \in [Thread -> Queue \cup {NULL}] /\ kt_state \in [Thread -> State]
  BY SMTT(30), <1>1 DEF OtherTypes, QueueTypes
<1>7. CASE queue[m] = <<>> /\ UNCHANGED <<queue, kt_state, kt_wchan>>
  <2>1. km_holder' = [km_holder EXCEPT ![m] = NULL]
    BY <1>3, <1>7 DEF NewOwner
  <2>2. \A t \in Thread : kt_wchan[t] # m
    <3>1. Range(queue[m]) = {t \in Thread : kt_wchan[t] = m} /\ queue[m] \in Seq(Thread)
      BY <1>1, <1>2 DEF Queues, QueueTypes
    <3>2. Range(queue[m]) = {}
      BY ZenonT(40), <3>1, <1>7, RangeProperties
    <3> QED BY <3>1, <3>2
  <2>3. OtherTypes'
    BY <1>1, <1>3, <1>7, <2>1 DEF OtherTypes
  <2>4. Placement' /\ CurrentThread' /\ WaiterFrame' /\ RunningNotCancelled'
    BY ZenonT(40), <1>1, <1>3, <1>7 DEF Core, Placement, OffQueue, Unstarted, CurrentThread,
                            WaiterFrame, RunningNotCancelled
  <2>5. LockFrame'
    <3>1. UNCHANGED <<kt_state, kt_wchan, kt_cancelled, frame, cpu>>
      BY <1>3, <1>7
    <3>2. ASSUME NEW n \in Mutex, NEW t \in Thread, t # curthr, km_holder[n] = t
          PROVE  km_holder'[n] = t
      BY ZenonT(40), <1>4, <1>6, <2>1, <3>2
    <3>3. kt_wchan[curthr] = NULL /\ NULL \notin Mutex \cup {RunQ}
          /\ kt_state[curthr] # "exited" /\ cpu # "lost"
      BY SMTT(30), <1>1, <1>2, <1>3 DEF Core, CurrentThread
    <3> QED BY ZenonT(40), <1>1, <3>1, <3>2, <3>3 DEF Core, LockFrame
  <2>6. LockReturnsHeld'
    BY Zenon, <1>1, <1>3, <1>4, <1>6, <2>1 DEF Core, LockReturnsHeld
  <2>7. WaitedForIsHeld'
    BY Zenon, <1>1, <1>6, <1>7, <2>1, <2>2 DEF Core, WaitedForIsHeld
  <2>8. HolderWillKnow'
    <3>1. UNCHANGED <<kt_state, kt_wchan, frame, cpu>>
      BY SMTT(30), <1>3, <1>7
    <3>2. ASSUME NEW n \in Mutex, NEW t \in Thread, km_holder'[n] = t
          PROVE  n # m /\ km_holder[n] = t /\ (n \in crit[t] => n \in crit'[t])
      BY Zenon, <1>2, <1>3, <1>6, <2>1, <3>2
    <3> QED BY ZenonT(40), <1>1, <3>1, <3>2 DEF Core, HolderWillKnow
  <2> QED BY ZenonT(40), <1>5, <2>3, <2>4, <2>5, <2>6, <2>7, <2>8, Whole DEF Core
<1>8. CASE /\ queue[m] # <<>>
           /\ Head(queue[m]) \in Thread /\ kt_wchan[Head(queue[m])] = m
           /\ kt_state' = [kt_state EXCEPT ![Head(queue[m])] = "run"]
           /\ kt_wchan' = [kt_wchan EXCEPT ![Head(queue[m])] = RunQ]
  <2> DEFINE h == Head(queue[m])
  <2>1. km_holder' = [km_holder EXCEPT ![m] = h] /\ h \in Thread /\ kt_wchan[h] = m
        /\ kt_state' = [kt_state EXCEPT ![h] = "run"]
        /\ kt_wchan' = [kt_wchan EXCEPT ![h] = RunQ]
    BY Zenon, <1>3, <1>8 DEF NewOwner
  <2> HIDE DEF h
  <2>2. /\ h # curthr /\ frame[h] = m /\ kt_state[h] \in {"sleep", "sleep_cancellable"}
    BY Zenon, <1>1, <1>2, <1>3, <2>1 DEF Core, CurrentThread, WaiterFrame, Placement
  <2>3. OtherTypes'
    BY SMTT(30), <1>1, <1>3, <2>1 DEF OtherTypes, State
  <2>4. Placement'
    BY ZenonT(40), <1>1, <1>2, <1>3, <1>6, <2>1, <2>2 DEF Core, Placement, OffQueue, Unstarted
  <2>5. CurrentThread' /\ RunningNotCancelled'
    BY Zenon, <1>1, <1>3, <1>6, <2>1, <2>2 DEF Core, CurrentThread, RunningNotCancelled
  <2>6. WaiterFrame'
    BY ZenonT(40), <1>1, <1>2, <1>3, <1>6, <2>1 DEF Core, WaiterFrame
  <2>7. LockFrame'
    <3> SUFFICES ASSUME NEW t \in Thread, NEW n \in Mutex, frame[t] = n
                 PROVE  \/ kt_state'[t] = "exited" \/ cpu' = "lost"
                        \/ kt_wchan'[t] = n
                        \/ kt_wchan'[t] = RunQ /\ (km_holder'[n] = t \/ kt_cancelled'[t])
      BY Zenon, <1>3 DEF LockFrame
    <3>1. CASE t = h
      BY Zenon, <1>6, <2>1, <2>2, <3>1
    <3>2. CASE t # h
      <4>1. kt_state'[t] = kt_state[t] /\ kt_wchan'[t] = kt_wchan[t]
        BY Zenon, <1>6, <2>1, <3>2
      <4>2. km_holder[n] = t /\ kt_wchan[t] = RunQ => km_holder'[n] = t
        <5>1. kt_wchan[curthr] # RunQ
          BY Zenon, <1>1, <1>2, <1>3 DEF Core, CurrentThread
        <5> QED BY Zenon, <1>4, <1>6, <2>1, <5>1
      <4> QED BY Zenon, <1>1, <1>3, <4>1, <4>2 DEF Core, LockFrame
    <3> QED BY Zenon, <3>1, <3>2
  <2>8. LockReturnsHeld'
    BY ZenonT(40), <1>1, <1>3, <1>4, <1>6, <2>1 DEF Core, LockReturnsHeld
  <2>9. WaitedForIsHeld'
    BY Zenon, <1>1, <1>2, <1>6, <2>1 DEF Core, WaitedForIsHeld
  <2>10. HolderWillKnow'
    BY SMTT(30), <1>1, <1>2, <1>3, <1>6, <2>1, <2>2 DEF Core, HolderWillKnow
  <2> QED BY ZenonT(40), <1>5, <2>3, <2>4, <2>5, <2>6, <2>7, <2>8, <2>9, <2>10, Whole DEF Core
<1> QED BY <1>5, <1>7, <1>8

(* kthread_cancel of another thread.                                        *)
LEMMA CancelStep ==
    ASSUME IInv, NEW t \in Thread, kthread_cancel(t)
    PROVE  IInv'
<1> USE DEF LOW, HIGH, ctxvars, threadvars, queuevars
<1>1. QueueTypes /\ Queues /\ OtherTypes /\ Core
  BY Parts
<1>2. NULL \notin Queue /\ RunQ \notin Mutex \cup WaitQ \cup DevQ
      /\ Mutex \cap (WaitQ \cup DevQ) = {} /\ RunQ \in Queue /\ Mutex \subseteq Queue
      /\ NULL \notin Thread
  BY ConstantsOK DEF Queue
<1>3. /\ cpu = "thread" /\ t # curthr /\ kt_state[t] # "exited" /\ curthr \in Thread
      /\ kt_cancelled' = [kt_cancelled EXCEPT ![t] = TRUE]
      /\ UNCHANGED <<km_holder, curthr, ctxvars, crit, cpu, ipl, swipl, devbusy>>
  BY <1>1 DEF kthread_cancel, OtherTypes
<1>4. /\ kt_cancelled \in [Thread -> BOOLEAN]
      /\ kt_wchan \in [Thread -> Queue \cup {NULL}] /\ kt_state \in [Thread -> State]
  BY <1>1 DEF OtherTypes, QueueTypes
<1>5. RunningNotCancelled'
  BY SMTT(30), <1>1, <1>3, <1>4 DEF Core, RunningNotCancelled
<1>6. CASE kt_state[t] \in {"sleep", "run"} /\ UNCHANGED <<queuevars, kt_state, kt_wchan>>
  <2>1. QueueTypes' /\ Queues'
    BY Zenon, <1>1, <1>6 DEF QueueTypes, Queues
  <2>2. OtherTypes'
    BY Zenon, <1>1, <1>3, <1>6 DEF OtherTypes
  <2>3. Placement' /\ CurrentThread' /\ WaiterFrame' /\ LockReturnsHeld'
        /\ WaitedForIsHeld' /\ HolderWillKnow'
    BY ZenonT(40), <1>1, <1>3, <1>6 DEF Core, Placement, OffQueue, Unstarted, CurrentThread,
       WaiterFrame, LockReturnsHeld, WaitedForIsHeld, HolderWillKnow
  <2>4. LockFrame'
    BY Zenon, <1>1, <1>3, <1>4, <1>6 DEF Core, LockFrame
  <2> QED BY Zenon, <1>5, <2>1, <2>2, <2>3, <2>4, Whole DEF Core
<1>7. CASE kt_state[t] = "sleep_cancellable" /\ sched_cancel(t)
  <2>1. kt_wchan[t] \in Mutex \cup WaitQ \cup DevQ
    BY Zenon, <1>1, <1>3, <1>7 DEF Core, Placement, OffQueue, Unstarted
  <2>2. kt_wchan[t] \in Queue \ {RunQ}
    BY <1>2, <2>1 DEF Queue
  <2>3. /\ QueueTypes' /\ Queues'
        /\ kt_state' = [kt_state EXCEPT ![t] = "run"]
        /\ kt_wchan' = [kt_wchan EXCEPT ![t] = RunQ]
    BY Zenon, <1>1, <1>7, <2>2, CancelQueues
  <2>4. OtherTypes'
    BY Zenon, <1>1, <1>3, <2>3 DEF OtherTypes, State
  <2>5. Placement'
    BY ZenonT(40), <1>1, <1>2, <1>3, <1>4, <2>3 DEF Core, Placement, OffQueue, Unstarted
  <2>6. CurrentThread'
    BY Zenon, <1>1, <1>3, <1>4, <2>3 DEF Core, CurrentThread
  <2>7. WaiterFrame' /\ LockReturnsHeld' /\ WaitedForIsHeld'
    BY Zenon, <1>1, <1>2, <1>3, <1>4, <2>3 DEF Core, WaiterFrame, LockReturnsHeld, WaitedForIsHeld
  <2>8. LockFrame'
    BY Zenon, <1>1, <1>2, <1>3, <1>4, <2>3 DEF Core, LockFrame
  <2>9. HolderWillKnow'
    BY ZenonT(40), <1>1, <1>2, <1>3, <1>4, <1>7, <2>1, <2>3 DEF Core, HolderWillKnow
  <2> QED BY ZenonT(40), <1>5, <2>3, <2>4, <2>5, <2>6, <2>7, <2>8, <2>9, Whole DEF Core
<1> QED BY Zenon, <1>6, <1>7 DEF kthread_cancel

(* kthread_exit.                                                            *)
LEMMA ExitStep ==
    ASSUME IInv, kthread_exit
    PROVE  IInv'
<1> USE DEF LOW, HIGH, ctxvars, threadvars, queuevars
<1>1. QueueTypes /\ Queues /\ OtherTypes /\ Core
  BY SMTT(30), Parts
<1>2. NULL \notin Queue /\ RunQ \notin Mutex \cup WaitQ \cup DevQ
      /\ Mutex \cap (WaitQ \cup DevQ) = {} /\ RunQ \in Queue /\ Mutex \subseteq Queue
      /\ NULL \notin Thread
  BY Zenon, ConstantsOK DEF Queue
<1>3. /\ cpu = "thread" /\ curthr \in Thread /\ crit[curthr] = {}
      /\ kt_state' = [kt_state EXCEPT ![curthr] = "exited"] /\ cpu' = "exit"
      /\ UNCHANGED <<queuevars, kt_wchan, kt_cancelled, km_holder, curthr, ctxvars,
                     crit, ipl, swipl, devbusy>>
  BY <1>1 DEF kthread_exit, OtherTypes
<1>4. kt_state \in [Thread -> State]
  BY SMTT(30), <1>1 DEF OtherTypes
<1>5. QueueTypes' /\ Queues'
  BY ZenonT(40), <1>1, <1>3 DEF QueueTypes, Queues
<1>6. OtherTypes'
  BY ZenonT(40), <1>1, <1>3 DEF OtherTypes, State, Cpu
<1>7. Placement'
  BY SMTT(30), <1>1, <1>2, <1>3, <1>4 DEF Core, Placement, OffQueue, Unstarted, CurrentThread
<1>8. CurrentThread' /\ RunningNotCancelled'
  BY ZenonT(40), <1>1, <1>3, <1>4 DEF Core, CurrentThread, RunningNotCancelled
<1>9. WaiterFrame' /\ LockReturnsHeld' /\ WaitedForIsHeld'
  BY Zenon, <1>1, <1>3 DEF Core, WaiterFrame, LockReturnsHeld, WaitedForIsHeld
<1>10. LockFrame'
  BY Zenon, <1>1, <1>3, <1>4 DEF Core, LockFrame
<1>11. HolderWillKnow'
  <2>1. HolderWillKnow
    BY ZenonT(40), <1>1 DEF Core
  <2>2. kt_state'[curthr] = "exited" /\ \A t \in Thread : t # curthr => kt_state'[t] = kt_state[t]
    BY Zenon, <1>3, <1>4
  <2> QED BY Zenon, <1>3, <2>1, <2>2 DEF HolderWillKnow
<1> QED BY ZenonT(40), <1>5, <1>6, <1>7, <1>8, <1>9, <1>10, <1>11, Whole DEF Core

(* The switch to the first thread of the run queue, or its exit.  No thread *)
(* of the run queue has exited, so the first one is taken.                  *)
LEMMA DispatchStep ==
    ASSUME IInv, Dispatch
    PROVE  IInv'
<1> USE DEF LOW, HIGH, ctxvars, threadvars, queuevars
<1>1. QueueTypes /\ Queues /\ OtherTypes /\ Core
  BY Parts
<1>2. NULL \notin Queue /\ RunQ \notin Mutex \cup WaitQ \cup DevQ
      /\ Mutex \cap (WaitQ \cup DevQ) = {} /\ RunQ \in Queue /\ Mutex \subseteq Queue
      /\ NULL \notin Thread
  BY ConstantsOK DEF Queue
<1>3. PICK k \in 1..Len(queue[RunQ]) :
         LET t == queue[RunQ][k]
             skipped == {queue[RunQ][j] : j \in 1..k}
         IN
         /\ kt_state[t] # "exited"
         /\ \A j \in 1..(k - 1) : kt_state[queue[RunQ][j]] = "exited"
         /\ queue' = [queue EXCEPT ![RunQ] = SubSeq(@, k + 1, Len(@))]
         /\ tq_size' = [tq_size EXCEPT ![RunQ] = @ - k]
         /\ kt_wchan' = [u \in Thread |-> IF u \in skipped THEN NULL ELSE kt_wchan[u]]
         /\ curthr' = t
         /\ \/ /\ MustExit(t)
               /\ kt_state' = [kt_state EXCEPT ![t] = "exited"]
               /\ ipl' = HIGH
               /\ cpu' = "exit"
               /\ UNCHANGED <<kstack, resumable, frame, crit>>
            \/ /\ ~MustExit(t)
               /\ ContextSwitch(t, ipl)
               /\ UNCHANGED kt_state
  BY Zenon DEF Dispatch
<1>4. /\ queue[RunQ] \in Seq(Thread) /\ Len(queue[RunQ]) \in Nat
      /\ Range(queue[RunQ]) = {u \in Thread : kt_wchan[u] = RunQ}
  BY Zenon, <1>1, <1>2, LenProperties DEF QueueTypes, Queues
<1>5. \A j \in 1..Len(queue[RunQ]) : kt_state[queue[RunQ][j]] = "run"
  <2>1. \A j \in 1..Len(queue[RunQ]) : queue[RunQ][j] \in Range(queue[RunQ])
    BY Zenon, <1>4, RangeProperties
  <2> QED BY SMTT(30), <2>1, <1>1, <1>2, <1>4 DEF Core, Placement
<1>6. k = 1
  <2>1. SUFFICES ASSUME k # 1 PROVE FALSE
    OBVIOUS
  <2>2. 1 \in 1..(k - 1) /\ 1 \in 1..Len(queue[RunQ])
    BY SMTT(30), <2>1, <1>4
  <2> QED BY Zenon, <1>3, <1>5, <2>2
<1> DEFINE t == queue[RunQ][1]
<1>7. /\ kt_state[t] # "exited" /\ queue[RunQ] # <<>>
      /\ queue' = [queue EXCEPT ![RunQ] = SubSeq(@, 2, Len(@))]
      /\ tq_size' = [tq_size EXCEPT ![RunQ] = @ - 1]
      /\ kt_wchan' = [u \in Thread |-> IF u = t THEN NULL ELSE kt_wchan[u]]
      /\ curthr' = t
  <2>1. {queue[RunQ][j] : j \in 1..k} = {t}
    BY <1>6
  <2>2. k + 1 = 2
    BY <1>6
  <2>3. queue[RunQ] # <<>>
    BY SMTT(30), <1>4, <1>6, EmptySeq
  <2> QED BY ZenonT(40), <1>3, <1>6, <2>1, <2>2, <2>3
<1>8. \/ /\ MustExit(t)
         /\ kt_state' = [kt_state EXCEPT ![t] = "exited"]
         /\ ipl' = HIGH
         /\ cpu' = "exit"
         /\ UNCHANGED <<kstack, resumable, frame, crit>>
      \/ /\ ~MustExit(t)
         /\ ContextSwitch(t, ipl)
         /\ UNCHANGED kt_state
  BY Zenon, <1>3, <1>6
<1>9. cpu = "switch" /\ UNCHANGED <<kt_cancelled, km_holder, savedipl, swipl, devbusy>>
  BY Zenon DEF Dispatch
<1> HIDE DEF t
<1>10. QueueTypes' /\ Queues' /\ t \in Thread /\ kt_wchan[t] = RunQ
  BY Zenon, <1>1, <1>7, DequeueQueues DEF t
<1>11. kt_state[t] = "run"
  BY Zenon, <1>1, <1>2, <1>10 DEF Core, Placement
<1>12. /\ kt_wchan \in [Thread -> Queue \cup {NULL}] /\ kt_state \in [Thread -> State]
       /\ kt_cancelled \in [Thread -> BOOLEAN] /\ frame \in [Thread -> Frame]
       /\ crit \in [Thread -> SUBSET Mutex] /\ curthr \in Thread
       /\ savedipl \in [Thread -> {LOW, HIGH}] /\ ipl \in {LOW, HIGH}
  BY Zenon, <1>1 DEF QueueTypes, OtherTypes
<1>13. ASSUME NEW u \in Thread, kt_wchan[u] = NULL
       PROVE  kt_state[u] = "exited" \/ Unstarted(u)
  BY Zenon, <1>1, <1>2, <1>9, <1>13 DEF Core, Placement, OffQueue, CurrentThread, Queue
<1>14. WaitedForIsHeld'
  BY Zenon, <1>1, <1>2, <1>7, <1>9 DEF Core, WaitedForIsHeld
<1>15. CASE /\ MustExit(t)
            /\ kt_state' = [kt_state EXCEPT ![t] = "exited"]
            /\ ipl' = HIGH
            /\ cpu' = "exit"
            /\ UNCHANGED <<kstack, resumable, frame, crit>>
  <2>1. OtherTypes'
    BY Zenon, <1>1, <1>7, <1>9, <1>10, <1>15 DEF OtherTypes, State, Cpu
  <2>2. Placement'
    BY ZenonT(40), <1>1, <1>2, <1>7, <1>9, <1>10, <1>12, <1>13, <1>15
       DEF Core, Placement, OffQueue, Unstarted
  <2>3. CurrentThread' /\ RunningNotCancelled'
    BY Zenon, <1>7, <1>10, <1>12, <1>15 DEF CurrentThread, RunningNotCancelled
  <2>4. WaiterFrame' /\ LockReturnsHeld'
    BY Zenon, <1>1, <1>2, <1>7, <1>9, <1>15 DEF Core, WaiterFrame, LockReturnsHeld
  <2>5. LockFrame'
    BY ZenonT(40), <1>1, <1>2, <1>7, <1>9, <1>10, <1>12, <1>15 DEF Core, LockFrame
  <2>6. HolderWillKnow'
    BY ZenonT(40), <1>1, <1>2, <1>7, <1>9, <1>10, <1>12, <1>15 DEF Core, HolderWillKnow
  <2> QED BY ZenonT(40), <1>10, <1>14, <2>1, <2>2, <2>3, <2>4, <2>5, <2>6, Whole DEF Core
<1>16. CASE ~MustExit(t) /\ ContextSwitch(t, ipl) /\ UNCHANGED kt_state
  <2> DEFINE saved == resumable \cup {u \in {curthr} : u = kstack}
  <2>1. /\ kstack' = t /\ resumable' = saved \ {t} /\ ~kt_cancelled[t]
        /\ IF t \in saved
           THEN /\ ipl' = LevelOf(t, ipl)
                /\ crit' = [crit EXCEPT ![t] = @ \cup ({frame[t]} \cap Mutex)]
                /\ frame' = [frame EXCEPT ![t] = "sleep"]
                /\ cpu' = "thread"
           ELSE /\ cpu' = "lost"
                /\ UNCHANGED <<ipl, crit, frame>>
    BY Zenon, <1>16 DEF ContextSwitch, MustExit
  <2>2. saved \subseteq Thread /\ resumable \subseteq saved
    BY <1>1, <1>12 DEF OtherTypes
  <2> HIDE DEF saved
  <2>3. LevelOf(t, ipl) \in {LOW, HIGH}
    BY Zenon, <1>10, <1>12 DEF LevelOf
  <2>4. CASE t \in saved
    <3>1. /\ ipl' = LevelOf(t, ipl) /\ cpu' = "thread"
          /\ crit' = [crit EXCEPT ![t] = crit[t] \cup ({frame[t]} \cap Mutex)]
          /\ frame' = [frame EXCEPT ![t] = "sleep"]
      BY SMTT(30), <2>1, <2>4
    <3>2. OtherTypes'
      BY ZenonT(40), <1>1, <1>7, <1>9, <1>10, <1>12, <1>16, <2>1, <2>2, <2>3, <3>1 DEF OtherTypes, Cpu, Frame
    <3>3. Placement'
      BY ZenonT(40), <1>1, <1>2, <1>7, <1>10, <1>12, <1>13, <1>16, <2>1, <2>2, <3>1
         DEF Core, Placement, OffQueue, Unstarted
    <3>4. CurrentThread' /\ RunningNotCancelled'
      BY ZenonT(40), <1>7, <1>9, <1>10, <1>11, <1>12, <1>16, <2>1, <3>1 DEF CurrentThread, RunningNotCancelled
    <3>5. WaiterFrame'
      BY ZenonT(40), <1>1, <1>2, <1>7, <1>10, <1>12, <3>1 DEF Core, WaiterFrame
    <3>6. LockReturnsHeld'
      BY ZenonT(40), <1>1, <1>2, <1>9, <1>10, <1>11, <1>12, <2>1, <3>1
         DEF Core, LockReturnsHeld, LockFrame
    <3>7. LockFrame'
      BY ZenonT(40), <1>1, <1>2, <1>7, <1>9, <1>10, <1>12, <1>16, <3>1, ConstantsOK DEF Core, LockFrame
    <3>8. HolderWillKnow'
      <4> SUFFICES ASSUME NEW n \in Mutex, NEW u \in Thread, km_holder[n] = u,
                          kt_state[u] # "exited"
                   PROVE  n \in crit'[u] \/ (kt_wchan'[u] = RunQ /\ frame'[u] = n)
        BY Zenon, <1>9, <1>16 DEF HolderWillKnow
      <4>1. n \in crit[u] \/ (kt_wchan[u] = RunQ /\ frame[u] = n)
        BY Zenon, <1>1, <1>9 DEF Core, HolderWillKnow
      <4>2. CASE u = t
        BY Zenon, <1>12, <3>1, <4>1, <4>2
      <4>3. CASE u # t
        <5>1. crit'[u] = crit[u] /\ frame'[u] = frame[u] /\ kt_wchan'[u] = kt_wchan[u]
          BY Zenon, <1>7, <1>12, <3>1, <4>3
        <5> QED BY Zenon, <4>1, <5>1
      <4> QED BY Zenon, <4>2, <4>3
    <3> QED BY ZenonT(40), <1>10, <1>14, <3>2, <3>3, <3>4, <3>5, <3>6, <3>7, <3>8, Whole DEF Core
  <2>5. CASE t \notin saved
    <3>1. cpu' = "lost" /\ UNCHANGED <<ipl, crit, frame>>
      BY Zenon, <2>1, <2>5
    <3>2. OtherTypes'
      BY ZenonT(40), <1>1, <1>7, <1>9, <1>10, <1>12, <1>16, <2>1, <2>2, <3>1 DEF OtherTypes, Cpu
    <3>3. Placement'
      BY ZenonT(40), <1>1, <1>2, <1>7, <1>10, <1>12, <1>13, <1>16, <2>1, <2>2, <3>1
         DEF Core, Placement, OffQueue, Unstarted
    <3>4. CurrentThread' /\ RunningNotCancelled' /\ LockFrame' /\ HolderWillKnow'
      BY Zenon, <3>1 DEF CurrentThread, RunningNotCancelled, LockFrame, HolderWillKnow
    <3>5. WaiterFrame'
      BY ZenonT(40), <1>1, <1>2, <1>7, <3>1 DEF Core, WaiterFrame
    <3>6. LockReturnsHeld'
      BY ZenonT(40), <1>1, <1>9, <3>1 DEF Core, LockReturnsHeld
    <3> QED BY ZenonT(40), <1>10, <1>14, <3>2, <3>3, <3>4, <3>5, <3>6, Whole DEF Core
  <2> QED BY Zenon, <2>4, <2>5
<1> QED BY Zenon, <1>8, <1>15, <1>16

-----------------------------------------------------------------------------
(* The initial state satisfies the inductive invariant.                     *)
LEMMA InitIInv == Init => IInv
<1> SUFFICES ASSUME Init PROVE IInv
  BY Zenon
<1>1. TypeOK
  BY SMTT(30), ConstantsOK DEF Init, TypeOK, Queue, Frame, Cpu, State, LOW, HIGH
<1>2. QueueDiscipline
  <2>1. ASSUME NEW q \in Queue
        PROVE  /\ tq_size[q] = Len(queue[q]) /\ IsInjective(queue[q])
               /\ Range(queue[q]) = {t \in Thread : kt_wchan[t] = q}
    <3>1. queue[q] = <<>> /\ tq_size[q] = 0
      BY Zenon, <2>1 DEF Init
    <3>2. {t \in Thread : kt_wchan[t] = q} = {}
      BY Zenon, <2>1, ConstantsOK DEF Init
    <3>3. IsInjective(<<>>) /\ Range(<<>>) = {} /\ Len(<<>>) = 0
      BY DEF IsInjective, Range
    <3> QED BY Zenon, <3>1, <3>2, <3>3
  <2>2. ASSUME NEW t \in Thread PROVE kt_wchan[t] = NULL /\ OffQueue(t)
    BY Zenon, <2>2 DEF Init, OffQueue, Unstarted
  <2> QED BY Zenon, <2>1, <2>2 DEF QueueDiscipline
<1>3. CurrentThread
  BY SMTT(30), ConstantsOK DEF Init, CurrentThread
<1>4. WaiterFrame /\ NoWaiterOnFreeMutex
  BY Zenon, ConstantsOK DEF Init, WaiterFrame, NoWaiterOnFreeMutex, Queue
<1>5. LockFrame /\ LockReturnsHeld
  BY Zenon, ConstantsOK DEF Init, LockFrame, LockReturnsHeld
<1>6. HolderWillKnow /\ RunningNotCancelled
  BY Zenon, ConstantsOK DEF Init, HolderWillKnow, RunningNotCancelled
<1> QED BY Zenon, <1>1, <1>2, <1>3, <1>4, <1>5, <1>6 DEF IInv

(* Every step preserves the inductive invariant.                            *)
LEMMA NextIInv == IInv /\ [Next]_vars => IInv'
<1> SUFFICES ASSUME IInv, [Next]_vars PROVE IInv'
  OBVIOUS
<1>0. OtherTypes /\ Core
  BY Zenon, Parts
<1>1. /\ ipl \in {LOW, HIGH} /\ swipl \in {LOW, HIGH} /\ devbusy \subseteq DevQ
      /\ LOW \in {LOW, HIGH} /\ HIGH \in {LOW, HIGH}
  BY <1>0 DEF OtherTypes
<1>2. /\ {"sleep", "masked_sleep"} \subseteq Frame /\ Mutex \subseteq Frame
      /\ "sleep" \notin Mutex /\ "masked_sleep" \notin Mutex
      /\ Mutex \cap (WaitQ \cup DevQ) = {}
  BY ConstantsOK DEF Frame
<1>3. ASSUME NEW t \in Thread, sched_make_runnable(t) PROVE IInv'
  BY <1>3, MakeRunnableStep
<1>4. ASSUME NEW t \in Thread, kthread_cancel(t) PROVE IInv'
  BY SMTT(30), <1>4, CancelStep
<1>5. ASSUME NEW q \in WaitQ, sched_sleep_on(q) PROVE IInv'
  BY Zenon, <1>1, <1>2, <1>5, SleepStep DEF sched_sleep_on
<1>6. ASSUME NEW q \in WaitQ, sched_cancellable_sleep_on(q) PROVE IInv'
  BY Zenon, <1>1, <1>2, <1>6, SleepStep DEF sched_cancellable_sleep_on
<1>7. ASSUME NEW q \in DevQ, driver_wait(q) PROVE IInv'
  <2>1. /\ cpu = "thread" /\ devbusy' \subseteq DevQ /\ UNCHANGED km_holder
        /\ SleepOn(q, "sleep", "masked_sleep", HIGH)
    BY <1>1, <1>7 DEF driver_wait
  <2> QED BY Zenon, <1>1, <1>2, <2>1, SleepStep
<1>8. ASSUME NEW q \in WaitQ, sched_wakeup_on(q) PROVE IInv'
  BY Zenon, <1>8, WakeupStep DEF sched_wakeup_on
<1>9. ASSUME NEW q \in WaitQ, sched_broadcast_on(q) PROVE IInv'
  BY <1>1, <1>9, BroadcastStep DEF sched_broadcast_on
<1>10. ASSUME NEW m \in Mutex, NEW st \in {"sleep", "sleep_cancellable"}, kmutex_take(m, st)
       PROVE  IInv'
  <2>1. CASE km_holder[m] = NULL
    BY Zenon, <1>10, <2>1, TakeFreeStep DEF kmutex_take
  <2>2. CASE km_holder[m] # NULL
    <3>1. /\ cpu = "thread" /\ SleepOn(m, st, m, HIGH)
          /\ UNCHANGED <<km_holder, devbusy>>
      BY <1>10, <2>2 DEF kmutex_take
    <3> QED BY Zenon, <1>1, <1>2, <2>2, <3>1, SleepStep
  <2> QED BY Zenon, <2>1, <2>2
<1>11. ASSUME NEW m \in Mutex, kmutex_lock(m) \/ kmutex_lock_cancellable(m) PROVE IInv'
  BY <1>10, <1>11 DEF kmutex_lock, kmutex_lock_cancellable
<1>12. ASSUME NEW m \in Mutex, kmutex_unlock(m) PROVE IInv'
  BY <1>12, UnlockStep
<1>13. CASE kthread_exit
  BY Zenon, <1>13, ExitStep
<1>14. CASE proc_thread_exited
  <2>1. /\ cpu = "exit" /\ cpu' = "switch"
        /\ UNCHANGED <<kt_cancelled, km_holder, curthr, ctxvars, crit, ipl, swipl, devbusy>>
    BY Zenon, <1>14 DEF proc_thread_exited
  <2>2. CASE \E q \in WaitQ : queue[q] # <<>> /\ Wakeup(q)
    BY Zenon, <2>1, <2>2, WakeupStep
  <2>3. CASE UNCHANGED <<queuevars, kt_state, kt_wchan>>
    BY SMTT(30), <1>1, <2>1, <2>3, QuietStep DEF threadvars
  <2> QED BY SMTT(30), <1>14, <2>2, <2>3 DEF proc_thread_exited
<1>15. CASE SwitchEmpty
  BY ZenonT(40), <1>1, <1>15, QuietStep DEF SwitchEmpty
<1>16. CASE IntrWait
  BY SMTT(30), <1>1, <1>16, QuietStep DEF IntrWait
<1>17. CASE Dispatch
  BY <1>17, DispatchStep
<1>18. ASSUME TakeInterrupt
       PROVE  /\ UNCHANGED <<kt_cancelled, km_holder, curthr, ctxvars, crit, swipl>>
              /\ cpu' = cpu \/ (cpu = "halted" /\ cpu' = "switch")
              /\ ipl' \in {LOW, HIGH}
  BY Zenon, <1>1, <1>18 DEF TakeInterrupt
<1>19. ASSUME NEW q \in DevQ, DeviceInterrupt(q) PROVE IInv'
  <2>1. TakeInterrupt /\ Broadcast(q) /\ devbusy' \subseteq DevQ
    BY Zenon, <1>1, <1>19 DEF DeviceInterrupt
  <2> QED BY <1>18, <2>1, BroadcastStep
<1>20. CASE OtherInterrupt
  <2>1. TakeInterrupt /\ UNCHANGED <<queuevars, kt_state, kt_wchan, devbusy>>
    BY <1>20 DEF OtherInterrupt
  <2>2. UNCHANGED <<queuevars, threadvars, km_holder, curthr, ctxvars, crit, swipl, devbusy>>
    BY Zenon, <1>18, <2>1 DEF threadvars
  <2> QED BY Zenon, <1>1, <1>18, <2>1, <2>2, QuietStep
<1>21. CASE UNCHANGED vars
  BY <1>1, <1>21, QuietStep DEF vars
<1> QED
  BY ZenonT(40), <1>3, <1>4, <1>5, <1>6, <1>7, <1>8, <1>9, <1>11, <1>12, <1>13, <1>14, <1>15,
     <1>16, <1>17, <1>19, <1>20, <1>21 DEF Next, ThreadCall, Switch

-----------------------------------------------------------------------------
(* The inductive invariant holds in every reachable state.                  *)
THEOREM Invariance == Spec => []IInv
BY InitIInv, NextIInv, PTL DEF Spec

(* Every variable keeps its type; in particular tq_size never goes below    *)
(* zero.                                                                    *)
THEOREM TypeCorrect == Spec => []TypeOK
<1>1. IInv => TypeOK
  BY DEF IInv
<1> QED BY <1>1, Invariance, PTL

(* The lists, sizes, states and channels of sched.c agree, and no live      *)
(* thread is on no queue unless it runs or was never started.               *)
THEOREM QueuesAgree == Spec => []QueueDiscipline
<1>1. IInv => QueueDiscipline
  BY DEF IInv
<1> QED BY <1>1, Invariance, PTL

(* Whoever came back from kmutex_lock holds the mutex, alone.               *)
THEOREM MutualExclusion == Spec => []LockReturnsHeld
<1>1. IInv => LockReturnsHeld
  BY DEF IInv
<1> QED BY <1>1, Invariance, PTL

(* A mutex somebody waits for has a holder.                                 *)
THEOREM NoIdleMutex == Spec => []NoWaiterOnFreeMutex
<1>1. IInv => NoWaiterOnFreeMutex
  BY DEF IInv
<1> QED BY <1>1, Invariance, PTL

(* The assertions at the start of kmutex_lock cannot fail.                  *)
THEOREM HolderKnows == Spec => []HolderWillKnow
<1>1. IInv => HolderWillKnow
  BY DEF IInv
<1> QED BY <1>1, Invariance, PTL

(* A thread that runs was not cancelled: sched_switch lets no cancelled     *)
(* thread through and nobody cancels the running one behind its back.       *)
THEOREM NoCancelledThreadRuns == Spec => []RunningNotCancelled
<1>1. IInv => RunningNotCancelled
  BY DEF IInv
<1> QED BY <1>1, Invariance, PTL

-----------------------------------------------------------------------------
(* Sched implements KMutexSpec.                                             *)

Waiters == [m \in Mutex |-> queue[m]]

(* A step that leaves the holders and the queues of all mutexes alone.      *)
MutexesAlone == UNCHANGED km_holder /\ \A m \in Mutex : queue'[m] = queue[m]

(* Such a step is a stuttering step of KMutexSpec.                          *)
LEMMA AloneStutters == MutexesAlone => UNCHANGED <<km_holder, Waiters>>
BY DEF MutexesAlone, Waiters

(* A thread that runs waits for no mutex, and is not the holder of one it   *)
(* has not locked.                                                          *)
LEMMA RunningDoesNotWait ==
    ASSUME IInv, cpu = "thread"
    PROVE  /\ curthr \in Thread
           /\ ~Promise!Waiting(curthr)
           /\ \A m \in Mutex \ crit[curthr] : km_holder[m] # curthr
<1>1. QueueTypes /\ Queues /\ OtherTypes /\ Core
  BY Zenon, Parts
<1>2. /\ curthr \in Thread /\ kt_wchan[curthr] = NULL /\ kt_state[curthr] = "run"
      /\ Mutex \subseteq Queue /\ NULL \notin Queue /\ RunQ # NULL
  BY Zenon, <1>1, ConstantsOK DEF Core, CurrentThread, OtherTypes, Queue
<1>3. \A m \in Mutex : Waiters[m] = queue[m] /\ curthr \notin Range(queue[m])
  BY SMTT(30), <1>1, <1>2 DEF Queues, Waiters
<1>4. ~Promise!Waiting(curthr)
  BY <1>3 DEF Promise!Waiting, Waiters, Promise!Range, Range
<1>5. \A m \in Mutex \ crit[curthr] : km_holder[m] # curthr
  BY <1>1, <1>2 DEF Core, HolderWillKnow
<1> QED BY <1>2, <1>4, <1>5

(* Every step of Sched is a step of KMutexSpec or leaves it alone.          *)
LEMMA NextImplements ==
    IInv /\ [Next]_vars => [Promise!Next]_<<km_holder, Waiters>>
<1> SUFFICES ASSUME IInv, [Next]_vars PROVE [Promise!Next]_<<km_holder, Waiters>>
  OBVIOUS
<1>0. QueueTypes /\ Queues /\ OtherTypes /\ Core
  BY ZenonT(40), Parts
<1>1. /\ RunQ \notin Mutex /\ Mutex \cap (WaitQ \cup DevQ) = {}
      /\ Mutex \subseteq Queue /\ RunQ \in Queue /\ WaitQ \cup DevQ \subseteq Queue
      /\ RunQ \notin WaitQ \cup DevQ /\ queue \in [Queue -> Seq(Thread)]
      /\ km_holder \in [Mutex -> Thread \cup {NULL}]
  BY ZenonT(40), <1>0, ConstantsOK DEF Queue, QueueTypes, OtherTypes
<1>2. ASSUME NEW q \in Queue \ Mutex, NEW t, ktqueue_enqueue(q, t), UNCHANGED km_holder
      PROVE  MutexesAlone
  BY Zenon, <1>1, <1>2 DEF ktqueue_enqueue, MutexesAlone
<1>3. ASSUME NEW q \in WaitQ \cup DevQ, Broadcast(q), UNCHANGED km_holder
      PROVE  MutexesAlone
  BY <1>1, <1>3 DEF Broadcast, MutexesAlone
<1>4. ASSUME NEW q \in WaitQ, Wakeup(q), UNCHANGED km_holder
      PROVE  MutexesAlone
  BY Zenon, <1>1, <1>4 DEF Wakeup, MutexesAlone, queuevars
<1>5. ASSUME NEW m \in Mutex, NEW st, kmutex_take(m, st)
      PROVE  Promise!Next
  <2>1. curthr \in Thread /\ ~Promise!Waiting(curthr) /\ km_holder[m] # curthr
    BY <1>5, RunningDoesNotWait DEF kmutex_take
  <2>2. CASE km_holder[m] = NULL
    <3>1. /\ km_holder' = [km_holder EXCEPT ![m] = curthr] /\ queue' = queue
      BY SMTT(30), <1>5, <2>2 DEF kmutex_take, queuevars
    <3>2. Waiters[m] = <<>> /\ Waiters' = Waiters
      BY ZenonT(40), <2>2, <3>1 DEF IInv, NoWaiterOnFreeMutex, Waiters
    <3>3. Promise!Acquire(curthr, m)
      BY <2>1, <2>2, <3>1, <3>2 DEF Promise!Acquire, Waiters
    <3> QED BY <2>1, <3>3 DEF Promise!Next
  <2>3. CASE km_holder[m] # NULL
    <3>1. UNCHANGED km_holder /\ ktqueue_enqueue(m, curthr)
      BY <1>5, <2>3 DEF kmutex_take, SleepOn
    <3>2. queue' = [queue EXCEPT ![m] = Append(queue[m], curthr)]
      BY <3>1 DEF ktqueue_enqueue
    <3>3. Waiters' = [Waiters EXCEPT ![m] = Append(Waiters[m], curthr)]
      BY ZenonT(40), <1>1, <3>2 DEF Waiters
    <3>4. Promise!Wait(curthr, m)
      <4>1. km_holder[m] \notin {NULL, curthr}
        BY Zenon, <2>1, <2>3
      <4> QED BY Zenon, <2>1, <3>1, <3>3, <4>1 DEF Promise!Wait, Waiters
    <3> QED BY Zenon, <2>1, <3>4 DEF Promise!Next
  <2> QED BY <2>2, <2>3
<1>6. ASSUME NEW m \in Mutex, kmutex_unlock(m)
      PROVE  Promise!Next
  <2>1. /\ curthr \in Thread /\ km_holder[m] = curthr /\ Wakeup(m)
        /\ km_holder' = [km_holder EXCEPT ![m] = NewOwner(m)]
    BY SMTT(30), <1>0, <1>6 DEF kmutex_unlock, Core, LockReturnsHeld, OtherTypes
  <2>2. m \in Queue \ {RunQ}
    BY Zenon, <1>1
  <2>3. \/ queue[m] = <<>> /\ queue' = queue
        \/ /\ queue[m] # <<>>
           /\ queue' = [queue EXCEPT ![m] = Tail(queue[m]),
                                     ![RunQ] = Append(@, Head(queue[m]))]
    BY <2>1 DEF Wakeup, queuevars
  <2>4. CASE queue[m] = <<>> /\ queue' = queue
    <3>1. Waiters[m] = <<>> /\ Waiters' = Waiters /\ km_holder' = [km_holder EXCEPT ![m] = NULL]
      BY <2>1, <2>4 DEF Waiters, NewOwner
    <3>2. Promise!Release(curthr, m)
      BY ZenonT(40), <2>1, <3>1 DEF Promise!Release, Waiters
    <3> QED BY Zenon, <2>1, <3>2 DEF Promise!Next
  <2>5. CASE /\ queue[m] # <<>>
             /\ queue' = [queue EXCEPT ![m] = Tail(queue[m]),
                                       ![RunQ] = Append(@, Head(queue[m]))]
    <3>1. /\ Waiters[m] # <<>> /\ Waiters[m] = queue[m]
          /\ km_holder' = [km_holder EXCEPT ![m] = Head(Waiters[m])]
      BY <2>1, <2>5 DEF Waiters, NewOwner
    <3>2. Waiters' = [Waiters EXCEPT ![m] = Tail(Waiters[m])]
      BY Zenon, <1>1, <2>5 DEF Waiters
    <3>3. Promise!Release(curthr, m)
      BY ZenonT(40), <2>1, <3>1, <3>2 DEF Promise!Release, Waiters
    <3> QED BY <2>1, <3>3 DEF Promise!Next
  <2> QED BY Zenon, <2>3, <2>4, <2>5
<1>7. ASSUME NEW t \in Thread, kthread_cancel(t)
      PROVE  Promise!Next \/ MutexesAlone
  <2>1. UNCHANGED km_holder
    BY Zenon, <1>7 DEF kthread_cancel
  <2>2. CASE UNCHANGED queuevars
    BY <2>1, <2>2 DEF MutexesAlone, queuevars
  <2>3. CASE kt_state[t] = "sleep_cancellable" /\ sched_cancel(t)
    <3>1. PICK q \in Mutex \cup WaitQ \cup DevQ : q = kt_wchan[t]
      BY <1>0, <1>7, <2>3 DEF Core, Placement, OffQueue, Unstarted, kthread_cancel
    <3>2. PICK i \in 1..Len(queue[q]) :
            /\ queue[q][i] = t
            /\ queue' = [queue EXCEPT ![q] = RemoveAt(queue[q], i), ![RunQ] = Append(@, t)]
      BY ZenonT(40), <2>3, <3>1 DEF sched_cancel
    <3>3. CASE q \notin Mutex
      BY SMTT(30), <1>1, <2>1, <3>2, <3>3 DEF MutexesAlone
    <3>4. CASE q \in Mutex
      <4>1. Waiters[q] = queue[q] /\ DOMAIN Waiters[q] = 1..Len(queue[q])
        BY <1>1, <3>4 DEF Waiters
      <4>2. Waiters' = [Waiters EXCEPT ![q] = RemoveAt(Waiters[q], i)]
        BY Zenon, <1>1, <3>2, <3>4 DEF Waiters
      <4>3. Promise!GiveUp(t, q)
        BY ZenonT(40), <2>1, <3>2, <4>1, <4>2 DEF Promise!GiveUp, Waiters, Promise!RemoveAt, RemoveAt
      <4> QED BY Zenon, <3>4, <4>3 DEF Promise!Next
    <3> QED BY ZenonT(40), <3>3, <3>4
  <2> QED BY <1>7, <2>2, <2>3 DEF kthread_cancel
<1>8. ASSUME Dispatch PROVE MutexesAlone
  BY ZenonT(40), <1>1, <1>8 DEF Dispatch, MutexesAlone
<1>9. ASSUME \/ \E t \in Thread : sched_make_runnable(t)
             \/ \E q \in WaitQ : sched_sleep_on(q) \/ sched_cancellable_sleep_on(q)
             \/ \E q \in DevQ : driver_wait(q)
      PROVE  MutexesAlone
  BY Zenon, <1>1, <1>2, <1>9 DEF sched_make_runnable, sched_sleep_on, sched_cancellable_sleep_on,
                          driver_wait, SleepOn
<1>10. ASSUME \/ \E q \in WaitQ : sched_wakeup_on(q) \/ sched_broadcast_on(q)
              \/ proc_thread_exited
              \/ \E q \in DevQ : DeviceInterrupt(q)
       PROVE  MutexesAlone
  <2>1. UNCHANGED km_holder
    BY ZenonT(40), <1>10 DEF sched_wakeup_on, sched_broadcast_on, proc_thread_exited, DeviceInterrupt,
                 TakeInterrupt
  <2>2. \/ \E q \in WaitQ : Wakeup(q)
        \/ \E q \in WaitQ \cup DevQ : Broadcast(q)
        \/ UNCHANGED queuevars
    BY Zenon, <1>10 DEF sched_wakeup_on, sched_broadcast_on, proc_thread_exited, DeviceInterrupt
  <2>3. UNCHANGED queuevars => MutexesAlone
    BY Zenon, <2>1 DEF queuevars, MutexesAlone
  <2> QED BY SMTT(30), <1>3, <1>4, <2>1, <2>2, <2>3
<1>11. ASSUME kthread_exit \/ SwitchEmpty \/ IntrWait \/ OtherInterrupt \/ UNCHANGED vars
       PROVE  MutexesAlone
  BY Zenon, <1>11 DEF kthread_exit, SwitchEmpty, IntrWait, OtherInterrupt, TakeInterrupt, vars,
               queuevars, MutexesAlone
<1>12. Promise!Next \/ MutexesAlone
  BY <1>5, <1>6, <1>7, <1>8, <1>9, <1>10, <1>11
     DEF Next, ThreadCall, Switch, kmutex_lock, kmutex_lock_cancellable
<1> QED BY <1>12, AloneStutters

(* The mutexes of kmutex.c, with the queues of sched.c and whatever the     *)
(* threads and interrupts do, keep the promise of KMutexSpec.               *)
THEOREM MutexesRefine == Spec => MutexProtocol
<1>1. Init => Promise!Init
  BY DEF Init, Promise!Init, Queue
<1>2. IInv /\ [Next]_vars => [Promise!Next]_<<km_holder, Waiters>>
  BY Zenon, NextImplements
<1> QED BY <1>1, <1>2, Invariance, PTL DEF Spec, MutexProtocol, Promise!Spec, Waiters

-----------------------------------------------------------------------------
(* What holds as long as no thread cancels another.                         *)

(* The inductive invariant of such an instance: the processor is always on  *)
(* the stack of the current thread.                                         *)
CInv ==
    /\ \A t \in Thread : ~kt_cancelled[t]
    /\ kstack = curthr /\ cpu # "lost"
    /\ ContextsIntact /\ HolderAlive

(* A thread that is on a queue has not exited.                              *)
LEMMA QueuedIsAlive ==
    ASSUME IInv, NEW q \in Queue
    PROVE  /\ \A t \in Range(queue[q]) : t \in Thread /\ kt_state[t] # "exited"
           /\ queue[q] # <<>> => Head(queue[q]) \in Range(queue[q])
<1>1. QueueTypes /\ Queues /\ Core
  BY Zenon, Parts
<1>2. \A t \in Range(queue[q]) : t \in Thread /\ kt_wchan[t] = q
  BY Zenon, <1>1 DEF Queues
<1>3. q # NULL
  BY ConstantsOK
<1>4. queue[q] \in Seq(Thread) /\ IsInjective(queue[q])
  BY Zenon, <1>1 DEF QueueTypes, Queues
<1>5. queue[q] # <<>> => Head(queue[q]) \in Range(queue[q])
  BY Zenon, <1>4, TailElements
<1> QED BY Zenon, <1>1, <1>2, <1>3, <1>5 DEF Core, Placement

(* A step that switches to no other thread, cancels nobody and brings no    *)
(* exited thread back keeps the contexts.                                   *)
LEMMA ContextStays ==
    ASSUME CInv, UNCHANGED <<kt_cancelled, curthr, kstack, resumable>>, cpu' # "lost",
           \A t \in Thread : kt_state'[t] # "exited" => kt_state[t] # "exited"
    PROVE  /\ \A t \in Thread : ~kt_cancelled'[t]
           /\ kstack' = curthr' /\ cpu' # "lost" /\ ContextsIntact'
BY Zenon DEF CInv, ContextsIntact

(* A step after which the mutexes have the holders they had, and no holder  *)
(* exited, keeps the holders alive.                                         *)
LEMMA HoldersStay ==
    ASSUME IInv, CInv, UNCHANGED km_holder,
           \A t \in Thread : kt_state'[t] = "exited" => kt_state[t] = "exited"
    PROVE  HolderAlive'
<1>1. km_holder \in [Mutex -> Thread \cup {NULL}]
  BY Zenon, Parts DEF OtherTypes
<1> QED BY <1>1 DEF CInv, HolderAlive

(* Wakeup and Broadcast wake threads that have not exited.                  *)
LEMMA WakeAlive ==
    ASSUME IInv, NEW q \in Queue, Wakeup(q) \/ Broadcast(q)
    PROVE  \A t \in Thread : kt_state'[t] = "exited" <=> kt_state[t] = "exited"
<1>1. kt_state \in [Thread -> State]
  BY Zenon, Parts DEF OtherTypes
<1>2. CASE Wakeup(q)
  <2>1. CASE queue[q] = <<>>
    BY <1>2, <2>1 DEF Wakeup
  <2>2. CASE queue[q] # <<>>
    <3>1. kt_state' = [kt_state EXCEPT ![Head(queue[q])] = "run"]
      BY SMTT(30), <1>2, <2>2 DEF Wakeup
    <3>2. kt_state[Head(queue[q])] # "exited"
      BY ZenonT(40), <2>2, QueuedIsAlive
    <3> QED BY Zenon, <1>1, <3>1, <3>2
  <2> QED BY Zenon, <2>1, <2>2
<1>3. CASE Broadcast(q)
  <2>1. kt_state' = [t \in Thread |-> IF t \in Range(queue[q]) THEN "run" ELSE kt_state[t]]
    BY ZenonT(40), <1>3 DEF Broadcast
  <2> QED BY SMTT(30), <2>1, QueuedIsAlive
<1> QED BY SMTT(30), <1>2, <1>3

(* Dispatch, when nobody is cancelled, resumes a saved context.             *)
LEMMA DispatchSaved ==
    ASSUME IInv, CInv, Dispatch
    PROVE  CInv'
<1>0. QueueTypes /\ OtherTypes
  BY ZenonT(40), Parts
<1>1. PICK t \in Thread :
         /\ kt_state[t] # "exited" /\ curthr' = t
         /\ ContextSwitch(t, ipl) \/ MustExit(t)
         /\ MustExit(t) \/ UNCHANGED kt_state
  <2>1. queue[RunQ] \in Seq(Thread)
    BY SMTT(30), <1>0 DEF QueueTypes, Queue
  <2>2. \A k \in 1..Len(queue[RunQ]) : queue[RunQ][k] \in Thread
    BY <2>1
  <2> QED BY SMTT(30), <2>2 DEF Dispatch
<1>2. ~MustExit(t)
  BY SMTT(30) DEF CInv, MustExit
<1>3. UNCHANGED <<kt_cancelled, km_holder, kt_state>>
  BY ZenonT(40), <1>1, <1>2 DEF Dispatch
<1> DEFINE saved == resumable \cup {u \in {curthr} : u = kstack}
<1>4. \A u \in Thread : kt_state[u] # "exited" => u \in saved
  BY <1>0 DEF CInv, ContextsIntact, OtherTypes
<1>5. /\ kstack' = t /\ resumable' = saved \ {t}
      /\ t \in saved => cpu' = "thread"
  BY ZenonT(40), <1>1, <1>2 DEF ContextSwitch
<1> HIDE DEF saved
<1>6. cpu' # "lost"
  BY Zenon, <1>1, <1>4, <1>5
<1> QED BY ZenonT(40), <1>1, <1>3, <1>4, <1>5, <1>6 DEF CInv, ContextsIntact, HolderAlive

(* Every other step keeps the thread on the processor.                      *)
LEMMA NextCInv ==
    ASSUME Canceller = {}, IInv, CInv, [Next]_vars
    PROVE  CInv'
<1> USE DEF ctxvars, threadvars
<1>0. /\ kt_state \in [Thread -> State] /\ curthr \in Thread
      /\ km_holder \in [Mutex -> Thread \cup {NULL}]
      /\ cpu = "thread" => kt_state[curthr] = "run" /\ kt_wchan[curthr] = NULL
      /\ NULL # RunQ
  BY ZenonT(40), Parts, ConstantsOK DEF OtherTypes, Core, CurrentThread, Queue
<1>1. ASSUME UNCHANGED <<kt_cancelled, curthr, kstack, resumable, km_holder>>, cpu' # "lost",
             \A t \in Thread : kt_state'[t] = "exited" <=> kt_state[t] = "exited"
      PROVE  CInv'
  BY <1>1, ContextStays, HoldersStay DEF CInv
<1>2. cpu # "lost"
  BY Zenon DEF CInv
<1>3. ASSUME NEW q, NEW st \in {"sleep", "sleep_cancellable"}, NEW fr, NEW level,
             cpu = "thread", SleepOn(q, st, fr, level), UNCHANGED km_holder
      PROVE  CInv'
  <2>1. /\ kt_state' = [kt_state EXCEPT ![curthr] = st] /\ cpu' = "switch"
        /\ UNCHANGED <<kt_cancelled, curthr, kstack, resumable>>
    BY SMTT(30), <1>3 DEF SleepOn
  <2> QED BY Zenon, <1>0, <1>1, <1>3, <2>1
<1>4. ASSUME NEW q \in Queue, Wakeup(q) \/ Broadcast(q), cpu' # "lost",
             UNCHANGED <<kt_cancelled, curthr, kstack, resumable, km_holder>>
      PROVE  CInv'
  BY Zenon, <1>1, <1>4, WakeAlive
<1>5. ASSUME NEW t \in Thread, sched_make_runnable(t) PROVE CInv'
  BY ZenonT(40), <1>0, <1>1, <1>2, <1>5 DEF sched_make_runnable, Unstarted
<1>6. ASSUME NEW t \in Thread, kthread_cancel(t) PROVE FALSE
  BY Zenon, <1>6 DEF kthread_cancel
<1>7. ASSUME NEW q \in WaitQ, sched_sleep_on(q) \/ sched_cancellable_sleep_on(q) PROVE CInv'
  BY SMTT(30), <1>3, <1>7 DEF sched_sleep_on, sched_cancellable_sleep_on
<1>8. ASSUME NEW q \in DevQ, driver_wait(q) PROVE CInv'
  BY Zenon, <1>3, <1>8 DEF driver_wait
<1>9. ASSUME NEW q \in WaitQ, sched_wakeup_on(q) \/ sched_broadcast_on(q) PROVE CInv'
  BY SMTT(30), <1>2, <1>4, <1>9 DEF sched_wakeup_on, sched_broadcast_on, Queue
<1>10. ASSUME NEW m \in Mutex, NEW st \in {"sleep", "sleep_cancellable"}, kmutex_take(m, st)
       PROVE  CInv'
  <2>1. CASE km_holder[m] = NULL
    <3>1. /\ km_holder' = [km_holder EXCEPT ![m] = curthr] /\ cpu' = cpu /\ cpu = "thread"
          /\ UNCHANGED <<kt_state, kt_cancelled, curthr, kstack, resumable>>
      BY SMTT(30), <1>10, <2>1 DEF kmutex_take
    <3>2. HolderAlive'
      BY ZenonT(40), <1>0, <3>1 DEF CInv, HolderAlive
    <3> QED BY Zenon, <1>2, <3>1, <3>2, ContextStays DEF CInv
  <2>2. CASE km_holder[m] # NULL
    <3>1. cpu = "thread" /\ SleepOn(m, st, m, HIGH) /\ UNCHANGED km_holder
      BY SMTT(30), <1>10, <2>2 DEF kmutex_take
    <3> QED BY Zenon, <1>3, <3>1
  <2> QED BY Zenon, <2>1, <2>2
<1>11. ASSUME NEW m \in Mutex, kmutex_lock(m) \/ kmutex_lock_cancellable(m) PROVE CInv'
  BY SMTT(30), <1>10, <1>11 DEF kmutex_lock, kmutex_lock_cancellable
<1>12. ASSUME NEW m \in Mutex, kmutex_unlock(m) PROVE CInv'
  <2>1. /\ Wakeup(m) /\ cpu' = cpu /\ km_holder' = [km_holder EXCEPT ![m] = NewOwner(m)]
        /\ UNCHANGED <<kt_cancelled, curthr, kstack, resumable>>
    BY <1>12 DEF kmutex_unlock
  <2>2. m \in Queue
    BY Zenon DEF Queue
  <2>3. \A t \in Thread : kt_state'[t] = "exited" <=> kt_state[t] = "exited"
    BY Zenon, <2>1, <2>2, WakeAlive
  <2>4. NewOwner(m) # NULL => NewOwner(m) \in Thread /\ kt_state[NewOwner(m)] # "exited"
    BY Zenon, <2>2, QueuedIsAlive DEF NewOwner
  <2>5. HolderAlive'
    BY SMTT(30), <1>0, <2>1, <2>3, <2>4 DEF CInv, HolderAlive
  <2> QED BY ZenonT(40), <1>2, <2>1, <2>3, <2>5, ContextStays DEF CInv
<1>13. CASE kthread_exit
  <2>1. /\ cpu = "thread" /\ crit[curthr] = {} /\ cpu' = "exit"
        /\ kt_state' = [kt_state EXCEPT ![curthr] = "exited"]
        /\ UNCHANGED <<kt_cancelled, curthr, kstack, resumable, km_holder>>
    BY Zenon, <1>13 DEF kthread_exit
  <2>2. \A m \in Mutex : km_holder[m] # curthr
    BY Zenon, <1>0, <2>1, Parts DEF Core, HolderWillKnow
  <2>3. HolderAlive'
    BY Zenon, <1>0, <2>1, <2>2 DEF CInv, HolderAlive
  <2>4. \A t \in Thread : kt_state'[t] # "exited" => kt_state[t] # "exited"
    BY Zenon, <1>0, <2>1
  <2> QED BY ZenonT(40), <2>1, <2>3, <2>4, ContextStays DEF CInv
<1>14. CASE proc_thread_exited
  <2>1. /\ cpu' = "switch" /\ UNCHANGED <<kt_cancelled, curthr, kstack, resumable, km_holder>>
        /\ (\E q \in WaitQ : Wakeup(q)) \/ UNCHANGED kt_state
    BY Zenon, <1>14 DEF proc_thread_exited
  <2> QED BY SMTT(30), <1>1, <1>4, <2>1 DEF Queue
<1>15. CASE SwitchEmpty \/ IntrWait
  BY SMTT(30), <1>1, <1>15 DEF SwitchEmpty, IntrWait
<1>16. CASE Dispatch
  BY SMTT(30), <1>16, DispatchSaved
<1>17. ASSUME TakeInterrupt
       PROVE  cpu' # "lost" /\ UNCHANGED <<kt_cancelled, curthr, kstack, resumable, km_holder>>
  BY SMTT(30), <1>17 DEF TakeInterrupt
<1>18. ASSUME NEW q \in DevQ, DeviceInterrupt(q) PROVE CInv'
  BY Zenon, <1>4, <1>17, <1>18 DEF DeviceInterrupt, Queue
<1>19. CASE OtherInterrupt
  BY Zenon, <1>1, <1>17, <1>19 DEF OtherInterrupt
<1>20. CASE UNCHANGED vars
  BY <1>1, <1>2, <1>20 DEF vars
<1> QED
  BY ZenonT(40), <1>5, <1>6, <1>7, <1>8, <1>9, <1>11, <1>12, <1>13, <1>14, <1>15, <1>16, <1>18,
     <1>19, <1>20 DEF Next, ThreadCall, Switch

(* As long as no thread cancels another, every thread that is off the       *)
(* processor can be resumed where it stopped (sched.c:204), and no mutex is *)
(* left with a holder that has exited.                                      *)
THEOREM ContextsKept ==
    ASSUME Canceller = {}
    PROVE  Spec => [](ContextsIntact /\ HolderAlive)
<1>1. Init => CInv
  BY ZenonT(40), ConstantsOK DEF Init, CInv, ContextsIntact, HolderAlive
<1>2. IInv /\ CInv /\ [Next]_vars => CInv'
  BY NextCInv
<1>3. CInv => ContextsIntact /\ HolderAlive
  BY DEF CInv
<1> QED BY <1>1, <1>2, <1>3, Invariance, PTL DEF Spec
=============================================================================
