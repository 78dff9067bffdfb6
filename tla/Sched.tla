------------------------------- MODULE Sched -------------------------------
(***************************************************************************)
(* Kernel threads, the run queue, wait queues and mutexes of the Weenix    *)
(* kernel: kernel/proc/sched.c, kmutex.c, kthread.c and context.c.         *)
(*                                                                         *)
(* The machine has one processor and kernel threads are not preempted: a   *)
(* thread keeps the processor until it calls sched_switch.  Only interrupt *)
(* handlers run in between, when the interrupt priority level (ipl) lets   *)
(* them.  Each call of the thread interface is one action of the running   *)
(* thread; sched_switch, which opens a window for interrupts when nothing  *)
(* is runnable, is taken apart into the steps that interrupts can separate.*)
(***************************************************************************)
EXTENDS QueueOps

CONSTANTS
    Thread,     \* the kernel threads
    First,      \* the thread that bootstrap() makes active
    Mutex,      \* the kmutexes; each also names its own km_waitq
    WaitQ,      \* queues threads sleep on and threads wake (p_wait, vn_waitq, ...)
    DevQ,       \* queues device drivers sleep on and interrupt handlers wake
    Canceller,  \* the threads whose code cancels other threads
    RunQ,       \* kt_runq
    NULL

Queue == {RunQ} \cup Mutex \cup WaitQ \cup DevQ

ASSUME ConstantsOK ==
    /\ First \in Thread
    /\ Canceller \subseteq Thread
    /\ RunQ \notin Mutex \cup WaitQ \cup DevQ
    /\ Mutex \cap (WaitQ \cup DevQ) = {}
    /\ WaitQ \cap DevQ = {}
    /\ NULL \notin Thread \cup Queue
    /\ Mutex \cap {"start", "sleep", "masked_sleep"} = {}

LOW  == 0   \* IPL_LOW, every interrupt is delivered
HIGH == 1   \* IPL_HIGH, none is

VARIABLES
    queue,      \* tq_list of each queue; the head is the thread dequeued next
    tq_size,    \* tq_size of each queue
    kt_state, kt_wchan, kt_cancelled,
    km_holder,
    curthr,
    kstack,     \* the thread whose kernel stack the processor is on
    resumable,  \* threads whose kt_ctx describes the point where they stopped
    frame,      \* what a thread that is off the processor returns into
    savedipl,   \* the level a blocked call of a thread will restore
    crit,       \* the mutexes a thread's code believes it holds
    cpu,        \* where the processor is
    ipl,        \* the interrupt priority level of the processor
    swipl,      \* curr_intr_level of the sched_switch under way
    devbusy     \* device queues with a request under way

threadvars == <<kt_state, kt_wchan, kt_cancelled>>
queuevars  == <<queue, tq_size>>
ctxvars    == <<kstack, resumable, frame, savedipl>>
vars == <<queuevars, threadvars, km_holder, curthr, ctxvars, crit, cpu, ipl,
          swipl, devbusy>>

State == {"run", "sleep", "sleep_cancellable", "exited"}
Frame == {"start", "sleep", "masked_sleep"} \cup Mutex
Cpu   == {"thread", "exit", "switch", "idle", "halted", "lost"}

TypeOK ==
    /\ queue \in [Queue -> Seq(Thread)]
    /\ tq_size \in [Queue -> Nat]
    /\ kt_state \in [Thread -> State]
    /\ kt_wchan \in [Thread -> Queue \cup {NULL}]
    /\ kt_cancelled \in [Thread -> BOOLEAN]
    /\ km_holder \in [Mutex -> Thread \cup {NULL}]
    /\ curthr \in Thread
    /\ kstack \in Thread
    /\ resumable \subseteq Thread
    /\ frame \in [Thread -> Frame]
    /\ savedipl \in [Thread -> {LOW, HIGH}]
    /\ crit \in [Thread -> SUBSET Mutex]
    /\ cpu \in Cpu
    /\ ipl \in {LOW, HIGH}
    /\ swipl \in {LOW, HIGH}
    /\ devbusy \subseteq DevQ

Init ==
    /\ queue = [q \in Queue |-> <<>>]
    /\ tq_size = [q \in Queue |-> 0]
    /\ kt_state = [t \in Thread |-> "run"]
    /\ kt_wchan = [t \in Thread |-> NULL]
    /\ kt_cancelled = [t \in Thread |-> FALSE]
    /\ km_holder = [m \in Mutex |-> NULL]
    /\ curthr = First
    /\ kstack = First
    /\ resumable = Thread \ {First}
    /\ frame = [t \in Thread |-> "start"]
    /\ savedipl = [t \in Thread |-> LOW]
    /\ crit = [t \in Thread |-> {}]
    /\ cpu = "thread"
    /\ ipl = LOW
    /\ swipl = LOW
    /\ devbusy = {}

-----------------------------------------------------------------------------
(* A thread that kthread_create made and sched_make_runnable has not seen.  *)
Unstarted(t) ==
    /\ kt_state[t] = "run" /\ kt_wchan[t] = NULL
    /\ frame[t] = "start" /\ t \in resumable

(* Variants of the definitions below, each with one mistake, that show the  *)
(* properties at the end can fail.                                          *)
WakeupCountsTwice(q) ==
    IF queue[q] = <<>>
    THEN UNCHANGED <<queuevars, kt_state, kt_wchan>>
    ELSE LET t == Head(queue[q]) IN
         /\ queue' = [queue EXCEPT ![q] = Tail(@), ![RunQ] = Append(@, t)]
         /\ tq_size' = [tq_size EXCEPT ![q] = @ - 2, ![RunQ] = @ + 1]
         /\ kt_state' = [kt_state EXCEPT ![t] = "run"]
         /\ kt_wchan' = [kt_wchan EXCEPT ![t] = RunQ]

EnqueueAtTheWrongEnd(q, t) ==
    /\ queue' = [queue EXCEPT ![q] = <<t>> \o @]
    /\ tq_size' = [tq_size EXCEPT ![q] = @ + 1]
    /\ kt_wchan' = [kt_wchan EXCEPT ![t] = q]

BroadcastKeepsState(q) ==
    LET moved == Range(queue[q]) IN
    /\ queue' = [queue EXCEPT ![q] = <<>>, ![RunQ] = @ \o queue[q]]
    /\ tq_size' = [tq_size EXCEPT ![q] = 0, ![RunQ] = @ + Len(queue[q])]
    /\ kt_wchan' = [t \in Thread |-> IF t \in moved THEN RunQ ELSE kt_wchan[t]]
    /\ UNCHANGED kt_state

NewOwnerIsLast(m) ==
    IF queue[m] = <<>> THEN NULL ELSE queue[m][Len(queue[m])]

NewOwnerIsNobody(m) == NULL

CancelInPlace(t) ==
    /\ kt_state' = [kt_state EXCEPT ![t] = "run"]
    /\ queue' = [queue EXCEPT ![RunQ] = Append(@, t)]
    /\ tq_size' = [tq_size EXCEPT ![RunQ] = @ + 1]
    /\ kt_wchan' = [kt_wchan EXCEPT ![t] = RunQ]

MustExitNever(t) == FALSE

UnlockForgetsWaiters(m) ==
    /\ cpu = "thread"
    /\ m \in crit[curthr]
    /\ crit' = [crit EXCEPT ![curthr] = @ \ {m}]
    /\ km_holder' = [km_holder EXCEPT ![m] = NULL]
    /\ UNCHANGED <<queuevars, threadvars, curthr, ctxvars, cpu, ipl, swipl, devbusy>>

(* The queue functions of sched.c, on the list and on the size together.    *)
ktqueue_enqueue(q, t) ==
    /\ queue' = [queue EXCEPT ![q] = Append(@, t)]
    /\ tq_size' = [tq_size EXCEPT ![q] = @ + 1]
    /\ kt_wchan' = [kt_wchan EXCEPT ![t] = q]

(* The running thread goes to sleep on q and enters sched_switch.           *)
SleepOn(q, st, fr, level) ==
    /\ kt_state' = [kt_state EXCEPT ![curthr] = st]
    /\ ktqueue_enqueue(q, curthr)
    /\ frame' = [frame EXCEPT ![curthr] = fr]
    /\ savedipl' = [savedipl EXCEPT ![curthr] = ipl]
    /\ ipl' = level
    /\ cpu' = "switch"
    /\ UNCHANGED <<kt_cancelled, curthr, kstack, resumable, crit, swipl>>

(* sched_wakeup_on(q): the first sleeper of q, if any, moves to the run     *)
(* queue.  Dequeueing clears kt_wchan and enqueueing sets it again.         *)
Wakeup(q) ==
    IF queue[q] = <<>>
    THEN UNCHANGED <<queuevars, kt_state, kt_wchan>>
    ELSE LET t == Head(queue[q]) IN
         /\ queue' = [queue EXCEPT ![q] = Tail(@), ![RunQ] = Append(@, t)]
         /\ tq_size' = [tq_size EXCEPT ![q] = @ - 1, ![RunQ] = @ + 1]
         /\ kt_state' = [kt_state EXCEPT ![t] = "run"]
         /\ kt_wchan' = [kt_wchan EXCEPT ![t] = RunQ]

(* sched_broadcast_on(q): every sleeper of q moves, first come first.       *)
Broadcast(q) ==
    LET moved == Range(queue[q]) IN
    /\ queue' = [queue EXCEPT ![q] = <<>>, ![RunQ] = @ \o queue[q]]
    /\ tq_size' = [tq_size EXCEPT ![q] = 0, ![RunQ] = @ + Len(queue[q])]
    /\ kt_state' = [t \in Thread |-> IF t \in moved THEN "run" ELSE kt_state[t]]
    /\ kt_wchan' = [t \in Thread |-> IF t \in moved THEN RunQ ELSE kt_wchan[t]]

-----------------------------------------------------------------------------
(* Calls of the running thread.                                             *)

sched_make_runnable(t) ==
    /\ cpu = "thread" /\ t # curthr /\ Unstarted(t)
    /\ kt_state' = [kt_state EXCEPT ![t] = "run"]
    /\ ktqueue_enqueue(RunQ, t)
    /\ UNCHANGED <<kt_cancelled, km_holder, curthr, ctxvars, crit, cpu, ipl,
                   swipl, devbusy>>

sched_sleep_on(q) ==
    /\ cpu = "thread"
    /\ SleepOn(q, "sleep", "sleep", ipl)
    /\ UNCHANGED <<km_holder, devbusy>>

(* A thread that is already cancelled would get -EINTR here; the invariant  *)
(* RunningNotCancelled says why that branch is never taken.                 *)
sched_cancellable_sleep_on(q) ==
    /\ cpu = "thread"
    /\ ~kt_cancelled[curthr]
    /\ SleepOn(q, "sleep_cancellable", "sleep", ipl)
    /\ UNCHANGED <<km_holder, devbusy>>

(* A driver masks interrupts, starts its request and sleeps until the       *)
(* interrupt handler wakes it; it restores the level when it runs again.    *)
driver_wait(q) ==
    /\ cpu = "thread"
    /\ q \notin devbusy
    /\ devbusy' = devbusy \cup {q}
    /\ SleepOn(q, "sleep", "masked_sleep", HIGH)
    /\ UNCHANGED km_holder

sched_wakeup_on(q) ==
    /\ cpu = "thread"
    /\ Wakeup(q)
    /\ UNCHANGED <<kt_cancelled, km_holder, curthr, ctxvars, crit, cpu, ipl,
                   swipl, devbusy>>

sched_broadcast_on(q) ==
    /\ cpu = "thread"
    /\ Broadcast(q)
    /\ UNCHANGED <<kt_cancelled, km_holder, curthr, ctxvars, crit, cpu, ipl,
                   swipl, devbusy>>

(* No thread locks a mutex it has locked (kmutex.c:38): the first conjunct  *)
(* is the caller's duty, the KASSERT at kmutex.c:47 checks it.              *)
kmutex_take(m, st) ==
    /\ cpu = "thread"
    /\ m \notin crit[curthr]
    /\ UNCHANGED devbusy
    /\ \/ /\ km_holder[m] = NULL
          /\ km_holder' = [km_holder EXCEPT ![m] = curthr]
          /\ crit' = [crit EXCEPT ![curthr] = @ \cup {m}]
          /\ UNCHANGED <<queuevars, threadvars, curthr, ctxvars, cpu, ipl, swipl>>
       \/ /\ km_holder[m] # NULL
          /\ SleepOn(m, st, m, HIGH)
          /\ UNCHANGED km_holder

kmutex_lock(m) == kmutex_take(m, "sleep")

(* As sched_cancellable_sleep_on, for a thread that is not cancelled.       *)
kmutex_lock_cancellable(m) ==
    /\ ~kt_cancelled[curthr]
    /\ kmutex_take(m, "sleep_cancellable")

NewOwner(m) == IF queue[m] = <<>> THEN NULL ELSE Head(queue[m])

(* The lock goes straight to the first waiter, or becomes free.             *)
kmutex_unlock(m) ==
    /\ cpu = "thread"
    /\ m \in crit[curthr]
    /\ crit' = [crit EXCEPT ![curthr] = @ \ {m}]
    /\ km_holder' = [km_holder EXCEPT ![m] = NewOwner(m)]
    /\ Wakeup(m)
    /\ UNCHANGED <<kt_cancelled, curthr, ctxvars, cpu, ipl, swipl, devbusy>>

(* A cancellable sleeper leaves its queue for the run queue.                *)
sched_cancel(t) ==
    LET q == kt_wchan[t] IN
    /\ kt_state' = [kt_state EXCEPT ![t] = "run"]
    /\ \E i \in 1..Len(queue[q]) :
         /\ queue[q][i] = t
         /\ queue' = [queue EXCEPT ![q] = RemoveAt(@, i), ![RunQ] = Append(@, t)]
    /\ tq_size' = [tq_size EXCEPT ![q] = @ - 1, ![RunQ] = @ + 1]
    /\ kt_wchan' = [kt_wchan EXCEPT ![t] = RunQ]

(* kthread_cancel of another thread than the idle one.                      *)
kthread_cancel(t) ==
    /\ cpu = "thread" /\ curthr \in Canceller
    /\ t \notin {curthr, First} /\ kt_state[t] # "exited"
    /\ kt_cancelled' = [kt_cancelled EXCEPT ![t] = TRUE]
    /\ \/ /\ kt_state[t] = "sleep_cancellable"
          /\ sched_cancel(t)
       \/ /\ kt_state[t] \in {"sleep", "run"}
          /\ UNCHANGED <<queuevars, kt_state, kt_wchan>>
    /\ UNCHANGED <<km_holder, curthr, ctxvars, crit, cpu, ipl, swipl, devbusy>>

(* The running thread returns from its function or cancels itself.  It has  *)
(* released its mutexes: that is its own duty.  The thread of the idle      *)
(* process never exits (kmain.c:235).                                       *)
kthread_exit ==
    /\ cpu = "thread"
    /\ crit[curthr] = {} /\ curthr # First
    /\ kt_state' = [kt_state EXCEPT ![curthr] = "exited"]
    /\ cpu' = "exit"
    /\ UNCHANGED <<queuevars, kt_wchan, kt_cancelled, km_holder, curthr, ctxvars,
                   crit, ipl, swipl, devbusy>>

(* The process of the exiting thread is cleaned up: the parent, if it is    *)
(* asleep on its p_wait, is woken (module Procs has the whole of it).       *)
proc_thread_exited ==
    /\ cpu = "exit"
    /\ cpu' = "switch"
    /\ \/ \E q \in WaitQ : queue[q] # <<>> /\ Wakeup(q)
       \/ UNCHANGED <<queuevars, kt_state, kt_wchan>>
    /\ UNCHANGED <<kt_cancelled, km_holder, curthr, ctxvars, crit, ipl, swipl,
                   devbusy>>

-----------------------------------------------------------------------------
(* sched_switch.                                                            *)

(* The run queue is empty: unmask every interrupt ...                       *)
SwitchEmpty ==
    /\ cpu = "switch"
    /\ queue[RunQ] = <<>>
    /\ swipl' = ipl
    /\ ipl' = LOW
    /\ cpu' = "idle"
    /\ UNCHANGED <<queuevars, threadvars, km_holder, curthr, ctxvars, crit, devbusy>>

(* ... and halt (intr_wait).  An interrupt may come between the two.        *)
IntrWait ==
    /\ cpu = "idle"
    /\ cpu' = "halted"
    /\ UNCHANGED <<queuevars, threadvars, km_holder, curthr, ctxvars, crit, ipl,
                   swipl, devbusy>>

(* The level the processor has once t runs its own code again.              *)
LevelOf(t, level) ==
    CASE frame[t] = "start" -> LOW
      [] frame[t] = "sleep" -> level
      [] OTHER              -> savedipl[t]

SwitchUnsaved(t, level) ==
    /\ kstack' = t
    /\ resumable' = resumable \ {t}
    /\ ipl' = LevelOf(t, level)
    /\ crit' = [crit EXCEPT ![t] = @ \cup ({frame[t]} \cap Mutex)]
    /\ frame' = [frame EXCEPT ![t] = "sleep"]
    /\ cpu' = "thread"

(* context_switch(curthr, t).  The processor state is saved as the context  *)
(* of curthr, which is where that thread stopped only if the stack is its   *)
(* own.  Resuming a context that was not saved where its thread stopped     *)
(* leaves the processor anywhere.                                           *)
ContextSwitch(t, level) ==
    LET saved == resumable \cup {u \in {curthr} : u = kstack} IN
    /\ kstack' = t
    /\ resumable' = saved \ {t}
    /\ IF t \in saved
       THEN /\ ipl' = LevelOf(t, level)
            /\ crit' = [crit EXCEPT ![t] = @ \cup ({frame[t]} \cap Mutex)]
            /\ frame' = [frame EXCEPT ![t] = "sleep"]
            /\ cpu' = "thread"
       ELSE /\ cpu' = "lost"
            /\ UNCHANGED <<ipl, crit, frame>>

(* A thread that was cancelled does not get to run again.                   *)
MustExit(t) == kt_cancelled[t]

(* Take the first thread of the run queue that has not exited.  A cancelled *)
(* one is made to exit at once, on the stack of the thread that called, and *)
(* sched_switch starts again at the high level.                             *)
Dispatch ==
    /\ cpu = "switch"
    /\ tq_size[RunQ] > 0
    /\ \E k \in 1..Len(queue[RunQ]) :
         LET t == queue[RunQ][k]
             skipped == {queue[RunQ][j] : j \in 1..k}
         IN
         /\ kt_state[t] # "exited"
         /\ \A j \in 1..(k - 1) : kt_state[queue[RunQ][j]] = "exited"
         /\ queue' = [queue EXCEPT ![RunQ] = SubSeq(@, k + 1, Len(@))]
         /\ tq_size' = [tq_size EXCEPT ![RunQ] = @ - k]
         /\ kt_wchan' = [u \in Thread |-> IF u \in skipped THEN NULL ELSE kt_wchan[u]]
         /\ curthr' = t
         /\ \/ /\ MustExit(t)
               /\ kt_state' = [kt_state EXCEPT ![t] = "exited"]
               /\ ipl' = HIGH
               /\ cpu' = "exit"
               /\ UNCHANGED <<kstack, resumable, frame, crit>>
            \/ /\ ~MustExit(t)
               /\ ContextSwitch(t, ipl)
               /\ UNCHANGED kt_state
    /\ UNCHANGED <<kt_cancelled, km_holder, savedipl, swipl, devbusy>>

-----------------------------------------------------------------------------
(* Interrupts.                                                              *)

(* An interrupt is taken between two instructions when the level allows it; *)
(* a halted processor goes on after it, back to the level of the caller of  *)
(* sched_switch.                                                            *)
TakeInterrupt ==
    /\ cpu # "lost" /\ ipl = LOW
    /\ IF cpu = "halted" THEN cpu' = "switch" /\ ipl' = swipl
                         ELSE UNCHANGED <<cpu, ipl>>
    /\ UNCHANGED <<kt_cancelled, km_holder, curthr, ctxvars, crit, swipl>>

(* The request of a device is complete.                                     *)
DeviceInterrupt(q) ==
    /\ q \in devbusy
    /\ TakeInterrupt
    /\ devbusy' = devbusy \ {q}
    /\ Broadcast(q)

(* An interrupt nobody waits for, such as a key.                            *)
OtherInterrupt ==
    /\ TakeInterrupt
    /\ UNCHANGED <<queuevars, kt_state, kt_wchan, devbusy>>

-----------------------------------------------------------------------------
ThreadCall ==
    \/ \E t \in Thread : sched_make_runnable(t) \/ kthread_cancel(t)
    \/ \E q \in WaitQ : \/ sched_sleep_on(q) \/ sched_cancellable_sleep_on(q)
                        \/ sched_wakeup_on(q) \/ sched_broadcast_on(q)
    \/ \E m \in Mutex : \/ kmutex_lock(m) \/ kmutex_lock_cancellable(m)
                        \/ kmutex_unlock(m)
    \/ \E q \in DevQ : driver_wait(q)
    \/ kthread_exit \/ proc_thread_exited

Switch == SwitchEmpty \/ IntrWait \/ Dispatch

Next ==
    \/ ThreadCall
    \/ Switch
    \/ \E q \in DevQ : DeviceInterrupt(q)
    \/ OtherInterrupt

Spec == Init /\ [][Next]_vars

(* What the scheduling justifies: sched_switch runs to its end; a device    *)
(* finishes its request; a thread that keeps getting the processor          *)
(* eventually releases the mutexes it holds, and eventually returns from    *)
(* its function or, if it is the idle thread, waits for something.          *)
Fairness ==
    /\ WF_vars(Switch \/ proc_thread_exited)
    /\ \A q \in DevQ : SF_vars(DeviceInterrupt(q))
    /\ \A t \in Thread : SF_vars(curthr = t /\ kthread_exit)
    /\ SF_vars(/\ curthr = First
               /\ \/ \E q \in WaitQ : sched_sleep_on(q)
                  \/ \E q \in DevQ : driver_wait(q))
    /\ \A t \in Thread, m \in Mutex : SF_vars(curthr = t /\ kmutex_unlock(m))

FairSpec == Spec /\ Fairness

(* As FairSpec, where in addition a halted processor always gets another    *)
(* interrupt (a key, a timer): see RunnableThreadNotHalted for what happens *)
(* when it does not.                                                        *)
TickingSpec == FairSpec /\ WF_vars(OtherInterrupt)

-----------------------------------------------------------------------------
(* Properties.                                                              *)

(* The threads that belong on no queue.                                     *)
OffQueue(t) == t = curthr \/ kt_state[t] = "exited" \/ Unstarted(t)

(* Every queue holds its threads once each and tq_size counts them;         *)
(* kt_wchan names the queue a thread is on; a thread on the run queue is    *)
(* runnable, a thread on another queue sleeps; a thread on no queue is the  *)
(* current one, has exited or was never made runnable.  This is the remark  *)
(* at sched.c:176 ("it should be on some queue.  Otherwise, it will never   *)
(* be run again").                                                          *)
QueueDiscipline ==
    /\ \A q \in Queue :
         /\ tq_size[q] = Len(queue[q])
         /\ IsInjective(queue[q])
         /\ Range(queue[q]) = {t \in Thread : kt_wchan[t] = q}
    /\ \A t \in Thread :
         \/ kt_wchan[t] = NULL /\ OffQueue(t)
         \/ kt_wchan[t] = RunQ /\ kt_state[t] = "run"
         \/ /\ kt_wchan[t] \in Mutex \cup WaitQ \cup DevQ
            /\ kt_state[t] \in {"sleep", "sleep_cancellable"}

(* A thread that came back from kmutex_lock or kmutex_lock_cancellable is   *)
(* the holder of the mutex until it unlocks it, whatever was cancelled      *)
(* meanwhile: two threads never believe to hold the same mutex.             *)
LockReturnsHeld ==
    \A t \in Thread, m \in Mutex : m \in crit[t] => km_holder[m] = t

(* A mutex that threads wait for has a holder: kmutex_unlock hands it to a  *)
(* waiter and never leaves it free with threads asleep on km_waitq.         *)
NoWaiterOnFreeMutex ==
    \A m \in Mutex : queue[m] # <<>> => km_holder[m] # NULL

(* A thread that runs has not been cancelled, so the kt_cancelled test of   *)
(* sched_cancellable_sleep_on (sched.c:125) never sees a cancelled thread.  *)
RunningNotCancelled == cpu = "thread" => ~kt_cancelled[curthr]

(* The holder of a mutex, if it is alive, either knows that it holds it or  *)
(* is on the run queue on its way out of kmutex_lock.  So the assertions    *)
(* that the caller of kmutex_lock is not the holder (kmutex.c:47, 74) hold. *)
HolderWillKnow ==
    \A m \in Mutex, t \in Thread :
        km_holder[m] = t /\ kt_state[t] # "exited" /\ cpu # "lost" =>
            m \in crit[t] \/ (kt_wchan[t] = RunQ /\ frame[t] = m)

(* The mutexes keep the promise of module KMutexSpec: one owner, first come *)
(* first served, handed over without a gap (kmutex.c:90-103).               *)
Promise == INSTANCE KMutexSpec
             WITH owner <- km_holder, waiters <- [m \in Mutex |-> queue[m]]

MutexProtocol == Promise!Spec

(* The processor is not halted while a thread is runnable.  intr_wait is    *)
(* documented not to miss an interrupt (interrupt.h:65), but sched_switch   *)
(* unmasks interrupts before it calls it.                                   *)
RunnableThreadNotHalted == cpu = "halted" => queue[RunQ] = <<>>

(* A thread that has not exited and is off the processor can be resumed     *)
(* where it stopped: sched_switch is to "switch into its context from the   *)
(* currently executing context" (sched.c:204).  It holds while nobody is    *)
(* cancelled: a cancelled thread exits on the stack of the one that called. *)
ContextsIntact ==
    \A t \in Thread : kt_state[t] # "exited" /\ t # kstack => t \in resumable

(* The holder of a mutex has not exited, while nobody is cancelled.         *)
HolderAlive ==
    \A m \in Mutex : km_holder[m] # NULL => kt_state[km_holder[m]] # "exited"

(* A thread that kmutex_unlock has made the holder comes back from          *)
(* kmutex_lock: it does not exit before, since the sleep there is           *)
(* "uncancellable" (sched.h:39) and a cancel is to do nothing to it         *)
(* (kthread.c:126).  sched_switch makes it exit when it is dispatched.      *)
HeirAlive ==
    \A m \in Mutex : km_holder[m] # NULL /\ m \notin crit[km_holder[m]] =>
                        kt_state[km_holder[m]] # "exited"

(* Whoever blocks in kmutex_lock eventually comes back with the mutex.  The *)
(* threads may sleep on device queues while they hold it; the property is   *)
(* for instances without a WaitQ, since a holder asleep on a queue that     *)
(* nobody wakes keeps the mutex for ever.                                   *)
WaiterGetsMutex ==
    \A t \in Thread, m \in Mutex :
        t \in Range(queue[m]) ~> m \in crit[t]
=============================================================================
