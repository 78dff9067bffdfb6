------------------------------- MODULE Procs -------------------------------
(***************************************************************************)
(* Processes of the Weenix kernel: kernel/proc/proc.c and the life of the  *)
(* idle and init processes in kernel/main/kmain.c.                         *)
(*                                                                         *)
(* A process has one thread, so a process also stands for its thread.  The *)
(* processor runs one process until that process sleeps or exits; of the   *)
(* scheduler (module Sched) only the run queue and what a thread sleeps on *)
(* are kept.                                                               *)
(*                                                                         *)
(* Whoever follows a pointer to a freed process or thread, or a list that  *)
(* does not lead back to its head, is lost: cpu is then "crashed", and     *)
(* nothing more is said of the kernel.                                     *)
(***************************************************************************)
EXTENDS QueueOps

CONSTANTS
    Proc,           \* the proc_t objects the slab can hand out
    Idle, InitProc, Pageoutd,
    PROC_MAX_COUNT, \* the number of pids
    Status,         \* exit statuses
    Halting,        \* whether a program may call sys_halt
    NULL

ASSUME ConstantsOK ==
    /\ {Idle, InitProc, Pageoutd} \subseteq Proc
    /\ Idle # InitProc /\ Idle # Pageoutd /\ InitProc # Pageoutd
    /\ PROC_MAX_COUNT \in Nat \ 0..2
    /\ Halting \in BOOLEAN
    /\ NULL \notin Proc \cup Status

Pid == 0 .. (PROC_MAX_COUNT - 1)

(* There are at least as many pids as processes: when one process is left   *)
(* out, the others cannot have all pids.  (Each takes a kernel stack of     *)
(* 56 kB, config.h:14, and 2^16 of them exceed the kernel's addresses, from *)
(* 0xc0000000 on, mm.h:8.)                                                  *)
ASSUME PidsSuffice ==
    \A P \in SUBSET Proc : P # Proc => \A owner \in [Pid -> P] : ~IsInjective(owner)

Kernel == {Idle, InitProc, Pageoutd}

VARIABLES
    live,           \* the processes on _proc_list
    next_pid, p_pid, p_pproc, p_children, p_state, p_status,
    kt_state,
    wchan,          \* the queue the thread is on: "runq", "p_wait", "event" or "none"
    runq,           \* kt_runq
    curproc,
    call,           \* what the thread does: its own code, or do_waitpid
    asked,          \* the pid that do_waitpid was asked for
    target,         \* the process do_waitpid(pid) waits for
    adopted,        \* processes that were reparented
    cpu             \* "thread", "switch", "halted" or "crashed"

treevars  == <<live, next_pid, p_pid, p_pproc, p_children, p_state, p_status, adopted>>
waitvars  == <<call, asked, target>>
schedvars == <<kt_state, wchan, runq, curproc>>
vars == <<treevars, waitvars, schedvars, cpu>>

TypeOK ==
    /\ live \subseteq Proc /\ adopted \subseteq Proc
    /\ next_pid \in Pid
    /\ p_pid \in [Proc -> Pid \cup {-1}]
    /\ p_pproc \in [Proc -> Proc \cup {NULL}]
    /\ p_children \in [Proc -> Seq(Proc)]
    /\ p_state \in [Proc -> {"running", "dead"}]
    /\ p_status \in [Proc -> Status \cup {NULL}]
    /\ kt_state \in [Proc -> {"run", "sleep", "exited"}]
    /\ wchan \in [Proc -> {"runq", "p_wait", "event", "none"}]
    /\ runq \in Seq(Proc)
    /\ curproc \in Proc
    /\ call \in [Proc -> {"user", "wait_any", "wait_pid"}]
    /\ asked \in [Proc -> Pid \cup {-1}]
    /\ target \in [Proc -> Proc \cup {NULL}]
    /\ cpu \in {"thread", "switch", "halted", "crashed"}

(* bootstrap and idleproc_run up to its call of do_waitpid: the idle        *)
(* process has created init and pageoutd; pageoutd sleeps, init is          *)
(* runnable.                                                                *)
Init ==
    /\ live = Kernel /\ adopted = {}
    /\ next_pid = 3 % PROC_MAX_COUNT
    /\ p_pid = [p \in Proc |-> CASE p = Idle -> 0 [] p = InitProc -> 1
                                 [] p = Pageoutd -> 2 [] OTHER -> -1]
    /\ p_pproc = [p \in Proc |-> IF p \in {InitProc, Pageoutd} THEN Idle ELSE NULL]
    /\ p_children = [p \in Proc |-> IF p = Idle THEN <<InitProc, Pageoutd>> ELSE <<>>]
    /\ p_state = [p \in Proc |-> "running"]
    /\ p_status = [p \in Proc |-> NULL]
    /\ kt_state = [p \in Proc |-> IF p = Pageoutd THEN "sleep" ELSE "run"]
    /\ wchan = [p \in Proc |-> CASE p = InitProc -> "runq" [] p = Pageoutd -> "event"
                                 [] OTHER -> "none"]
    /\ runq = <<InitProc>>
    /\ curproc = Idle
    /\ call = [p \in Proc |-> IF p = Idle THEN "wait_any" ELSE "user"]
    /\ asked = [p \in Proc |-> -1]
    /\ target = [p \in Proc |-> NULL]
    /\ cpu = "thread"

-----------------------------------------------------------------------------
Children(p) == Range(p_children[p])

(* do_waitpid has joined the list of children of p to that of init, and did *)
(* not empty it: whoever goes along it does not come back to its head.      *)
Astray(p) == \E q \in Children(p) : p_pproc[q] # p

(* A dead process whose thread has not exited: proc_kill_all killed it and  *)
(* an interrupt has made its thread runnable since.                         *)
Revived(p) == p_state[p] = "dead" /\ kt_state[p] # "exited"

(* The process executes code of its own, outside do_waitpid.                *)
Running(c) == cpu = "thread" /\ curproc = c /\ call[c] = "user" /\ c \notin {Idle, Pageoutd}

(* Variants of the definitions below, each with one mistake, that show the  *)
(* properties at the end can fail.                                          *)

GetidUnchecked == {next_pid}

ReparentDrops(q, children) ==
    /\ p_children' = [children EXCEPT ![q] = <<>>]
    /\ adopted' = adopted \cup Children(q)

WakeNobody(p) ==
    /\ kt_state' = [kt_state EXCEPT ![curproc] = "exited"]
    /\ UNCHANGED <<wchan, runq>>

WakeItself(p) ==
    /\ kt_state' = [kt_state EXCEPT ![curproc] = "exited"]
    /\ wchan' = [wchan EXCEPT ![curproc] = "runq"]
    /\ runq' = Append(runq, curproc)

MustWaitNever == FALSE

DisposableUncounted(c) ==
    LET dead == {i \in DOMAIN p_children[c] : p_state[p_children[c][i]] = "dead"}
    IN  {p_children[c][i] : i \in IF dead = {} THEN {Len(p_children[c])} ELSE FirstOf(dead)}

(* The next pid nobody has, from next_pid on and around; -1 if all are      *)
(* taken.  (A set of one.)                                                  *)
_proc_getid ==
    LET used == {p_pid[p] : p \in live}
        free == {k \in Pid : (next_pid + k) % PROC_MAX_COUNT \notin used}
    IN  IF free = {} THEN {-1} ELSE {(next_pid + k) % PROC_MAX_COUNT : k \in FirstOf(free)}

(* proc_create, kthread_create and sched_make_runnable, which its callers   *)
(* do in a row.  A process that gets pid -1 is on the list of all processes *)
(* and on no list of children.  (An object whose thread was freed while it  *)
(* was queued is not handed out again.)                                     *)
proc_create ==
    /\ Running(curproc) /\ ~Astray(curproc)
    /\ \E new \in {p \in Proc \ live : wchan[p] = "none"}, pid \in _proc_getid :
         /\ live' = live \cup {new}
         /\ next_pid' = IF pid = -1 THEN next_pid ELSE (pid + 1) % PROC_MAX_COUNT
         /\ p_pid' = [p_pid EXCEPT ![new] = pid]
         /\ p_pproc' = [p_pproc EXCEPT ![new] = curproc]
         /\ p_children' = IF pid > 0 THEN [p_children EXCEPT ![curproc] = Append(@, new)]
                                     ELSE p_children
         /\ p_state' = [p_state EXCEPT ![new] = "running"]
         /\ kt_state' = [kt_state EXCEPT ![new] = "run"]
         /\ wchan' = [wchan EXCEPT ![new] = "runq"]
         /\ runq' = Append(runq, new)
    /\ UNCHANGED <<p_status, adopted, waitvars, curproc, cpu>>

(* sched_wakeup_on of the p_wait of p, which only p sleeps on.              *)
WakeParent(p) ==
    IF kt_state[p] = "sleep" /\ wchan[p] = "p_wait"
    THEN /\ kt_state' = [kt_state EXCEPT ![p] = "run", ![curproc] = "exited"]
         /\ wchan' = [wchan EXCEPT ![p] = "runq"]
         /\ runq' = Append(runq, p)
    ELSE /\ kt_state' = [kt_state EXCEPT ![curproc] = "exited"]
         /\ UNCHANGED <<wchan, runq>>

(* The children of q are put at the end of the children of init.            *)
Reparent(q, children) ==
    /\ p_children' = [children EXCEPT ![q] = <<>>,
                                      ![InitProc] = @ \o p_children[q]]
    /\ adopted' = adopted \cup Children(q)

(* proc_cleanup of the current process.                                     *)
proc_cleanup(status) ==
    /\ Reparent(curproc, p_children)
    /\ p_pproc' = [p \in Proc |-> IF p \in Children(curproc) THEN InitProc ELSE p_pproc[p]]
    /\ p_state' = [p_state EXCEPT ![curproc] = "dead"]
    /\ p_status' = [p_status EXCEPT ![curproc] = status]
    /\ WakeParent(p_pproc[curproc])

(* init may not leave while it has children.                                *)
MustWait == curproc = InitProc /\ p_children[InitProc] # <<>>

(* do_exit.  The init process first waits in a loop of sched_switch until   *)
(* it has no children: its thread has exited already and is on no queue, so *)
(* it never comes back from the first sched_switch.                         *)
do_exit(status) ==
    /\ Running(curproc) /\ ~Astray(curproc) /\ p_pproc[curproc] \in live
    /\ cpu' = "switch"
    /\ \/ /\ MustWait
          /\ kt_state' = [kt_state EXCEPT ![InitProc] = "exited"]
          /\ UNCHANGED <<treevars, wchan, runq>>
       \/ /\ ~MustWait
          /\ proc_cleanup(status)
          /\ UNCHANGED <<live, next_pid, p_pid>>
    /\ UNCHANGED <<waitvars, curproc>>

-----------------------------------------------------------------------------
(* do_waitpid.  With no child, or a pid that is no child, it returns        *)
(* -ECHILD and changes nothing; those calls are not steps here.             *)

(* do_waitpid(-1, 0, &status) with children.                                *)
do_waitpid_any ==
    /\ Running(curproc) /\ ~Astray(curproc)
    /\ p_children[curproc] # <<>>
    /\ call' = [call EXCEPT ![curproc] = "wait_any"]
    /\ UNCHANGED <<treevars, schedvars, asked, target, cpu>>

(* The child that do_waitpid(pid) goes on with once it has seen that the    *)
(* caller has a child pid: "break" leaves only the inner do-while of        *)
(* list_iterate_begin, so p is the last child when the iteration ends.      *)
Found(children, pid) == children[Len(children)]

WaitpidAnyParent(pid) ==
    /\ Running(curproc)
    /\ p_children[curproc] # <<>>
    /\ \E p \in live : p_pid[p] = pid
    /\ call' = [call EXCEPT ![curproc] = "wait_pid"]
    /\ asked' = [asked EXCEPT ![curproc] = pid]
    /\ target' = [target EXCEPT ![curproc] = Found(p_children[curproc], pid)]
    /\ UNCHANGED <<treevars, schedvars, cpu>>

do_waitpid_pid(pid) ==
    /\ Running(curproc) /\ ~Astray(curproc)
    /\ \E p \in Children(curproc) : p_pid[p] = pid /\ p_pproc[p] = curproc
    /\ call' = [call EXCEPT ![curproc] = "wait_pid"]
    /\ asked' = [asked EXCEPT ![curproc] = pid]
    /\ target' = [target EXCEPT ![curproc] = Found(p_children[curproc], pid)]
    /\ UNCHANGED <<treevars, schedvars, cpu>>

(* do_waitpid of a pid nobody has reads through the NULL that proc_lookup   *)
(* returned.                                                                *)
NobodyHas(pid) == \A p \in live : p_pid[p] # pid

(* The calls that are lost: do_waitpid of such a pid; do_exit of a process  *)
(* whose parent was freed, whose threads it looks at; a creation, an exit   *)
(* or a wait of a process whose children have been joined to those of init. *)
GetLost ==
    /\ cpu = "thread"
    /\ \/ Running(curproc) /\ \E pid \in Pid \ {0} : NobodyHas(pid)
       \/ Running(curproc) /\ p_pproc[curproc] \notin live
       \/ Astray(curproc)
    /\ cpu' = "crashed"
    /\ UNCHANGED <<treevars, waitvars, schedvars>>

(* The process the waiting caller c can dispose of: its first dead child,   *)
(* or the child it waits for once that is dead.                             *)
Disposable(c) ==
    IF call[c] = "wait_any"
    THEN LET dead == {i \in DOMAIN p_children[c] : p_state[p_children[c][i]] = "dead"}
         IN  {p_children[c][i] : i \in FirstOf(dead)}
    ELSE {p \in {target[c]} : p_state[p] = "dead"}

(* One pass of the loop in do_waitpid that finds a dead child: it leaves    *)
(* the tree, its own children go to init, thread and process are freed.     *)
(* The exit status is left out: do_waitpid assigns it to its own parameter  *)
(* and never through it, so it reaches nobody.                              *)
Dispose ==
    LET c == curproc IN
    /\ cpu = "thread" /\ call[c] # "user" /\ ~Astray(c)
    /\ \E p \in Disposable(c) :
         /\ call[c] = "wait_any" => ~Revived(p)
         /\ Reparent(p, [p_children EXCEPT ![c] = Without(@, p)])
         /\ p_pproc' = [q \in Proc |-> IF q = p THEN NULL
                                       ELSE IF q \in Children(p) THEN InitProc ELSE p_pproc[q]]
         /\ live' = live \ {p}
         /\ p_pid' = [p_pid EXCEPT ![p] = -1]
         /\ p_status' = [p_status EXCEPT ![p] = NULL]
         /\ asked' = [asked EXCEPT ![c] = -1, ![p] = -1]
         /\ target' = [target EXCEPT ![c] = NULL, ![p] = NULL]
         /\ call' = [call EXCEPT ![c] = "user", ![p] = "user"]
    /\ UNCHANGED <<next_pid, p_state, schedvars, cpu>>

(* What the pass of do_waitpid(-1) in c makes of the next child it meets.   *)
(* A dead one is taken off the list and its children are joined to those of *)
(* init (which are the very list when c is init: the pass comes to them     *)
(* too, unless this child was the last).  The pass ends at a thread that    *)
(* has exited.                                                              *)
Visit(c, pass) ==
    LET p == Head(pass.ahead)
        dead == p_state[p] = "dead"
        kids == IF dead THEN p_children[p] ELSE <<>>
        joined == IF c = InitProc /\ Len(pass.ahead) > 1 THEN kids ELSE <<>>
    IN  IF pass.ahead = <<>> \/ pass.over THEN pass
        ELSE [ahead |-> Tail(pass.ahead) \o joined,
              off   |-> IF dead THEN pass.off \cup {p} ELSE pass.off,
              kids  |-> pass.kids \o kids,
              p     |-> p,
              over  |-> dead /\ ~Revived(p)]

Pass(c) ==
    LET visited[n \in Nat] ==
          IF n = 0
          THEN [ahead |-> p_children[c], off |-> {}, kids |-> <<>>, p |-> NULL, over |-> FALSE]
          ELSE Visit(c, visited[n - 1])
    IN  visited[PROC_MAX_COUNT]

(* The same pass when the first dead child is one whose thread has not      *)
(* exited.  That child is off the list but stays on _proc_list, its own     *)
(* list as it was, and the pass goes on; freed is the first whose thread    *)
(* has exited or, if there is none, the last child, dead or not.            *)
DisposePast ==
    LET c == curproc IN
    /\ cpu = "thread" /\ call[c] = "wait_any" /\ ~Astray(c)
    /\ \E first \in Disposable(c) : Revived(first)
    /\ \E pass \in {Pass(c)} :
         /\ p_children' = [q \in Proc |->
                IF q = pass.p THEN <<>>
                ELSE LET all == IF q = InitProc THEN p_children[q] \o pass.kids ELSE p_children[q]
                         kept(r) == r \notin pass.off \cup {pass.p}
                     IN  IF q = c THEN SelectSeq(all, kept) ELSE all]
         /\ p_pproc' = [q \in Proc |->
                IF q = pass.p THEN NULL
                ELSE IF q \in Range(pass.kids) THEN InitProc ELSE p_pproc[q]]
         /\ adopted' = adopted \cup Range(pass.kids)
         /\ live' = live \ {pass.p}
         /\ p_pid' = [p_pid EXCEPT ![pass.p] = -1]
         /\ p_status' = [p_status EXCEPT ![pass.p] = NULL]
         /\ asked' = [asked EXCEPT ![pass.p] = -1]
         /\ target' = [target EXCEPT ![pass.p] = NULL]
         /\ call' = [call EXCEPT ![c] = "user", ![pass.p] = "user"]
    /\ UNCHANGED <<next_pid, p_state, schedvars, cpu>>

(* A pass that finds none: sleep on p_wait.                                 *)
WaitSleep ==
    /\ cpu = "thread" /\ call[curproc] # "user" /\ ~Astray(curproc)
    /\ Disposable(curproc) = {}
    /\ kt_state' = [kt_state EXCEPT ![curproc] = "sleep"]
    /\ wchan' = [wchan EXCEPT ![curproc] = "p_wait"]
    /\ cpu' = "switch"
    /\ UNCHANGED <<treevars, waitvars, runq, curproc>>

-----------------------------------------------------------------------------
(* The idle process comes back from do_waitpid, shuts the VFS down and      *)
(* halts the machine.                                                       *)
hard_shutdown ==
    /\ cpu = "thread" /\ curproc = Idle /\ call[Idle] = "user"
    /\ cpu' = "halted"
    /\ UNCHANGED <<treevars, waitvars, schedvars>>

(* proc_kill_all, called by sys_halt: every process but idle, init and the  *)
(* children of idle is dead from here on, its thread exited, though still   *)
(* on its queue; init is taken off its queue and runs.  If init has exited  *)
(* and waits for its children it is on no queue, and list_remove goes       *)
(* through a NULL link.  The parent of a process may have been freed.       *)
proc_kill_all ==
    LET killed == {p \in live : p \notin {Idle, InitProc} /\ p_pproc[p] # Idle}
        orphan == \E p \in killed : p_pproc[p] \notin live
    IN
    /\ Halting /\ Running(curproc)
    /\ p_state' = [p \in Proc |-> IF p \in killed THEN "dead" ELSE p_state[p]]
    /\ kt_state' = [p \in Proc |-> IF p \in killed THEN "exited" ELSE kt_state[p]]
    /\ IF orphan \/ (curproc # InitProc /\ wchan[InitProc] = "none")
       THEN cpu' = "crashed" /\ UNCHANGED <<wchan, runq, curproc>>
       ELSE /\ wchan' = [wchan EXCEPT ![InitProc] = "none"]
            /\ runq' = Without(runq, InitProc)
            /\ curproc' = InitProc
            /\ UNCHANGED cpu
    /\ UNCHANGED <<live, next_pid, p_pid, p_pproc, p_children, p_status, adopted, waitvars>>

(* The process waits for a device or a key.                                 *)
SleepOnEvent ==
    /\ Running(curproc)
    /\ kt_state' = [kt_state EXCEPT ![curproc] = "sleep"]
    /\ wchan' = [wchan EXCEPT ![curproc] = "event"]
    /\ cpu' = "switch"
    /\ UNCHANGED <<treevars, waitvars, runq, curproc>>

(* The interrupt handler broadcasts on the queue of p, whatever the state   *)
(* of its thread; a thread that was freed there leads astray.               *)
EventInterrupt(p) ==
    /\ cpu \in {"thread", "switch"} /\ p # Pageoutd
    /\ wchan[p] = "event"
    /\ IF p \in live
       THEN /\ kt_state' = [kt_state EXCEPT ![p] = "run"]
            /\ wchan' = [wchan EXCEPT ![p] = "runq"]
            /\ runq' = Append(runq, p)
            /\ UNCHANGED cpu
       ELSE cpu' = "crashed" /\ UNCHANGED <<kt_state, wchan, runq>>
    /\ UNCHANGED <<treevars, waitvars, curproc>>

(* sched_switch: threads that have exited are skipped; a queue of nothing   *)
(* else, or a thread that was freed, leads astray.                          *)
sched_switch ==
    /\ cpu = "switch" /\ runq # <<>>
    /\ LET alive == {i \in DOMAIN runq : kt_state[runq[i]] # "exited"}
           sound == \A i \in DOMAIN runq : runq[i] \in live
       IN  IF alive = {} \/ ~sound
           THEN cpu' = "crashed" /\ UNCHANGED schedvars
           ELSE \E i \in FirstOf(alive) :
                /\ curproc' = runq[i]
                /\ runq' = SubSeq(runq, i + 1, Len(runq))
                /\ wchan' = [p \in Proc |->
                               IF \E j \in 1..i : runq[j] = p THEN "none" ELSE wchan[p]]
                /\ cpu' = "thread"
                /\ UNCHANGED kt_state
    /\ UNCHANGED <<treevars, waitvars>>

-----------------------------------------------------------------------------
ProcessStep ==
    \/ proc_create
    \/ \E status \in Status : do_exit(status)
    \/ do_waitpid_any
    \/ \E pid \in Pid \ {0} : do_waitpid_pid(pid)
    \/ GetLost
    \/ Dispose \/ DisposePast \/ WaitSleep
    \/ SleepOnEvent
    \/ hard_shutdown
    \/ proc_kill_all

Next ==
    \/ ProcessStep
    \/ sched_switch
    \/ \E p \in Proc : EventInterrupt(p)

Spec == Init /\ [][Next]_vars

(* The processor goes on executing.                                         *)
FairSpec == Spec /\ WF_vars(ProcessStep \/ sched_switch)

-----------------------------------------------------------------------------
(* Properties.                                                              *)

(* No two processes have the same pid, however often next_pid has wrapped   *)
(* around (_proc_getid, proc.c:54).                                         *)
PidsUnique ==
    \A p, q \in live : p_pid[p] = p_pid[q] /\ p_pid[p] # -1 => p = q

(* The list of children of a process holds, once each, the processes whose  *)
(* p_pproc it is: a process that is created, reparented or disposed of is   *)
(* on the list of exactly one parent, or it is never waited for.            *)
TreeConsistent ==
    \A p \in live :
        /\ IsInjective(p_children[p])
        /\ Children(p) = {q \in live : p_pproc[q] = p}

(* When init is dead no process is left but the ones the idle process       *)
(* created: "the init process should not have any children at the time it   *)
(* exits" (proc.c:152).                                                     *)
InitDiesLast == p_state[InitProc] = "dead" => live \subseteq Kernel

(* Whoever is disposed of is a dead child of the process that calls         *)
(* do_waitpid, and nobody else leaves _proc_list.                           *)
OnlyDeadChildrenDisposed ==
    [][\A p \in live \ live' : p_state[p] = "dead" /\ p_pproc[p] = curproc]_vars

(* A process asleep in do_waitpid has nothing it could dispose of: the exit *)
(* of a child wakes its parent.  The one exception is init and a dead       *)
(* process that it was given by a parent that exited.                       *)
NoWakeupMissed ==
    \A p \in live : wchan[p] = "p_wait" =>
        \A q \in Disposable(p) : p = InitProc /\ q \in adopted

(* The same without the exception: do_waitpid blocks "if all children of    *)
(* this process are still running" (proc.c:368).                            *)
NoZombieOfSleeper ==
    \A p \in live : wchan[p] = "p_wait" => Disposable(p) = {}

(* No queue holds a thread that has exited: kthread_exit asserts it of the  *)
(* exiting thread (kthread.c:167).                                          *)
QueuedThreadsAlive ==
    \A p \in Proc : wchan[p] # "none" => p \in live /\ kt_state[p] # "exited"

(* The idle process disposes of init, as idleproc_run asserts               *)
(* (kmain.c:212), when it comes back from do_waitpid.                       *)
IdleReapsInit == call[Idle] = "user" => InitProc \notin live

(* do_waitpid(pid) of a process with one child disposes of the process pid  *)
(* (proc.c:371), whoever exits, is given to init or takes a pid meanwhile.  *)
(* With several children it disposes of the last one, whatever pid is.      *)
DisposesOfAsked ==
    [][\A p \in live \ live' :
         call[curproc] = "wait_pid" /\ Len(p_children[curproc]) = 1
           => p_pid[p] = asked[curproc]]_vars

(* Once init is dead the machine comes to its halt; a program that crashes  *)
(* the kernel in do_waitpid is the only other end.                          *)
DeadInitHalts == p_state[InitProc] = "dead" ~> cpu \in {"halted", "crashed"}

(* A process that waits for any child and has a dead one comes back, unless *)
(* it is init, the machine stops first, or proc_kill_all kills the process. *)
WaitReturns ==
    \A p \in Proc \ {InitProc} :
        call[p] = "wait_any" /\ Disposable(p) # {} ~>
            \/ call[p] = "user" \/ p_state[p] = "dead"
            \/ cpu \in {"halted", "crashed"}
=============================================================================
