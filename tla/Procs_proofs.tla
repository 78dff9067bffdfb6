---------------------------- MODULE Procs_proofs ----------------------------
(* Proofs about Procs, for any number of processes and pids: that pids are  *)
(* unique; then, for programs that do not call sys_halt, the inductive      *)
(* invariant, that every step preserves it, and the properties that follow, *)
(* and who sleeps in do_waitpid and who wakes it, on top of the invariant.  *)
(* (After proc_kill_all a dead child may have a thread that runs again; the *)
(* pass of do_waitpid that meets it leaves lists that the invariant does    *)
(* not describe.)                                                           *)
EXTENDS Procs, QueueLemmas

(* What is fixed about the processes that idle creates when the kernel      *)
(* boots.                                                                   *)
Boot ==
    /\ Idle \in live /\ Pageoutd \in live
    /\ p_pid[Idle] = 0
    /\ p_pproc[Idle] = NULL /\ p_pproc[Pageoutd] = Idle
    /\ p_state[Pageoutd] = "running"
    /\ InitProc \in live => p_pproc[InitProc] = Idle
    /\ InitProc \notin live => p_state[InitProc] = "dead"

(* A process on _proc_list has a parent on it, which is neither idle nor    *)
(* pageoutd for any process made later; a process off it has no child.      *)
Parents ==
    /\ \A p \in live \ {Idle} : p_pproc[p] \in live
    /\ \A p \in live \ Kernel : p_pproc[p] \notin {Idle, Pageoutd}
    /\ \A p \in Proc \ live : p_children[p] = <<>> /\ call[p] = "user"

(* Parent pointers do not go in circles: of any processes made after the    *)
(* boot, one has its parent outside.                                        *)
Acyclic ==
    \A S \in SUBSET (live \ Kernel) :
        S # {} => \E p \in S : p_pproc[p] \notin S

(* The current process is on _proc_list and, while it runs, on no queue; a  *)
(* dead init does not run and is on no queue.                               *)
Current ==
    /\ curproc \in live
    /\ cpu = "thread" => wchan[curproc] = "none"
    /\ p_state[InitProc] = "dead" =>
         /\ kt_state[InitProc] = "exited" /\ wchan[InitProc] = "none"
         /\ curproc = InitProc => cpu # "thread"

(* The process that do_waitpid(pid) waits for stays a child of the caller.  *)
Waiting == \A c \in live : call[c] = "wait_pid" => target[c] \in Children(c)

(* Whoever is on a queue is alive; a dead process has exited; a process     *)
(* asleep in do_waitpid is asleep, and is in do_waitpid.                    *)
Threads ==
    /\ QueuedThreadsAlive
    /\ \A p \in live : p_state[p] = "dead" => kt_state[p] = "exited"
    /\ cpu = "thread" => kt_state[curproc] # "exited"
    /\ \A p \in Proc : wchan[p] = "p_wait" => kt_state[p] = "sleep" /\ call[p] # "user"

(* The inductive invariant.                                                 *)
IInv ==
    /\ TypeOK /\ PidsUnique /\ TreeConsistent /\ InitDiesLast /\ IdleReapsInit
    /\ Boot /\ Parents /\ Acyclic /\ Current /\ Waiting

-----------------------------------------------------------------------------
(* Pids, whatever programs call.                                            *)
PidsTyped ==
    /\ live \subseteq Proc /\ next_pid \in Pid
    /\ p_pid \in [Proc -> Pid \cup {-1}]

(* Some pid is free while some process object is.                           *)
LEMMA PidFree ==
    ASSUME PidsTyped, NEW new \in Proc \ live, NEW pid \in _proc_getid
    PROVE  pid \in Pid /\ \A p \in live : p_pid[p] # pid
<1> DEFINE N == PROC_MAX_COUNT
           used == {p_pid[p] : p \in live}
           free == {k \in Pid : (next_pid + k) % N \notin used}
<1>1. N \in Nat /\ N > 2 /\ next_pid \in 0..(N - 1)
  BY ConstantsOK DEF PidsTyped, Pid
<1>2. \E i \in Pid : i \notin used
  <2> SUFFICES ASSUME \A i \in Pid : i \in used PROVE FALSE
    OBVIOUS
  <2> DEFINE owner == [i \in Pid |-> CHOOSE p \in live : p_pid[p] = i]
  <2>1. \A i \in Pid : owner[i] \in live /\ p_pid[owner[i]] = i
    OBVIOUS
  <2>2. owner \in [Pid -> live] /\ DOMAIN owner = Pid
    BY <2>1
  <2> HIDE DEF owner
  <2>3. IsInjective(owner)
    BY <2>1, <2>2 DEF IsInjective
  <2> QED BY Zenon, <2>2, <2>3, PidsSuffice DEF PidsTyped
<1>3. free # {}
  <2>1. PICK i \in Pid : i \notin used
    BY <1>2
  <2> DEFINE k == IF i >= next_pid THEN i - next_pid ELSE i + N - next_pid
  <2>2. i \in 0..(N - 1)
    BY DEF Pid
  <2>3. k \in 0..(N - 1) /\ (next_pid + k = i \/ next_pid + k = i + N)
    BY <1>1, <2>2
  <2>4. (next_pid + k) % N = i
    BY <1>1, <2>2, <2>3
  <2> QED BY <2>1, <2>3, <2>4 DEF Pid
<1>4. PICK k \in free : pid = (next_pid + k) % N
  BY <1>3 DEF _proc_getid, FirstOf
<1>5. k \in Nat /\ (next_pid + k) % N \notin used
  BY <1>1, <1>4 DEF Pid
<1>6. pid \in 0..(N - 1)
  BY <1>1, <1>4, <1>5
<1> QED BY <1>4, <1>5, <1>6 DEF Pid

(* No two processes have the same pid, for any number of pids that suffices *)
(* and however often they are taken and given back (_proc_getid), with or   *)
(* without proc_kill_all.                                                   *)
THEOREM PidsAreUnique == Spec => []PidsUnique
<1> DEFINE PInv == PidsTyped /\ PidsUnique
<1>1. Init => PInv
  <2> SUFFICES ASSUME Init PROVE PInv
    OBVIOUS
  <2> USE ConstantsOK
  <2>1. 3 % PROC_MAX_COUNT \in Pid /\ {0, 1, 2} \subseteq Pid
    BY DEF Pid
  <2>2. p_pid \in [Proc -> Pid \cup {-1}]
    BY <2>1 DEF Init
  <2>3. PidsTyped
    BY <2>1, <2>2 DEF Init, PidsTyped, Kernel
  <2>4. PidsUnique
    BY DEF Init, PidsUnique, Kernel
  <2> QED BY <2>3, <2>4
<1>2. PInv /\ [Next]_vars => PInv'
  <2> SUFFICES ASSUME PInv, [Next]_vars PROVE PInv'
    OBVIOUS
  <2>1. CASE UNCHANGED <<live, next_pid, p_pid>>
    BY <2>1 DEF PidsTyped, PidsUnique
  <2>2. CASE proc_create
    <3>1. PICK new \in Proc \ live, pid \in _proc_getid :
            /\ live' = live \cup {new}
            /\ next_pid' = IF pid = -1 THEN next_pid ELSE (pid + 1) % PROC_MAX_COUNT
            /\ p_pid' = [p_pid EXCEPT ![new] = pid]
      BY Zenon, <2>2 DEF proc_create
    <3>2. pid \in Pid /\ \A p \in live : p_pid[p] # pid
      BY PidFree
    <3>3. pid # -1 /\ (pid + 1) % PROC_MAX_COUNT \in Pid
      BY <3>2, ConstantsOK DEF Pid
    <3>4. PidsTyped'
      BY <3>1, <3>2, <3>3 DEF PidsTyped
    <3>5. p_pid'[new] = pid /\ \A p \in live : p_pid'[p] = p_pid[p]
      BY <3>1 DEF PidsTyped
    <3>6. PidsUnique'
      BY <3>1, <3>2, <3>5 DEF PidsUnique
    <3> QED BY <3>4, <3>6
  <2>3. CASE Dispose \/ DisposePast
    <3>1. PICK p : live' = live \ {p} /\ p_pid' = [p_pid EXCEPT ![p] = -1]
      BY Zenon, <2>3 DEF Dispose, DisposePast
    <3>2. next_pid' = next_pid
      BY Zenon, <2>3 DEF Dispose, DisposePast
    <3>3. PidsTyped'
      BY <3>1, <3>2 DEF PidsTyped
    <3>4. \A q \in live \ {p} : p_pid'[q] = p_pid[q]
      BY <3>1 DEF PidsTyped
    <3>5. PidsUnique'
      BY <3>1, <3>4 DEF PidsUnique
    <3> QED BY <3>3, <3>5
  <2>4. CASE ~ (proc_create \/ Dispose \/ DisposePast)
    <3>1. UNCHANGED <<live, next_pid, p_pid>>
      BY ZenonT(40), <2>4 DEF vars, Next, ProcessStep, do_exit, do_waitpid_any, do_waitpid_pid,
           GetLost, WaitSleep, SleepOnEvent, hard_shutdown, proc_kill_all,
           sched_switch, EventInterrupt, treevars
    <3> QED BY <2>1, <3>1
  <2> QED BY <2>2, <2>3, <2>4
<1> QED BY <1>1, <1>2, PTL DEF Spec

-----------------------------------------------------------------------------
(* A process that executes its own code is not one idle waits for, and init *)
(* has not exited.                                                          *)
LEMMA RunningAlive ==
    ASSUME IInv, Running(curproc)
    PROVE  /\ curproc \in live \ {Idle, Pageoutd}
           /\ cpu = "thread" /\ call[curproc] = "user" /\ wchan[curproc] = "none"
           /\ InitProc \in live /\ p_state[InitProc] # "dead"
BY ConstantsOK DEF IInv, Running, Boot, Current, InitDiesLast, Kernel

(* The initial state has one process tree, of the three kernel processes.   *)
LEMMA InitIInv == Init => IInv
<1> SUFFICES ASSUME Init PROVE IInv
  OBVIOUS
<1> USE ConstantsOK
<1>1. TypeOK
  <2>1. 3 % PROC_MAX_COUNT \in Pid
    BY DEF Pid
  <2>2. {0, 1, 2} \subseteq Pid
    BY DEF Pid
  <2>3. p_pid \in [Proc -> Pid \cup {-1}]
    BY <2>2 DEF Init
  <2>4. p_children \in [Proc -> Seq(Proc)] /\ runq \in Seq(Proc)
    BY DEF Init
  <2> QED BY <2>1, <2>3, <2>4 DEF Init, TypeOK, Kernel
<1>2. PidsUnique
  BY DEF Init, PidsUnique, Kernel
<1>3. TreeConsistent
  <2> DEFINE boys == <<InitProc, Pageoutd>>
  <2>1. Range(boys) = {InitProc, Pageoutd} /\ IsInjective(boys)
    BY DEF Range, IsInjective
  <2>2. Range(<<>>) = {} /\ IsInjective(<<>>)
    BY DEF Range, IsInjective
  <2> HIDE DEF boys
  <2>3. /\ p_children[Idle] = boys
        /\ \A p \in Proc \ {Idle} : p_children[p] = <<>>
    BY DEF Init, boys
  <2>4. \A p, q \in live : p_pproc[q] = p <=> p = Idle /\ q \in {InitProc, Pageoutd}
    BY DEF Init, Kernel
  <2>5. live = {Idle, InitProc, Pageoutd}
    BY DEF Init, Kernel
  <2> QED BY <2>1, <2>2, <2>3, <2>4, <2>5 DEF TreeConsistent, Children
<1>4. InitDiesLast /\ IdleReapsInit /\ Boot /\ Parents /\ Acyclic
  BY DEF Init, InitDiesLast, IdleReapsInit, Boot, Parents, Acyclic, Kernel
<1>5. Current /\ Waiting
  BY DEF Init, Current, Waiting, Kernel
<1> QED BY <1>1, <1>2, <1>3, <1>4, <1>5 DEF IInv

(* A step that moves threads only leaves the tree as it is.                 *)
LEMMA TreeKept ==
    ASSUME IInv, UNCHANGED treevars, UNCHANGED waitvars, TypeOK', Current'
    PROVE  IInv'
<1>1. PidsUnique' /\ TreeConsistent' /\ InitDiesLast' /\ IdleReapsInit'
  BY DEF IInv, treevars, waitvars, PidsUnique, TreeConsistent, InitDiesLast, IdleReapsInit,
         Children
<1>2. Boot' /\ Parents' /\ Acyclic' /\ Waiting'
  BY DEF IInv, treevars, waitvars, Boot, Parents, Acyclic, Waiting, Children
<1> QED BY <1>1, <1>2 DEF IInv

(* The steps that move threads only.                                        *)
LEMMA WaitSleepIInv == IInv /\ (WaitSleep \/ SleepOnEvent) => IInv'
<1> SUFFICES ASSUME IInv, WaitSleep \/ SleepOnEvent PROVE IInv'
  OBVIOUS
<1>1. TypeOK'
  BY ZenonT(40) DEF IInv, TypeOK, WaitSleep, SleepOnEvent, treevars, waitvars
<1>2. /\ cpu = "thread" /\ cpu' = "switch" /\ UNCHANGED <<live, p_state, curproc>>
      /\ \A p \in Proc \ {curproc} : kt_state'[p] = kt_state[p] /\ wchan'[p] = wchan[p]
  BY DEF IInv, TypeOK, WaitSleep, SleepOnEvent, Running, treevars
<1>3. Current'
  BY <1>2, ConstantsOK DEF IInv, Current
<1> QED BY <1>1, <1>3, TreeKept DEF WaitSleep, SleepOnEvent

(* The machine halts, or a call of the process is lost.                     *)
LEMMA StopIInv == IInv /\ (hard_shutdown \/ GetLost) => IInv'
<1> SUFFICES ASSUME IInv, hard_shutdown \/ GetLost PROVE IInv'
  OBVIOUS
<1>1. cpu' \in {"halted", "crashed"} /\ UNCHANGED <<treevars, waitvars, schedvars>>
  BY DEF hard_shutdown, GetLost
<1>2. TypeOK' /\ Current'
  BY <1>1 DEF IInv, TypeOK, Current, treevars, waitvars, schedvars
<1> QED BY <1>1, <1>2, TreeKept

(* An interrupt makes a sleeping thread runnable.                           *)
LEMMA EventInterruptIInv ==
    ASSUME IInv, NEW p \in Proc, EventInterrupt(p)
    PROVE  IInv'
<1>1. /\ UNCHANGED treevars /\ UNCHANGED waitvars /\ curproc' = curproc
      /\ wchan[p] = "event"
  BY DEF EventInterrupt
<1>2. CASE p \notin live
  <2>1. cpu' = "crashed" /\ UNCHANGED <<kt_state, wchan, runq>>
    BY <1>2 DEF EventInterrupt
  <2>2. TypeOK' /\ Current'
    BY <1>1, <2>1 DEF IInv, TypeOK, Current, treevars, waitvars
  <2> QED BY <1>1, <2>2, TreeKept
<1>3. CASE p \in live
  <2>1. /\ kt_state' = [kt_state EXCEPT ![p] = "run"]
        /\ wchan' = [wchan EXCEPT ![p] = "runq"]
        /\ runq' = Append(runq, p) /\ cpu' = cpu
    BY <1>3 DEF EventInterrupt
  <2>2. Append(runq, p) \in Seq(Proc)
    BY Zenon, AppendProperties DEF IInv, TypeOK
  <2>3. TypeOK'
    BY <1>1, <2>1, <2>2 DEF IInv, TypeOK, treevars, waitvars
  <2>4. \A q \in Proc \ {p} : kt_state'[q] = kt_state[q] /\ wchan'[q] = wchan[q]
    BY <2>1 DEF IInv, TypeOK
  <2>5. live' = live /\ p_state' = p_state /\ curproc \in Proc /\ InitProc \in Proc
    BY <1>1, ConstantsOK DEF treevars, IInv, TypeOK
  <2>6. Current'
    BY <1>1, <2>1, <2>4, <2>5 DEF IInv, Current
  <2> QED BY <1>1, <2>3, <2>6, TreeKept
<1> QED BY <1>2, <1>3

(* The next thread runs that has not exited.                                *)
LEMMA sched_switchIInv == IInv /\ sched_switch => IInv'
<1> SUFFICES ASSUME IInv, sched_switch PROVE IInv'
  OBVIOUS
<1> DEFINE alive == {i \in DOMAIN runq : kt_state[runq[i]] # "exited"}
           sound == \A i \in DOMAIN runq : runq[i] \in live
<1>1. CASE alive = {} \/ ~sound
  <2>1. cpu' = "crashed" /\ UNCHANGED <<treevars, waitvars, schedvars>>
    BY Zenon, <1>1 DEF sched_switch
  <2>2. TypeOK' /\ Current'
    BY <2>1 DEF IInv, TypeOK, Current, treevars, waitvars, schedvars
  <2> QED BY <2>1, <2>2, TreeKept
<1>2. CASE alive # {} /\ sound
  <2>1. PICK k \in FirstOf(alive) :
        /\ curproc' = runq[k]
        /\ runq' = SubSeq(runq, k + 1, Len(runq))
        /\ wchan' = [p \in Proc |-> IF \E j \in 1..k : runq[j] = p THEN "none" ELSE wchan[p]]
        /\ cpu' = "thread"
        /\ UNCHANGED <<treevars, waitvars, kt_state>>
    BY Zenon, <1>2 DEF sched_switch
  <2>2. runq \in Seq(Proc) /\ Len(runq) \in Nat /\ DOMAIN runq = 1..Len(runq)
    BY LenProperties DEF IInv, TypeOK
  <2>3. k \in 1..Len(runq) /\ kt_state[runq[k]] # "exited" /\ runq[k] \in live
    BY Zenon, <1>2, <2>2 DEF FirstOf
  <2>4. SubSeq(runq, k + 1, Len(runq)) \in Seq(Proc)
    BY <2>2, <2>3, SubSeqProperties
  <2>5. TypeOK'
    BY Zenon, <2>1, <2>3, <2>4 DEF IInv, TypeOK, treevars, waitvars
  <2>6. Current'
    <3>1. live' = live /\ p_state' = p_state /\ kt_state' = kt_state /\ InitProc \in Proc
      BY <2>1, ConstantsOK DEF treevars
    <3>2. \A p \in Proc : wchan'[p] \in {"none", wchan[p]}
      BY Zenon, <2>1
    <3>3. wchan'[curproc'] = "none"
      BY <2>1, <2>2, <2>3
    <3> QED BY Zenon, <2>1, <2>3, <3>1, <3>2, <3>3 DEF IInv, Current
  <2> QED BY <2>1, <2>5, <2>6, TreeKept
<1> QED BY <1>1, <1>2

(* A call of do_waitpid that has found the caller's children.               *)
LEMMA do_waitpidIInv ==
    ASSUME IInv, do_waitpid_any \/ \E pid \in Pid \ {0} : do_waitpid_pid(pid)
    PROVE  IInv'
<1> DEFINE c == curproc
<1>1. /\ c \in live \ {Idle, Pageoutd} /\ c \in Proc
      /\ UNCHANGED <<treevars, schedvars, cpu>>
  BY RunningAlive DEF do_waitpid_any, do_waitpid_pid, IInv, TypeOK
<1>2. /\ live' = live /\ p_children' = p_children /\ p_state' = p_state /\ p_pid' = p_pid
      /\ p_pproc' = p_pproc
  BY <1>1 DEF treevars
<1>3. /\ call' \in [Proc -> {"user", "wait_any", "wait_pid"}]
      /\ asked' \in [Proc -> Pid \cup {-1}]
      /\ target' \in [Proc -> Proc \cup {NULL}]
      /\ \A p \in Proc \ {c} : call'[p] = call[p] /\ target'[p] = target[p]
      /\ call'[c] = "wait_pid" => target'[c] \in Children(c)
  <2>1. CASE do_waitpid_any
    BY Zenon, <1>1, <2>1 DEF do_waitpid_any, IInv, TypeOK
  <2>2. CASE \E pid \in Pid \ {0} : do_waitpid_pid(pid)
    <3>1. PICK pid \in Pid \ {0} : do_waitpid_pid(pid)
      BY Zenon, <2>2
    <3>2. p_children[c] \in Seq(Proc) /\ Children(c) # {}
      BY Zenon, <1>1, <3>1 DEF do_waitpid_pid, IInv, TypeOK
    <3>3. Len(p_children[c]) \in 1..Len(p_children[c])
      BY <3>2, RangeProperties, LenProperties DEF Children
    <3>4. Found(p_children[c], pid) \in Children(c) /\ Children(c) \subseteq Proc
      BY <3>2, <3>3, RangeProperties DEF Children, Found
    <3> QED BY <1>1, <3>1, <3>4 DEF do_waitpid_pid, IInv, TypeOK
  <2> QED BY Zenon, <2>1, <2>2
<1>4. TypeOK' /\ Current'
  BY Zenon, <1>1, <1>3 DEF IInv, TypeOK, Current, treevars, schedvars
<1>5. PidsUnique' /\ TreeConsistent' /\ InitDiesLast' /\ Boot' /\ Acyclic'
  BY ZenonT(40), <1>2 DEF IInv, PidsUnique, TreeConsistent, InitDiesLast, Boot, Acyclic, Children
<1>6. IdleReapsInit' /\ Parents'
  BY Zenon, <1>1, <1>2, <1>3, ConstantsOK DEF IInv, IdleReapsInit, Parents
<1>7. Waiting'
  BY Zenon, <1>2, <1>3 DEF IInv, TypeOK, Waiting, Children
<1> QED BY Zenon, <1>4, <1>5, <1>6, <1>7 DEF IInv

(* A new process has a pid of its own and is the last child of its creator. *)
LEMMA proc_createIInv == IInv /\ proc_create => IInv'
<1> SUFFICES ASSUME IInv, proc_create PROVE IInv'
  OBVIOUS
<1> DEFINE c == curproc
<1>1. PICK new \in Proc \ live, pid \in _proc_getid :
        /\ live' = live \cup {new}
        /\ next_pid' = IF pid = -1 THEN next_pid ELSE (pid + 1) % PROC_MAX_COUNT
        /\ p_pid' = [p_pid EXCEPT ![new] = pid]
        /\ p_pproc' = [p_pproc EXCEPT ![new] = c]
        /\ p_children' = IF pid > 0 THEN [p_children EXCEPT ![c] = Append(@, new)]
                                    ELSE p_children
        /\ p_state' = [p_state EXCEPT ![new] = "running"]
        /\ kt_state' = [kt_state EXCEPT ![new] = "run"]
        /\ wchan' = [wchan EXCEPT ![new] = "runq"]
        /\ runq' = Append(runq, new)
  BY Zenon DEF proc_create
<1>2. /\ c \in live \ {Idle, Pageoutd} /\ wchan[c] = "none"
      /\ InitProc \in live /\ p_state[InitProc] # "dead" /\ cpu = "thread"
      /\ Idle \in live /\ Pageoutd \in live /\ p_pid[Idle] = 0
      /\ UNCHANGED <<p_status, adopted, waitvars, curproc, cpu>>
      /\ live \subseteq Proc /\ c # new /\ c \in Proc
  BY ZenonT(40), RunningAlive DEF proc_create, IInv, Boot, TypeOK
<1>3. pid \in Pid /\ \A p \in live : p_pid[p] # pid
  BY PidFree DEF IInv, TypeOK, PidsTyped
<1>4. pid > 0 /\ pid # -1 /\ (pid + 1) % PROC_MAX_COUNT \in Pid
  BY <1>2, <1>3, ConstantsOK DEF Pid
<1>5. /\ p_children[c] \in Seq(Proc) /\ p_children[new] = <<>> /\ call[new] = "user"
      /\ Append(p_children[c], new) \in Seq(Proc) /\ Append(runq, new) \in Seq(Proc)
  BY <1>2, AppendProperties DEF IInv, TypeOK, Parents
<1>6. /\ p_children' = [p_children EXCEPT ![c] = Append(@, new)]
      /\ p_pproc'[new] = c /\ p_pid'[new] = pid
      /\ \A p \in live : p_pproc'[p] = p_pproc[p] /\ p_pid'[p] = p_pid[p]
      /\ p_state'[InitProc] = p_state[InitProc] /\ p_state'[Pageoutd] = p_state[Pageoutd]
  BY ZenonT(40), <1>1, <1>2, <1>4 DEF IInv, TypeOK
<1>7. TypeOK'
  <2>1. live' \subseteq Proc /\ next_pid' \in Pid
    BY Zenon, <1>1, <1>2, <1>4
  <2>2. p_pid' \in [Proc -> Pid \cup {-1}] /\ p_pproc' \in [Proc -> Proc \cup {NULL}]
    BY Zenon, <1>1, <1>2, <1>3 DEF IInv, TypeOK
  <2>3. p_children' \in [Proc -> Seq(Proc)] /\ runq' \in Seq(Proc)
    BY <1>1, <1>2, <1>5, <1>6 DEF IInv, TypeOK
  <2>4. /\ p_state' \in [Proc -> {"running", "dead"}]
        /\ kt_state' \in [Proc -> {"run", "sleep", "exited"}]
        /\ wchan' \in [Proc -> {"runq", "p_wait", "event", "none"}]
    BY <1>1 DEF IInv, TypeOK
  <2> QED BY ZenonT(40), <1>2, <2>1, <2>2, <2>3, <2>4 DEF IInv, TypeOK, waitvars
<1>8. PidsUnique'
  BY <1>1, <1>3, <1>6 DEF IInv, PidsUnique
<1>9. \A p \in live : p_pproc[p] # new
  BY <1>1, ConstantsOK DEF IInv, Boot, Parents
<1>10. /\ p_children'[c] = Append(p_children[c], new)
       /\ \A p \in Proc \ {c} : p_children'[p] = p_children[p]
  BY ZenonT(40), <1>2, <1>6 DEF IInv, TypeOK
<1>11. /\ Children(c)' = Children(c) \cup {new} /\ new \notin Children(c)
       /\ IsInjective(p_children'[c])
  BY <1>2, <1>5, <1>10, AppendElements DEF IInv, TreeConsistent, Children
<1>12. TreeConsistent'
  <2> SUFFICES ASSUME NEW p \in live'
               PROVE  /\ IsInjective(p_children'[p])
                      /\ Children(p)' = {q \in live' : p_pproc'[q] = p}
    BY Zenon DEF TreeConsistent
  <2>1. CASE p = c
    BY <1>1, <1>2, <1>6, <1>11, <2>1 DEF IInv, TreeConsistent
  <2>2. CASE p = new
    <3>1. p_children'[p] = <<>>
      BY Zenon, <1>2, <1>5, <1>10, <2>2
    <3>2. Range(<<>>) = {} /\ IsInjective(<<>>)
      BY SMTT(30) DEF Range, IsInjective
    <3> QED BY SMTT(30), <1>1, <1>2, <1>6, <1>9, <2>2, <3>1, <3>2 DEF Children
  <2>3. CASE p \in live \ {c}
    BY SMTT(30), <1>1, <1>2, <1>6, <1>10, <2>3 DEF IInv, TreeConsistent, Children
  <2> QED BY Zenon, <1>1, <2>1, <2>2, <2>3
<1>13. InitDiesLast' /\ IdleReapsInit'
  BY Zenon, <1>1, <1>2, <1>6 DEF IInv, InitDiesLast, IdleReapsInit, waitvars
<1>14. Boot'
  BY Zenon, <1>1, <1>2, <1>6 DEF IInv, Boot
<1>15. Parents'
  BY <1>1, <1>2, <1>6, <1>10 DEF IInv, Parents, waitvars
<1>16. Acyclic'
  <2> SUFFICES ASSUME NEW S \in SUBSET (live' \ Kernel), S # {}
               PROVE  \E p \in S : p_pproc'[p] \notin S
    BY Zenon DEF Acyclic
  <2>1. CASE S = {new}
    BY Zenon, <1>2, <1>6, <2>1
  <2>2. CASE S # {new}
    <3>1. S \ {new} \in SUBSET (live \ Kernel) /\ S \ {new} # {}
      BY <1>1, <2>2
    <3>2. PICK p \in S \ {new} : p_pproc[p] \notin S \ {new}
      BY Zenon, <3>1 DEF IInv, Acyclic
    <3> QED BY Zenon, <1>6, <1>9, <3>1, <3>2
  <2> QED BY <2>1, <2>2
<1>17. Current'
  BY <1>1, <1>2, <1>6 DEF IInv, TypeOK, Current
<1>18. Waiting'
  BY ZenonT(40), <1>1, <1>2, <1>5, <1>10, <1>11 DEF IInv, Waiting, Children, waitvars
<1> QED BY ZenonT(40), <1>7, <1>8, <1>12, <1>13, <1>14, <1>15, <1>16, <1>17, <1>18 DEF IInv

(* The children of an exiting process, or of one that is disposed of, are   *)
(* then children of init: given to it at the end of its list.               *)
LEMMA ReparentElements ==
    ASSUME IInv, NEW q \in live \ {InitProc}, InitProc \in live,
           NEW l \in Seq(Proc), IsInjective(l), Range(l) \subseteq Children(InitProc)
    PROVE  /\ l \o p_children[q] \in Seq(Proc)
           /\ Range(l \o p_children[q]) = Range(l) \cup Children(q)
           /\ IsInjective(l \o p_children[q])
<1>1. p_children[q] \in Seq(Proc) /\ IsInjective(p_children[q])
  BY DEF IInv, TypeOK, TreeConsistent
<1>2. Range(l) \cap Children(q) = {}
  BY DEF IInv, TreeConsistent
<1> QED BY <1>1, <1>2, ConcatElements, ConcatProperties DEF Children

(* init exits last: when it has no children nobody made later has a parent. *)
LEMMA NobodyLeft ==
    ASSUME IInv, InitProc \in live, p_children[InitProc] = <<>>
    PROVE  live \subseteq Kernel
<1> DEFINE S == live \ Kernel
<1> SUFFICES ASSUME S # {} PROVE FALSE
  OBVIOUS
<1>1. PICK p \in S : p_pproc[p] \notin S
  BY ZenonT(40) DEF IInv, Acyclic
<1>2. p_pproc[p] = InitProc
  BY Zenon, <1>1 DEF IInv, Parents, Kernel
<1>3. p \in Children(InitProc)
  BY <1>2 DEF IInv, TreeConsistent
<1>4. Children(InitProc) = {}
  BY RangeProperties DEF Children, Range
<1> QED BY <1>3, <1>4

(* proc_cleanup of any process but init, which hands its children over, or  *)
(* of init when it has none.                                                *)
LEMMA do_exitIInv ==
    ASSUME IInv, NEW status \in Status, do_exit(status)
    PROVE  IInv'
<1> DEFINE c == curproc
<1>1. /\ c \in live \ {Idle, Pageoutd} /\ c \in Proc /\ wchan[c] = "none" /\ call[c] = "user"
      /\ InitProc \in live /\ p_state[InitProc] # "dead"
      /\ {Idle, InitProc, Pageoutd} \subseteq Proc
      /\ cpu' = "switch" /\ UNCHANGED <<waitvars, curproc>>
  BY Zenon, RunningAlive, ConstantsOK DEF do_exit, IInv, TypeOK
<1>2. CASE MustWait
  <2>1. /\ kt_state' = [kt_state EXCEPT ![InitProc] = "exited"]
        /\ UNCHANGED <<treevars, wchan, runq>>
    BY Zenon, <1>2 DEF do_exit
  <2>2. TypeOK'
    BY Zenon, <1>1, <2>1 DEF IInv, TypeOK, treevars, waitvars
  <2>3. Current'
    BY <1>1, <2>1 DEF IInv, Current, treevars
  <2> QED BY <1>1, <2>1, <2>2, <2>3, TreeKept
<1>3. CASE ~MustWait
  <2>1. /\ p_children' = [p_children EXCEPT ![c] = <<>>, ![InitProc] = @ \o p_children[c]]
        /\ adopted' = adopted \cup Children(c)
        /\ p_pproc' = [p \in Proc |-> IF p \in Children(c) THEN InitProc ELSE p_pproc[p]]
        /\ p_state' = [p_state EXCEPT ![c] = "dead"]
        /\ p_status' = [p_status EXCEPT ![c] = status]
        /\ UNCHANGED <<live, next_pid, p_pid>>
        /\ WakeParent(p_pproc[c])
    BY Zenon, <1>3 DEF do_exit, proc_cleanup, Reparent
  <2>2. \A p \in live : p \in Children(c) <=> p_pproc[p] = c
    BY Zenon, <1>1 DEF IInv, TreeConsistent
  <2>3. Children(c) \subseteq live
    BY <1>1 DEF IInv, TreeConsistent
  <2>4. /\ \A p \in Proc \ {c, InitProc} : p_children'[p] = p_children[p]
        /\ c = InitProc => p_children'[c] = <<>> /\ p_children[c] = <<>>
        /\ c # InitProc => /\ p_children'[c] = <<>>
                           /\ p_children'[InitProc] = p_children[InitProc] \o p_children[c]
    <3>1. CASE c = InitProc
      <4>1. p_children[c] = <<>>
        BY <1>3, <3>1 DEF MustWait
      <4>2. <<>> \o <<>> = <<>>
        OBVIOUS
      <4> QED BY Zenon, <1>1, <2>1, <3>1, <4>1, <4>2 DEF IInv, TypeOK
    <3>2. CASE c # InitProc
      BY <1>1, <2>1, <3>2 DEF IInv, TypeOK
    <3> QED BY Zenon, <3>1, <3>2
  <2>5. /\ Range(<<>>) = {} /\ IsInjective(<<>>) /\ <<>> \in Seq(Proc)
    BY DEF Range, IsInjective
  <2>6. /\ p_children[InitProc] \in Seq(Proc) /\ IsInjective(p_children[InitProc])
        /\ Range(p_children[InitProc]) = Children(InitProc)
    BY Zenon, <1>1 DEF IInv, TypeOK, TreeConsistent, Children
  <2>7. c # InitProc =>
          /\ p_children'[InitProc] \in Seq(Proc)
          /\ IsInjective(p_children'[InitProc])
          /\ Children(InitProc)' = Children(InitProc) \cup Children(c)
    BY ZenonT(40), <1>1, <2>4, <2>6, ReparentElements DEF Children
  <2>8. p_children' \in [Proc -> Seq(Proc)]
    <3>1. ASSUME NEW p \in Proc PROVE p_children'[p] \in Seq(Proc)
      <4>1. p_children[p] \in Seq(Proc)
        BY Zenon DEF IInv, TypeOK
      <4>2. CASE p \notin {c, InitProc}
        BY <2>4, <4>1, <4>2
      <4>3. CASE p = c
        BY Zenon, <2>4, <2>5, <4>3
      <4>4. CASE p = InitProc /\ c # InitProc
        BY <2>7, <4>4
      <4> QED BY <4>2, <4>3, <4>4
    <3>2. DOMAIN p_children' = Proc /\ p_children' = [p \in DOMAIN p_children' |-> p_children'[p]]
      BY Zenon, <2>1 DEF IInv, TypeOK
    <3> QED BY <3>1, <3>2
  <2>9. /\ kt_state' \in [Proc -> {"run", "sleep", "exited"}]
        /\ wchan' \in [Proc -> {"runq", "p_wait", "event", "none"}]
        /\ runq' \in Seq(Proc)
        /\ kt_state'[c] = "exited"
        /\ c = InitProc => wchan'[c] = "none"
    <3>1. p_pproc[c] \in Proc /\ (c = InitProc => p_pproc[c] = Idle)
      BY Zenon, <1>1 DEF IInv, TypeOK, Parents, Boot
    <3>2. Append(runq, p_pproc[c]) \in Seq(Proc)
      BY <3>1, AppendProperties DEF IInv, TypeOK
    <3>3. Idle # InitProc
      BY ConstantsOK
    <3>4. CASE kt_state[p_pproc[c]] = "sleep" /\ wchan[p_pproc[c]] = "p_wait"
      <4>1. /\ kt_state' = [kt_state EXCEPT ![p_pproc[c]] = "run", ![c] = "exited"]
            /\ wchan' = [wchan EXCEPT ![p_pproc[c]] = "runq"]
            /\ runq' = Append(runq, p_pproc[c])
        BY <2>1, <3>4 DEF WakeParent
      <4> QED BY Zenon, <1>1, <3>1, <3>2, <3>3, <4>1 DEF IInv, TypeOK
    <3>5. CASE ~ (kt_state[p_pproc[c]] = "sleep" /\ wchan[p_pproc[c]] = "p_wait")
      <4>1. kt_state' = [kt_state EXCEPT ![c] = "exited"] /\ UNCHANGED <<wchan, runq>>
        BY <2>1, <3>5 DEF WakeParent
      <4> QED BY Zenon, <1>1, <4>1 DEF IInv, TypeOK
    <3> QED BY Zenon, <3>4, <3>5
  <2>10. TypeOK'
    BY ZenonT(40), <1>1, <2>1, <2>3, <2>8, <2>9 DEF IInv, TypeOK, waitvars
  <2>11. PidsUnique'
    BY Zenon, <2>1 DEF IInv, PidsUnique
  <2>12. \A p \in live : p_pproc'[p] = IF p_pproc[p] = c THEN InitProc ELSE p_pproc[p]
    BY Zenon, <2>1, <2>2 DEF IInv, TypeOK
  <2>13. TreeConsistent'
    <3> SUFFICES ASSUME NEW p \in live
                 PROVE  /\ IsInjective(p_children'[p])
                        /\ Children(p)' = {q \in live : p_pproc'[q] = p}
      BY Zenon, <2>1 DEF TreeConsistent
    <3>1. /\ IsInjective(p_children[p]) /\ Range(p_children[p]) = Children(p)
          /\ Children(p) = {q \in live : p_pproc[q] = p}
          /\ Children(p)' = Range(p_children'[p]) /\ p \in Proc
      BY DEF IInv, TypeOK, TreeConsistent, Children
    <3>2. CASE p = c
      <4>1. {q \in live : p_pproc'[q] = p} = {}
        <5>1. CASE c = InitProc
          BY ZenonT(40), <2>4, <2>5, <2>12, <3>1, <3>2, <5>1
        <5>2. CASE c # InitProc
          BY Zenon, <2>12, <3>2, <5>2
        <5> QED BY Zenon, <5>1, <5>2
      <4> QED BY ZenonT(40), <2>4, <2>5, <3>1, <3>2, <4>1
    <3>3. CASE p = InitProc /\ c # InitProc
      BY Zenon, <2>2, <2>3, <2>7, <2>12, <3>1, <3>3
    <3>4. CASE p \notin {c, InitProc}
      BY Zenon, <2>4, <2>12, <3>1, <3>4
    <3> QED BY Zenon, <3>2, <3>3, <3>4
  <2>14. InitDiesLast' /\ IdleReapsInit'
    <3>1. c = InitProc => live \subseteq Kernel
      BY Zenon, <1>1, <2>4, NobodyLeft
    <3>2. c # InitProc => p_state'[InitProc] # "dead"
      BY Zenon, <1>1, <2>1 DEF IInv, TypeOK
    <3> QED BY SMTT(30), <1>1, <2>1, <3>1, <3>2 DEF IInv, InitDiesLast, IdleReapsInit, waitvars
  <2>15. Boot'
    <3>1. p_state'[Pageoutd] = p_state[Pageoutd]
      BY Zenon, <1>1, <2>1 DEF IInv, TypeOK
    <3>2. NULL # c /\ Idle # c
      BY <1>1, ConstantsOK
    <3> QED BY Zenon, <1>1, <2>1, <2>12, <3>1, <3>2 DEF IInv, Boot
  <2>16. Parents'
    <3>1. \A p \in live \ {Idle} : p_pproc'[p] \in live
      BY Zenon, <1>1, <2>12 DEF IInv, Parents
    <3>2. \A p \in live \ Kernel : p_pproc'[p] \notin {Idle, Pageoutd}
      BY Zenon, <2>12, ConstantsOK DEF IInv, Parents
    <3>3. \A p \in Proc \ live : p_children'[p] = <<>> /\ call[p] = "user"
      BY <1>1, <2>4 DEF IInv, Parents
    <3> QED BY ZenonT(40), <1>1, <2>1, <3>1, <3>2, <3>3 DEF Parents, waitvars
  <2>17. Acyclic'
    <3> SUFFICES ASSUME NEW S \in SUBSET (live \ Kernel), S # {}
                 PROVE  \E p \in S : p_pproc'[p] \notin S
      BY ZenonT(40), <2>1 DEF Acyclic
    <3>1. PICK p \in S : p_pproc[p] \notin S
      BY Zenon DEF IInv, Acyclic
    <3> QED BY SMTT(30), <2>12, <3>1 DEF Kernel
  <2>18. Current'
    <3>1. c # InitProc => p_state'[InitProc] # "dead"
      BY Zenon, <1>1, <2>1 DEF IInv, TypeOK
    <3> QED BY Zenon, <1>1, <2>1, <2>9, <3>1 DEF Current
  <2>19. Waiting'
    <3> SUFFICES ASSUME NEW p \in live, call[p] = "wait_pid"
                 PROVE  target[p] \in Children(p)'
      BY Zenon, <1>1, <2>1 DEF Waiting, waitvars
    <3>1. p # c /\ target[p] \in Children(p) /\ p \in Proc
      BY Zenon, <1>1 DEF IInv, TypeOK, Waiting
    <3> QED BY <2>4, <2>7, <3>1 DEF Children
  <2> QED BY Zenon, <2>10, <2>11, <2>13, <2>14, <2>15, <2>16, <2>17, <2>18, <2>19 DEF IInv
<1> QED BY Zenon, <1>2, <1>3

(* What do_waitpid disposes of is a dead child of the caller: init, by idle *)
(* and as the last of all, or a process made after the boot.                *)
LEMMA DisposableChild ==
    ASSUME IInv, call[curproc] # "user", NEW p \in Disposable(curproc)
    PROVE  /\ p \in live \ {Idle, Pageoutd, curproc}
           /\ p_state[p] = "dead" /\ p_pproc[p] = curproc
           /\ p = InitProc => curproc = Idle /\ p_children[p] = <<>>
           /\ p # InitProc => p \notin Kernel /\ InitProc \in live /\ curproc # Idle
<1> DEFINE c == curproc
           dead == {i \in DOMAIN p_children[c] : p_state[p_children[c][i]] = "dead"}
<1>1. c \in live /\ c \in Proc /\ p_children[c] \in Seq(Proc) /\ live \subseteq Proc
  BY DEF IInv, TypeOK, Current
<1>2. p \in Children(c) /\ p_state[p] = "dead"
  <2>1. CASE call[c] = "wait_any"
    <3>1. PICK i \in dead : p = p_children[c][i]
      BY <2>1 DEF Disposable, FirstOf
    <3> QED BY Zenon, <1>1, <3>1 DEF Children, Range
  <2>2. CASE call[c] # "wait_any"
    <3>1. call[c] = "wait_pid"
      BY Zenon, <1>1, <2>2 DEF IInv, TypeOK
    <3> QED BY Zenon, <1>1, <2>2, <3>1 DEF IInv, Waiting, Disposable
  <2> QED BY SMTT(30), <2>1, <2>2
<1>3. p \in live /\ p_pproc[p] = c
  BY Zenon, <1>1, <1>2 DEF IInv, TreeConsistent
<1>4. p # Idle /\ p # Pageoutd
  BY <1>1, <1>2, <1>3, ConstantsOK DEF IInv, Boot
<1>5. CASE p = InitProc
  <2>1. live \subseteq Kernel /\ c = Idle
    BY Zenon, <1>2, <1>3, <1>5 DEF IInv, InitDiesLast, Boot
  <2>2. Children(p) = {}
    BY <1>3, <1>5, <2>1, ConstantsOK DEF IInv, TreeConsistent, Boot, Kernel
  <2>3. p_children[p] \in Seq(Proc)
    BY Zenon, <1>1, <1>3 DEF IInv, TypeOK
  <2>4. p_children[p] = <<>>
    BY SMTT(30), <2>2, <2>3, RangeProperties DEF Children
  <2> QED BY Zenon, <1>2, <1>3, <1>4, <1>5, <2>1, <2>4, ConstantsOK
<1>6. CASE p # InitProc
  <2>1. p \notin Kernel
    BY Zenon, <1>4, <1>6 DEF Kernel
  <2>2. InitProc \in live
    BY Zenon, <1>3, <2>1 DEF IInv, InitDiesLast, Boot
  <2>3. {p} \in SUBSET (live \ Kernel) /\ {p} # {}
    BY <1>3, <2>1
  <2>4. p # c
    BY Zenon, <1>3, <2>3 DEF IInv, Acyclic
  <2>5. c # Idle
    BY <1>3, <2>1 DEF IInv, Parents
  <2> QED BY ZenonT(40), <1>2, <1>3, <1>4, <1>6, <2>1, <2>2, <2>4, <2>5
<1> QED BY Zenon, <1>5, <1>6

(* The thread of a dead child has exited, so a pass never goes past one.    *)
LEMMA NoDisposePast == IInv /\ Threads => ~DisposePast
<1> SUFFICES ASSUME IInv, Threads, DisposePast PROVE FALSE
  OBVIOUS
<1>1. PICK first \in Disposable(curproc) : Revived(first)
  BY Zenon DEF DisposePast
<1>2. call[curproc] # "user"
  BY DEF DisposePast
<1>3. first \in live /\ p_state[first] = "dead"
  BY Zenon, <1>2, DisposableChild
<1> QED BY Zenon, <1>1, <1>3 DEF Threads, Revived

(* The pass of do_waitpid that disposes of a child.                         *)
LEMMA DisposeIInv == IInv /\ Dispose => IInv'
<1> SUFFICES ASSUME IInv, Dispose PROVE IInv'
  OBVIOUS
<1> DEFINE c == curproc
<1>1. call[c] # "user" /\ cpu = "thread" /\ UNCHANGED <<next_pid, p_state, schedvars, cpu>>
  BY DEF Dispose
<1>2. PICK p \in Disposable(c) :
        /\ Reparent(p, [p_children EXCEPT ![c] = Without(@, p)])
        /\ p_pproc' = [q \in Proc |-> IF q = p THEN NULL
                                      ELSE IF q \in Children(p) THEN InitProc ELSE p_pproc[q]]
        /\ live' = live \ {p}
        /\ p_pid' = [p_pid EXCEPT ![p] = -1]
        /\ p_status' = [p_status EXCEPT ![p] = NULL]
        /\ asked' = [asked EXCEPT ![c] = -1, ![p] = -1]
        /\ target' = [target EXCEPT ![c] = NULL, ![p] = NULL]
        /\ call' = [call EXCEPT ![c] = "user", ![p] = "user"]
  BY ZenonT(40) DEF Dispose
<1>3. /\ p \in live \ {Idle, Pageoutd, c} /\ p \in Proc /\ c \in live /\ c \in Proc
      /\ live \subseteq Proc /\ p_state[p] = "dead" /\ p_pproc[p] = c
      /\ p = InitProc => c = Idle /\ p_children[p] = <<>>
      /\ p # InitProc => p \notin Kernel /\ InitProc \in live /\ c # Idle
      /\ {Idle, InitProc, Pageoutd} \subseteq Proc
      /\ Idle # InitProc /\ Idle # Pageoutd /\ InitProc # Pageoutd /\ NULL \notin Proc
  BY Zenon, <1>1, DisposableChild, ConstantsOK DEF IInv, TypeOK, Current
<1> DEFINE w == Without(p_children[c], p)
           l == IF c = InitProc THEN w ELSE p_children[InitProc]
<1>4. /\ w \in Seq(Proc) /\ IsInjective(w) /\ Range(w) = Children(c) \ {p}
  BY <1>3, WithoutElements DEF IInv, TypeOK, TreeConsistent, Children
<1>5. /\ p_children' = [[p_children EXCEPT ![c] = w] EXCEPT ![p] = <<>>,
                                                            ![InitProc] = @ \o p_children[p]]
      /\ adopted' = adopted \cup Children(p)
  BY <1>2 DEF Reparent
<1> HIDE DEF w
<1>6. /\ Range(<<>>) = {} /\ IsInjective(<<>>) /\ <<>> \in Seq(Proc) /\ <<>> \o <<>> = <<>>
  BY SMTT(30) DEF Range, IsInjective
<1>7. /\ \A q \in Proc \ {c, p, InitProc} : p_children'[q] = p_children[q]
      /\ c # InitProc => p_children'[c] = w
      /\ p_children'[p] = <<>>
      /\ p # InitProc => p_children'[InitProc] = l \o p_children[p]
  BY ZenonT(40), <1>3, <1>5, <1>6 DEF IInv, TypeOK
<1>8. p # InitProc =>
        /\ l \in Seq(Proc) /\ IsInjective(l) /\ Range(l) = Children(InitProc) \ {p}
  <2>1. CASE c = InitProc
    BY <1>4, <2>1
  <2>2. CASE c # InitProc /\ p # InitProc
    <3>1. p \notin Children(InitProc)
      BY <1>3, <2>2 DEF IInv, TreeConsistent
    <3>2. /\ p_children[InitProc] \in Seq(Proc) /\ IsInjective(p_children[InitProc])
          /\ Range(p_children[InitProc]) = Children(InitProc)
      BY Zenon, <1>3, <2>2 DEF IInv, TypeOK, TreeConsistent, Children
    <3> QED BY Zenon, <2>2, <3>1, <3>2
  <2> QED BY Zenon, <2>1, <2>2
<1> HIDE DEF l
<1>9. p # InitProc =>
        /\ p_children'[InitProc] \in Seq(Proc)
        /\ IsInjective(p_children'[InitProc])
        /\ Children(InitProc)' = (Children(InitProc) \ {p}) \cup Children(p)
  <2> HAVE p # InitProc
  <2>1. p \in live \ {InitProc} /\ InitProc \in live /\ Range(l) \subseteq Children(InitProc)
    BY <1>3, <1>8
  <2>2. l \in Seq(Proc) /\ IsInjective(l)
    BY <1>8
  <2>3. /\ l \o p_children[p] \in Seq(Proc) /\ IsInjective(l \o p_children[p])
        /\ Range(l \o p_children[p]) = Range(l) \cup Children(p)
    BY <2>1, <2>2, ReparentElements
  <2> QED BY Zenon, <1>7, <1>8, <2>3 DEF Children
<1>10. p_children' \in [Proc -> Seq(Proc)]
  <2>1. ASSUME NEW q \in Proc PROVE p_children'[q] \in Seq(Proc)
    <3>1. p_children[q] \in Seq(Proc)
      BY DEF IInv, TypeOK
    <3>2. CASE q = p
      BY Zenon, <1>6, <1>7, <3>2
    <3>3. CASE q = InitProc /\ p # InitProc
      BY Zenon, <1>9, <3>3
    <3>4. CASE q = c /\ c # InitProc
      BY Zenon, <1>4, <1>7, <3>4
    <3>5. CASE q \notin {c, p, InitProc}
      BY <1>7, <3>1, <3>5
    <3> QED BY Zenon, <3>2, <3>3, <3>4, <3>5
  <2>2. DOMAIN p_children' = Proc /\ p_children' = [q \in DOMAIN p_children' |-> p_children'[q]]
    BY Zenon, <1>5 DEF IInv, TypeOK
  <2> QED BY <2>1, <2>2
<1>11. Children(p) = {q \in live : p_pproc[q] = p} /\ (p = InitProc => Children(p) = {})
  BY <1>3, <1>6 DEF IInv, TreeConsistent, Children
<1>12. /\ p_pproc' \in [Proc -> Proc \cup {NULL}]
       /\ \A q \in live \ {p} : p_pproc'[q] = IF p_pproc[q] = p THEN InitProc ELSE p_pproc[q]
  BY Zenon, <1>2, <1>3, <1>11 DEF IInv, TypeOK
<1>13. TypeOK'
  <2>1. p_pid' \in [Proc -> Pid \cup {-1}] /\ p_status' \in [Proc -> Status \cup {NULL}]
    BY Zenon, <1>2 DEF IInv, TypeOK
  <2>2. /\ asked' \in [Proc -> Pid \cup {-1}] /\ target' \in [Proc -> Proc \cup {NULL}]
        /\ call' \in [Proc -> {"user", "wait_any", "wait_pid"}]
    BY Zenon, <1>2 DEF IInv, TypeOK
  <2>3. live' \subseteq Proc /\ adopted' \subseteq Proc
    BY Zenon, <1>2, <1>3, <1>5, <1>11 DEF IInv, TypeOK
  <2> QED BY Zenon, <1>1, <1>10, <1>12, <2>1, <2>2, <2>3 DEF IInv, TypeOK, schedvars
<1>14. \A q \in live \ {p} : p_pid'[q] = p_pid[q]
  BY Zenon, <1>2, <1>3 DEF IInv, TypeOK
<1>15. PidsUnique'
  BY SMTT(30), <1>2, <1>14 DEF IInv, PidsUnique
<1>16. TreeConsistent'
  <2> SUFFICES ASSUME NEW q \in live \ {p}
               PROVE  /\ IsInjective(p_children'[q])
                      /\ Children(q)' = {r \in live \ {p} : p_pproc'[r] = q}
    BY Zenon, <1>2 DEF TreeConsistent
  <2>1. /\ IsInjective(p_children[q]) /\ Range(p_children[q]) = Children(q)
        /\ Children(q) = {r \in live : p_pproc[r] = q}
        /\ Children(q)' = Range(p_children'[q]) /\ q \in Proc
    BY Zenon, <1>3 DEF IInv, TypeOK, TreeConsistent, Children
  <2>2. CASE q = InitProc
    <3>1. {r \in live \ {p} : p_pproc'[r] = q} = (Children(q) \ {p}) \cup Children(p)
      BY Zenon, <1>3, <1>11, <1>12, <2>1, <2>2
    <3> QED BY Zenon, <1>9, <2>2, <3>1
  <2>3. CASE q = c /\ c # InitProc
    <3>1. {r \in live \ {p} : p_pproc'[r] = q} = Children(q) \ {p}
      BY Zenon, <1>3, <1>12, <2>1, <2>3
    <3> QED BY Zenon, <1>4, <1>7, <2>1, <2>3, <3>1
  <2>4. CASE q \notin {c, InitProc}
    <3>1. p \notin Children(q)
      BY Zenon, <1>3, <2>1, <2>4
    <3>2. p_children'[q] = p_children[q]
      BY Zenon, <1>7, <2>1, <2>4
    <3> QED BY ZenonT(40), <1>12, <2>1, <2>4, <3>1, <3>2
  <2> QED BY Zenon, <2>2, <2>3, <2>4
<1>17. InitDiesLast'
  BY Zenon, <1>1, <1>2 DEF IInv, InitDiesLast
<1>18. IdleReapsInit'
  <2>1. c # Idle => call'[Idle] = call[Idle]
    BY Zenon, <1>2, <1>3 DEF IInv, TypeOK
  <2> QED BY Zenon, <1>2, <1>3, <2>1 DEF IInv, IdleReapsInit
<1>19. Boot'
  BY Zenon, <1>1, <1>2, <1>3, <1>12, <1>14 DEF IInv, Boot
<1>20. Parents'
  <2>1. \A q \in live' \ {Idle} : p_pproc'[q] \in live'
    <3> SUFFICES ASSUME NEW q \in live \ {p, Idle} PROVE p_pproc'[q] \in live \ {p}
      BY Zenon, <1>2
    <3>1. p_pproc[q] \in live /\ (p_pproc[q] = p => p # InitProc)
      BY Zenon, <1>3, <1>11 DEF IInv, Parents
    <3> QED BY Zenon, <1>3, <1>12, <3>1
  <2>2. \A q \in live' \ Kernel : p_pproc'[q] \notin {Idle, Pageoutd}
    BY ZenonT(40), <1>2, <1>3, <1>12 DEF IInv, Parents
  <2>3. \A q \in Proc \ live' : p_children'[q] = <<>> /\ call'[q] = "user"
    <3> SUFFICES ASSUME NEW q \in Proc, q \notin live \/ q = p
                 PROVE  p_children'[q] = <<>> /\ call'[q] = "user"
      BY Zenon, <1>2
    <3>1. CASE q = p
      BY Zenon, <1>2, <1>3, <1>7, <3>1 DEF IInv, TypeOK
    <3>2. CASE q \notin live /\ q # p
      <4>1. q # c /\ q # InitProc
        BY <1>3, <3>2 DEF IInv, InitDiesLast, Boot
      <4> QED BY ZenonT(40), <1>2, <1>3, <1>7, <3>2, <4>1 DEF IInv, TypeOK, Parents
    <3> QED BY Zenon, <3>1, <3>2
  <2> QED BY Zenon, <2>1, <2>2, <2>3 DEF Parents
<1>21. Acyclic'
  <2> SUFFICES ASSUME NEW S \in SUBSET (live' \ Kernel), S # {}
               PROVE  \E q \in S : p_pproc'[q] \notin S
    BY Zenon DEF Acyclic
  <2>1. S \in SUBSET (live \ Kernel) /\ p \notin S
    BY <1>2
  <2>2. PICK q \in S : p_pproc[q] \notin S
    BY Zenon, <2>1 DEF IInv, Acyclic
  <2> QED BY Zenon, <1>12, <2>1, <2>2 DEF Kernel
<1>22. Current'
  BY Zenon, <1>1, <1>2, <1>3 DEF IInv, Current, schedvars
<1>23. Waiting'
  <2> SUFFICES ASSUME NEW q \in live \ {p}, call'[q] = "wait_pid"
               PROVE  target'[q] \in Children(q)'
    BY ZenonT(40), <1>2 DEF Waiting
  <2>1. q # c /\ q \in Proc
    BY Zenon, <1>2, <1>3 DEF IInv, TypeOK
  <2>2. call'[q] = call[q] /\ target'[q] = target[q]
    BY <1>2, <1>3, <2>1 DEF IInv, TypeOK
  <2>3. target[q] \in Children(q) /\ p \notin Children(q)
    BY ZenonT(40), <1>3, <2>1, <2>2 DEF IInv, Waiting, TreeConsistent
  <2>4. Children(q) \subseteq Children(q)'
    BY Zenon, <1>7, <1>9, <2>1, <2>3 DEF Children
  <2> QED BY Zenon, <2>2, <2>3, <2>4
<1> QED BY ZenonT(40), <1>13, <1>15, <1>16, <1>17, <1>18, <1>19, <1>20, <1>21, <1>22, <1>23 DEF IInv

-----------------------------------------------------------------------------
(* The steps that change the tree.                                          *)
TreeStep == proc_create \/ (\E status \in Status : do_exit(status)) \/ Dispose

(* The children of a process other than the current one are its children    *)
(* after the step, but init may be given more at the end of its list.       *)
LEMMA OthersChildren ==
    ASSUME IInv, TreeStep, NEW c \in live', c # curproc
    PROVE  \/ p_children'[c] = p_children[c]
           \/ /\ c = InitProc
              /\ \E d \in live : /\ p_children'[c] = p_children[c] \o p_children[d]
                                 /\ Children(d) \subseteq adopted'
<1>1. CASE proc_create
  BY <1>1 DEF proc_create, IInv, TypeOK
<1>2. ASSUME NEW status \in Status, do_exit(status)
      PROVE  \/ p_children'[c] = p_children[c]
             \/ /\ c = InitProc
                /\ \E d \in live : /\ p_children'[c] = p_children[c] \o p_children[d]
                                   /\ Children(d) \subseteq adopted'
  <2>1. curproc \in live /\ curproc \in Proc /\ live' = live /\ c \in Proc
    BY Zenon, <1>2, RunningAlive DEF do_exit, treevars, IInv, TypeOK
  <2>2. CASE MustWait
    BY <1>2, <2>2 DEF do_exit, treevars
  <2>3. CASE ~MustWait
    <3>1. /\ p_children' = [p_children EXCEPT ![curproc] = <<>>,
                                             ![InitProc] = @ \o p_children[curproc]]
          /\ adopted' = adopted \cup Children(curproc)
      BY Zenon, <1>2, <2>3 DEF do_exit, proc_cleanup, Reparent
    <3>2. c = InitProc => p_children'[c] = p_children[c] \o p_children[curproc]
      BY <2>1, <3>1 DEF IInv, TypeOK
    <3>3. c # InitProc => p_children'[c] = p_children[c]
      BY Zenon, <2>1, <3>1 DEF IInv, TypeOK
    <3> QED BY Zenon, <2>1, <3>1, <3>2, <3>3
  <2> QED BY Zenon, <2>2, <2>3
<1>3. CASE Dispose
  <2>1. call[curproc] # "user"
    BY Zenon, <1>3 DEF Dispose
  <2>2. PICK d \in Disposable(curproc) :
          /\ Reparent(d, [p_children EXCEPT ![curproc] = Without(@, d)])
          /\ live' = live \ {d}
    BY Zenon, <1>3 DEF Dispose
  <2>3. d \in live /\ c # d /\ c \in Proc
    BY Zenon, <2>1, <2>2, DisposableChild DEF IInv, TypeOK
  <2> QED BY Zenon, <2>2, <2>3 DEF Reparent, IInv, TypeOK
<1> QED BY Zenon, <1>1, <1>2, <1>3 DEF TreeStep

(* A process other than the current one waits for whom it waited, and its   *)
(* children keep their pids.                                                *)
LEMMA OthersKept ==
    ASSUME IInv, TreeStep, NEW c \in live', c # curproc, call'[c] # "user"
    PROVE  /\ c \in live
           /\ call'[c] = call[c] /\ target'[c] = target[c] /\ asked'[c] = asked[c]
           /\ adopted \subseteq adopted'
           /\ \A q \in Children(c) : q \in live' /\ p_pid'[q] = p_pid[q]
<1>1. \A p \in live : Children(p) = {q \in live : p_pproc[q] = p}
  BY Zenon DEF IInv, TreeConsistent
<1>2. CASE proc_create
  <2>1. PICK new \in Proc \ live : /\ live' = live \cup {new}
                                   /\ \E pid : p_pid' = [p_pid EXCEPT ![new] = pid]
    BY Zenon, <1>2 DEF proc_create
  <2>2. call' = call /\ target' = target /\ asked' = asked /\ adopted' = adopted
    BY Zenon, <1>2 DEF proc_create, waitvars
  <2>3. c # new
    BY Zenon, <2>1, <2>2 DEF IInv, Parents
  <2>4. live \subseteq Proc /\ p_pid \in [Proc -> Pid \cup {-1}]
    BY DEF IInv, TypeOK
  <2>5. \A q \in live : p_pid'[q] = p_pid[q]
    BY <2>1, <2>4
  <2> QED BY <1>1, <2>1, <2>2, <2>3, <2>5
<1>3. ASSUME NEW status \in Status, do_exit(status)
      PROVE  /\ live' = live /\ p_pid' = p_pid /\ adopted \subseteq adopted'
             /\ call' = call /\ target' = target /\ asked' = asked
  BY Zenon, <1>3 DEF do_exit, proc_cleanup, Reparent, treevars, waitvars
<1>4. CASE Dispose
  <2>1. call[curproc] # "user"
    BY <1>4 DEF Dispose
  <2>2. PICK d \in Disposable(curproc) :
          /\ adopted \subseteq adopted'
          /\ live' = live \ {d}
          /\ p_pid' = [p_pid EXCEPT ![d] = -1]
          /\ asked' = [asked EXCEPT ![curproc] = -1, ![d] = -1]
          /\ target' = [target EXCEPT ![curproc] = NULL, ![d] = NULL]
          /\ call' = [call EXCEPT ![curproc] = "user", ![d] = "user"]
    BY Zenon, <1>4 DEF Dispose, Reparent
  <2>3. d \in live /\ c # d /\ c \in live /\ p_pproc[d] = curproc
    BY Zenon, <2>1, <2>2, DisposableChild
  <2>4. d \notin Children(c)
    BY Zenon, <1>1, <2>3
  <2>5. /\ live \subseteq Proc /\ p_pid \in [Proc -> Pid \cup {-1}]
        /\ DOMAIN asked = Proc /\ DOMAIN target = Proc /\ DOMAIN call = Proc
    BY DEF IInv, TypeOK
  <2>6. \A q \in live \ {d} : p_pid'[q] = p_pid[q]
    BY Zenon, <2>2, <2>5
  <2>7. call'[c] = call[c] /\ target'[c] = target[c] /\ asked'[c] = asked[c]
    BY <2>2, <2>3, <2>5
  <2> QED BY ZenonT(40), <1>1, <2>2, <2>3, <2>4, <2>6, <2>7
<1> QED BY Zenon, <1>1, <1>2, <1>3, <1>4 DEF TreeStep

(* The current process is not in do_waitpid after a step on the tree.       *)
LEMMA CurrentReturned ==
    ASSUME IInv, TreeStep
    PROVE  curproc \in live' => call'[curproc] = "user"
<1>1. CASE proc_create \/ (\E status \in Status : do_exit(status))
  BY Zenon, <1>1 DEF proc_create, do_exit, Running, waitvars
<1>2. CASE Dispose
  BY <1>2 DEF Dispose, IInv, TypeOK, Current
<1> QED BY Zenon, <1>1, <1>2 DEF TreeStep

(* Every step is one of these.                                              *)
LEMMA StepKinds ==
    ASSUME ~Halting, IInv, Threads, [Next]_vars
    PROVE  \/ TreeStep
           \/ do_waitpid_any
           \/ \E pid \in Pid \ {0} : do_waitpid_pid(pid)
           \/ /\ UNCHANGED treevars /\ UNCHANGED waitvars
              /\ \/ UNCHANGED schedvars /\ cpu' \in {cpu, "halted", "crashed"}
                 \/ WaitSleep \/ SleepOnEvent \/ sched_switch
                 \/ \E p \in Proc : EventInterrupt(p)
<1>1. CASE UNCHANGED vars
  BY Zenon, <1>1 DEF vars
<1>2. CASE Next
  BY Zenon, <1>2, NoDisposePast DEF Next, ProcessStep, TreeStep, WaitSleep, SleepOnEvent, sched_switch,
              EventInterrupt, hard_shutdown, GetLost, proc_kill_all
<1> QED BY <1>1, <1>2

-----------------------------------------------------------------------------
(* What an exit does to the threads: the exiting one is on no queue, and    *)
(* its parent is not asleep in do_waitpid any more.                         *)
LEMMA do_exitThreads ==
    ASSUME IInv, Threads, NEW status \in Status, do_exit(status)
    PROVE  /\ wchan[curproc] = "none" /\ wchan'[curproc] = "none"
           /\ kt_state'[curproc] = "exited" /\ cpu' = "switch" /\ live' = live
           /\ \A p \in Proc \ {curproc} :
                \/ kt_state'[p] = kt_state[p] /\ wchan'[p] = wchan[p]
                \/ /\ wchan[p] = "p_wait"
                   /\ kt_state'[p] = "run" /\ wchan'[p] = "runq"
           /\ \A p \in Proc : p_state'[p] # p_state[p] =>
                p = curproc /\ (p_pproc[p] \in Proc => wchan'[p_pproc[p]] # "p_wait")
<1>1. curproc \in Proc /\ wchan[curproc] = "none" /\ cpu' = "switch"
  BY Zenon, RunningAlive DEF do_exit, IInv, TypeOK
<1>2. CASE MustWait
  <2>1. /\ curproc = InitProc /\ live' = live /\ p_state' = p_state
        /\ kt_state' = [kt_state EXCEPT ![curproc] = "exited"] /\ wchan' = wchan
    BY <1>2 DEF do_exit, MustWait, treevars
  <2> QED BY ZenonT(40), <1>1, <2>1 DEF IInv, TypeOK
<1>3. CASE ~MustWait
  <2> DEFINE f == p_pproc[curproc]
  <2>1. /\ live' = live /\ WakeParent(f)
        /\ p_state' = [p_state EXCEPT ![curproc] = "dead"]
    BY Zenon, <1>3 DEF do_exit, proc_cleanup
  <2>2. \A p \in Proc \ {curproc} : p_state'[p] = p_state[p]
    BY Zenon, <2>1 DEF IInv, TypeOK
  <2>3. CASE kt_state[f] = "sleep" /\ wchan[f] = "p_wait"
    <3>1. /\ kt_state' = [kt_state EXCEPT ![f] = "run", ![curproc] = "exited"]
          /\ wchan' = [wchan EXCEPT ![f] = "runq"]
      BY Zenon, <2>1, <2>3 DEF WakeParent
    <3>2. f # curproc
      BY Zenon, <1>1, <2>3
    <3>3. f \in Proc => wchan'[f] = "runq"
      BY Zenon, <3>1 DEF IInv, TypeOK
    <3>4. /\ wchan'[curproc] = "none" /\ kt_state'[curproc] = "exited"
          /\ \A p \in Proc \ {curproc} :
               \/ kt_state'[p] = kt_state[p] /\ wchan'[p] = wchan[p]
               \/ /\ wchan[p] = "p_wait"
                  /\ kt_state'[p] = "run" /\ wchan'[p] = "runq"
      BY ZenonT(40), <1>1, <2>3, <3>1, <3>2 DEF IInv, TypeOK
    <3> QED BY ZenonT(40), <1>1, <2>1, <2>2, <3>3, <3>4
  <2>4. CASE ~ (kt_state[f] = "sleep" /\ wchan[f] = "p_wait")
    <3>1. kt_state' = [kt_state EXCEPT ![curproc] = "exited"] /\ wchan' = wchan
      BY Zenon, <2>1, <2>4 DEF WakeParent
    <3>2. f \in Proc => wchan[f] # "p_wait"
      BY Zenon, <2>4 DEF Threads
    <3>3. /\ kt_state'[curproc] = "exited"
          /\ \A p \in Proc \ {curproc} : kt_state'[p] = kt_state[p]
      BY <1>1, <3>1 DEF IInv, TypeOK
    <3> QED BY ZenonT(40), <1>1, <2>1, <2>2, <3>1, <3>2, <3>3
  <2> QED BY Zenon, <2>3, <2>4
<1> QED BY Zenon, <1>2, <1>3

(* The state of the threads is kept in order.                               *)
LEMMA NextThreads ==
    ASSUME ~Halting, IInv, Threads, [Next]_vars
    PROVE  Threads'
<1>1. /\ curproc \in Proc /\ live \subseteq Proc
      /\ DOMAIN kt_state = Proc /\ DOMAIN wchan = Proc /\ DOMAIN call = Proc
      /\ DOMAIN p_state = Proc
  BY Zenon DEF IInv, TypeOK
<1>2. CASE proc_create
  <2>1. PICK new \in Proc \ live :
          /\ live' = live \cup {new}
          /\ p_state' = [p_state EXCEPT ![new] = "running"]
          /\ kt_state' = [kt_state EXCEPT ![new] = "run"]
          /\ wchan' = [wchan EXCEPT ![new] = "runq"]
    BY ZenonT(40), <1>2 DEF proc_create
  <2>2. call' = call /\ curproc' = curproc /\ cpu' = cpu /\ curproc # new
    BY Zenon, <1>2 DEF proc_create, waitvars, IInv, Current
  <2> QED BY Zenon, <1>1, <2>1, <2>2 DEF Threads, QueuedThreadsAlive
<1>3. ASSUME NEW status \in Status, do_exit(status) PROVE Threads'
  <2>1. call' = call /\ curproc' = curproc
    BY <1>3 DEF do_exit, waitvars
  <2> QED BY <1>1, <1>3, <2>1, do_exitThreads DEF Threads, QueuedThreadsAlive
<1>4. CASE Dispose
  <2>1. call[curproc] # "user" /\ UNCHANGED <<p_state, kt_state, wchan, curproc, cpu>>
    BY <1>4 DEF Dispose, schedvars
  <2>2. PICK d \in Disposable(curproc) :
          /\ live' = live \ {d}
          /\ call' = [call EXCEPT ![curproc] = "user", ![d] = "user"]
    BY Zenon, <1>4 DEF Dispose
  <2>3. d \in live /\ p_state[d] = "dead" /\ wchan[curproc] = "none"
    BY Zenon, <1>4, <2>1, <2>2, DisposableChild DEF Dispose, IInv, Current
  <2>4. wchan[d] = "none"
    BY <1>1, <2>3 DEF Threads, QueuedThreadsAlive
  <2> QED BY ZenonT(40), <1>1, <2>1, <2>2, <2>3, <2>4 DEF Threads, QueuedThreadsAlive
<1>5. CASE do_waitpid_any \/ \E pid \in Pid \ {0} : do_waitpid_pid(pid)
  <2>1. /\ UNCHANGED <<live, p_state, kt_state, wchan, curproc, cpu>>
        /\ \E s \in {"wait_any", "wait_pid"} : call' = [call EXCEPT ![curproc] = s]
    BY Zenon, <1>5 DEF do_waitpid_any, do_waitpid_pid, treevars, schedvars
  <2> QED BY Zenon, <1>1, <2>1 DEF Threads, QueuedThreadsAlive
<1>7. ASSUME UNCHANGED treevars, UNCHANGED waitvars,
             UNCHANGED schedvars /\ cpu' \in {cpu, "halted", "crashed"}
      PROVE  Threads'
  BY <1>7 DEF treevars, waitvars, schedvars, Threads, QueuedThreadsAlive
<1>8. CASE WaitSleep \/ SleepOnEvent
  <2>1. /\ cpu = "thread" /\ cpu' = "switch" /\ curproc \in live
        /\ UNCHANGED <<live, p_state, call>>
        /\ kt_state' = [kt_state EXCEPT ![curproc] = "sleep"]
        /\ \/ wchan' = [wchan EXCEPT ![curproc] = "event"]
           \/ wchan' = [wchan EXCEPT ![curproc] = "p_wait"] /\ call[curproc] # "user"
    BY <1>8 DEF WaitSleep, SleepOnEvent, Running, treevars, waitvars, IInv, Current
  <2> QED BY Zenon, <1>1, <2>1 DEF Threads, QueuedThreadsAlive
<1>9. ASSUME NEW p \in Proc, EventInterrupt(p) PROVE Threads'
  <2>1. wchan[p] = "event" /\ p \in live /\ kt_state[p] # "exited"
    BY Zenon, <1>9 DEF EventInterrupt, Threads, QueuedThreadsAlive
  <2>2. /\ kt_state' = [kt_state EXCEPT ![p] = "run"]
        /\ wchan' = [wchan EXCEPT ![p] = "runq"]
        /\ UNCHANGED <<live, p_state, call, curproc, cpu>>
    BY Zenon, <1>9, <2>1 DEF EventInterrupt, treevars, waitvars
  <2> QED BY Zenon, <1>1, <2>1, <2>2 DEF Threads, QueuedThreadsAlive
<1>10. CASE sched_switch
  <2>1. /\ UNCHANGED <<live, p_state, call, kt_state>>
        /\ \/ cpu' = "crashed" /\ wchan' = wchan /\ curproc' = curproc
           \/ /\ cpu' = "thread" /\ kt_state[curproc'] # "exited"
              /\ \A p \in Proc : wchan'[p] \in {"none", wchan[p]}
    BY <1>10 DEF sched_switch, treevars, waitvars, schedvars, FirstOf
  <2> QED BY Zenon, <2>1 DEF Threads, QueuedThreadsAlive
<1> QED BY ZenonT(40), <1>2, <1>3, <1>4, <1>5, <1>7, <1>8, <1>9, <1>10, StepKinds DEF TreeStep

-----------------------------------------------------------------------------
(* Every step preserves the inductive invariant.                            *)
LEMMA NextIInv ==
    ASSUME ~Halting, IInv, Threads, [Next]_vars
    PROVE  IInv'
<1>1. CASE UNCHANGED vars
  <2>1. UNCHANGED <<treevars, waitvars, schedvars, cpu>>
    BY Zenon, <1>1 DEF vars
  <2>2. TypeOK' /\ Current'
    BY Zenon, <2>1 DEF IInv, TypeOK, Current, treevars, waitvars, schedvars
  <2> QED BY <2>1, <2>2, TreeKept
<1>2. CASE Next
  <2>1. ~proc_kill_all /\ ~DisposePast
    BY Zenon, NoDisposePast DEF proc_kill_all
  <2> QED BY ZenonT(40), <1>2, <2>1, proc_createIInv, do_exitIInv, do_waitpidIInv, StopIInv,
         DisposeIInv, WaitSleepIInv, sched_switchIInv, EventInterruptIInv DEF Next, ProcessStep
<1> QED BY <1>1, <1>2

(* Nobody has exited at first, and only pageoutd sleeps.                    *)
LEMMA InitThreads == Init => Threads
BY ConstantsOK DEF Init, Threads, QueuedThreadsAlive, Kernel

(* The invariant holds in every reachable state.                            *)
LEMMA SpecIInv ==
    ASSUME ~Halting
    PROVE  Spec => [](IInv /\ Threads)
<1>1. IInv /\ Threads /\ [Next]_vars => IInv' /\ Threads'
  BY NextIInv, NextThreads
<1> QED BY <1>1, InitIInv, InitThreads, PTL DEF Spec

(* The lists of children and the pointers to parents agree through every    *)
(* proc_create, exit and do_waitpid, as long as proc_kill_all is not        *)
(* called.                                                                  *)
THEOREM TreeIsConsistent ==
    ASSUME ~Halting
    PROVE  Spec => []TreeConsistent
<1>1. IInv => TreeConsistent
  BY DEF IInv
<1> QED BY <1>1, SpecIInv, PTL

(* init is the last process to die, as proc_cleanup takes for granted, as   *)
(* long as proc_kill_all is not called.                                     *)
THEOREM InitIsLast ==
    ASSUME ~Halting
    PROVE  Spec => []InitDiesLast
<1>1. IInv => InitDiesLast
  BY DEF IInv
<1> QED BY <1>1, SpecIInv, PTL

(* idleproc_run comes back from do_waitpid with init disposed of, as it     *)
(* asserts, as long as proc_kill_all is not called.                         *)
THEOREM IdleDisposesOfInit ==
    ASSUME ~Halting
    PROVE  Spec => []IdleReapsInit
<1>1. IInv => IdleReapsInit
  BY DEF IInv
<1> QED BY <1>1, SpecIInv, PTL

(* Only a dead child of the caller of do_waitpid leaves _proc_list, as long *)
(* as proc_kill_all is not called.                                          *)
THEOREM OnlyTheDeadLeave ==
    ASSUME ~Halting
    PROVE  Spec => OnlyDeadChildrenDisposed
<1>1. IInv /\ Threads /\ [Next]_vars =>
        [\A p \in live \ live' : p_state[p] = "dead" /\ p_pproc[p] = curproc]_vars
  <2> SUFFICES ASSUME IInv, Threads, Next, NEW p \in live \ live'
               PROVE  p_state[p] = "dead" /\ p_pproc[p] = curproc
    BY Zenon DEF vars
  <2>1. Dispose
    BY Zenon, StepKinds DEF TreeStep, proc_create, do_exit, do_waitpid_any, do_waitpid_pid,
           treevars
  <2> QED BY <2>1, DisposableChild DEF Dispose
<1> QED BY <1>1, SpecIInv, PTL DEF Spec, OnlyDeadChildrenDisposed

-----------------------------------------------------------------------------
(* The only child of a caller of do_waitpid(pid) has the pid.               *)
Asked ==
    \A c \in live :
        call[c] = "wait_pid" /\ Len(p_children[c]) = 1 => p_pid[target[c]] = asked[c]

(* Nobody waits for a pid at first.                                         *)
LEMMA InitAsked == Init => Asked
BY ConstantsOK DEF Init, Asked, Kernel

(* The only child of a caller of do_waitpid(pid) has that pid throughout.   *)
LEMMA NextAsked ==
    ASSUME ~Halting, IInv, Threads, Asked, [Next]_vars
    PROVE  Asked'
<1> SUFFICES ASSUME NEW c \in live',
                    call'[c] = "wait_pid", Len(p_children'[c]) = 1
             PROVE  p_pid'[target'[c]] = asked'[c]
  BY Zenon DEF Asked
<1>1. CASE UNCHANGED <<live, p_pid, p_children, waitvars>>
  BY Zenon, <1>1 DEF Asked, waitvars
<1>2. CASE TreeStep
  <2>1. c # curproc
    BY Zenon, <1>2, CurrentReturned
  <2>2. /\ c \in live /\ call[c] = "wait_pid"
        /\ target'[c] = target[c] /\ asked'[c] = asked[c]
        /\ \A q \in Children(c) : p_pid'[q] = p_pid[q]
    BY Zenon, <1>2, <2>1, OthersKept
  <2>3. target[c] \in Children(c)
    BY Zenon, <2>2 DEF IInv, Waiting
  <2>4. p_children[c] \in Seq(Proc) /\ \A d \in live : p_children[d] \in Seq(Proc)
    BY Zenon, <2>2 DEF IInv, TypeOK
  <2>5. Len(p_children[c]) \in Nat \ {0}
    BY <2>3, <2>4, RangeProperties, LenProperties DEF Children
  <2>6. Len(p_children[c]) = 1
    <3>1. CASE p_children'[c] = p_children[c]
      BY <3>1
    <3>2. ASSUME NEW d \in live, p_children'[c] = p_children[c] \o p_children[d]
          PROVE  Len(p_children[c]) = 1
      <4>1. p_children[d] \in Seq(Proc) /\ Len(p_children[d]) \in Nat
        BY Zenon, <2>4, LenProperties
      <4> DEFINE m == Len(p_children[c])
                 n == Len(p_children[d])
      <4>2. Len(p_children[c] \o p_children[d]) = m + n
        BY <2>4, <4>1, ConcatProperties
      <4>3. m + n = 1 /\ m \in Nat \ {0} /\ n \in Nat
        BY Zenon, <2>5, <3>2, <4>1, <4>2
      <4> HIDE DEF m, n
      <4>4. m = 1
        BY <4>3
      <4> QED BY Zenon, <4>4 DEF m
    <3> QED BY Zenon, <1>2, <2>1, <3>1, <3>2, OthersChildren
  <2> QED BY Zenon, <2>2, <2>3, <2>6 DEF Asked
<1>3. CASE do_waitpid_any
  BY Zenon, <1>3 DEF do_waitpid_any, Asked, treevars, IInv, TypeOK
<1>4. ASSUME NEW pid \in Pid \ {0}, do_waitpid_pid(pid)
      PROVE  p_pid'[target'[c]] = asked'[c]
  <2>1. c \in live /\ c \in Proc /\ p_pid' = p_pid /\ p_children' = p_children
    BY Zenon, <1>4 DEF do_waitpid_pid, treevars, IInv, TypeOK
  <2>2. CASE c # curproc
    BY <1>4, <2>1, <2>2 DEF do_waitpid_pid, Asked, IInv, TypeOK
  <2>3. CASE c = curproc
    <3>1. PICK q \in Children(c) : p_pid[q] = pid
      BY <1>4, <2>3 DEF do_waitpid_pid
    <3>2. p_children[c] \in Seq(Proc) /\ Len(p_children[c]) = 1
      BY Zenon, <2>1 DEF IInv, TypeOK
    <3>3. q = p_children[c][1]
      BY <3>1, <3>2, RangeProperties DEF Children
    <3>4. target'[c] = p_children[c][1] /\ asked'[c] = pid
      BY Zenon, <1>4, <2>1, <2>3, <3>2 DEF do_waitpid_pid, Found, IInv, TypeOK
    <3> QED BY Zenon, <2>1, <3>1, <3>3, <3>4
  <2> QED BY Zenon, <2>2, <2>3
<1>6. UNCHANGED treevars /\ UNCHANGED waitvars => UNCHANGED <<live, p_pid, p_children, waitvars>>
  BY DEF treevars
<1> QED BY ZenonT(40), <1>1, <1>2, <1>3, <1>4, <1>6, StepKinds

(* do_waitpid(pid) of a process with one child disposes of pid, for any     *)
(* number of processes, whatever happens while it waits, as long as         *)
(* proc_kill_all is not called.                                             *)
THEOREM AskedIsDisposedOf ==
    ASSUME ~Halting
    PROVE  Spec => DisposesOfAsked
<1>1. Spec => []Asked
  <2>1. IInv /\ Threads /\ Asked /\ [Next]_vars => Asked'
    BY NextAsked
  <2> QED BY <2>1, SpecIInv, InitAsked, PTL DEF Spec
<1>2. IInv /\ Threads /\ Asked /\ [Next]_vars =>
        [\A p \in live \ live' :
           call[curproc] = "wait_pid" /\ Len(p_children[curproc]) = 1
             => p_pid[p] = asked[curproc]]_vars
  <2> SUFFICES ASSUME IInv, Threads, Asked, [Next]_vars, NEW p \in live \ live',
                      call[curproc] = "wait_pid", Len(p_children[curproc]) = 1
               PROVE  p_pid[p] = asked[curproc]
    BY Zenon DEF vars
  <2>1. CASE Dispose
    <3>1. p = target[curproc]
      BY <2>1 DEF Dispose, Disposable
    <3>2. curproc \in live
      BY ZenonT(40) DEF IInv, Current
    <3> QED BY Zenon, <3>1, <3>2 DEF Asked
  <2>2. CASE ~Dispose
    BY Zenon, <2>2, StepKinds DEF TreeStep, proc_create, do_exit, do_waitpid_any, do_waitpid_pid,
                           treevars
  <2> QED BY Zenon, <2>1, <2>2
<1> QED BY <1>1, <1>2, SpecIInv, PTL DEF Spec, DisposesOfAsked

-----------------------------------------------------------------------------
(* Wakeups.                                                                 *)

(* A dead child that a sleeper waits for was given to init.                 *)
Woken ==
    \A p \in live : wchan[p] = "p_wait" =>
        \A q \in Children(p) :
            p_state[q] = "dead" /\ (call[p] = "wait_any" \/ q = target[p])
              => p = InitProc /\ q \in adopted

WInv == Threads /\ Woken

(* Nobody has died at first.                                                *)
LEMMA InitWInv == Init => WInv
<1> SUFFICES ASSUME Init PROVE WInv
  OBVIOUS
<1>1. Threads
  BY InitThreads
<1>2. Woken
  BY Zenon, ConstantsOK DEF Init, Woken, Kernel
<1> QED BY <1>1, <1>2 DEF WInv

(* The first dead child.                                                    *)
LOCAL INSTANCE WellFoundedInduction

(* A set of positions has a first one.                                      *)
LEMMA FirstExists ==
    ASSUME NEW T, T \subseteq Nat, T # {}
    PROVE  FirstOf(T) # {}
<1> DEFINE R == OpToRel(<, Nat)
<1>1. IsWellFoundedOn(R, Nat)
  BY NatLessThanWellFounded
<1>2. \A x, y \in Nat : y < x => <<y, x>> \in R
  BY DEF OpToRel
<1> HIDE DEF R
<1>3. PICK x \in T : \A y \in T : ~ (<<y, x>> \in R)
  BY Zenon, <1>1, WFMin
<1>4. ASSUME NEW y \in T PROVE x =< y
  <2>1. x \in Nat /\ y \in Nat /\ ~ (y < x)
    BY Zenon, <1>2, <1>3
  <2> QED BY <2>1
<1> QED BY <1>3, <1>4 DEF FirstOf

(* Who goes to sleep has no dead child to dispose of.                       *)
LEMMA NothingDisposable ==
    ASSUME IInv, NEW p \in live, Disposable(p) = {}, NEW q \in Children(p),
           call[p] = "wait_any" \/ q = target[p]
    PROVE  p_state[q] # "dead"
<1>1. CASE call[p] = "wait_any"
  <2> DEFINE dead == {i \in DOMAIN p_children[p] : p_state[p_children[p][i]] = "dead"}
  <2>1. FirstOf(dead) = {}
    BY Zenon, <1>1 DEF Disposable
  <2>2. p_children[p] \in Seq(Proc)
    BY Zenon DEF IInv, TypeOK
  <2>3. dead \subseteq Nat
    BY <2>2, LenProperties
  <2>4. dead = {}
    <3> HIDE DEF dead
    <3> QED BY ZenonT(40), <2>1, <2>3, FirstExists
  <2> QED BY <2>4 DEF Children, Range
<1>2. CASE call[p] # "wait_any"
  BY Zenon, <1>2 DEF Disposable
<1> QED BY Zenon, <1>1, <1>2

(* No step puts a sleeper to bed with a dead child, and none makes a child  *)
(* of a sleeper die unnoticed.                                              *)
LEMMA NextWoken ==
    ASSUME ~Halting, IInv, Threads, Threads', Woken, [Next]_vars
    PROVE  Woken'
<1> SUFFICES ASSUME NEW p \in live', wchan'[p] = "p_wait", NEW q \in Children(p)',
                    p_state'[q] = "dead", call'[p] = "wait_any" \/ q = target'[p]
             PROVE  p = InitProc /\ q \in adopted'
  BY Zenon DEF Woken
<1>1. /\ curproc \in Proc /\ live \subseteq Proc /\ live' \subseteq Proc
      /\ DOMAIN kt_state = Proc /\ DOMAIN wchan = Proc /\ DOMAIN p_state = Proc
  <2>1. IInv'
    BY Zenon, NextIInv
  <2> QED BY Zenon, <2>1 DEF IInv, TypeOK
<1>2. ASSUME p \in live, wchan[p] = "p_wait", q \in Children(p), p_state[q] = "dead",
             call'[p] = call[p], target'[p] = target[p], adopted \subseteq adopted'
      PROVE  p = InitProc /\ q \in adopted'
  BY <1>2 DEF Woken
<1>3. CASE TreeStep
  <2>1. wchan[p] = "p_wait" /\ p # curproc
    <3>1. CASE proc_create
      <4>1. PICK new \in Proc \ live : wchan' = [wchan EXCEPT ![new] = "runq"]
        BY ZenonT(40), <3>1 DEF proc_create
      <4>2. wchan[curproc] = "none"
        BY <3>1, RunningAlive DEF proc_create
      <4> QED BY Zenon, <1>1, <4>1, <4>2
    <3>2. ASSUME NEW status \in Status, do_exit(status)
          PROVE  wchan[p] = "p_wait" /\ p # curproc
      BY ZenonT(40), <1>1, <3>2, do_exitThreads
    <3>3. CASE Dispose
      BY Zenon, <3>3 DEF Dispose, schedvars, IInv, Current
    <3> QED BY Zenon, <1>3, <3>1, <3>2, <3>3 DEF TreeStep
  <2>2. call'[p] # "user"
    BY Zenon, <1>1 DEF Threads
  <2>3. /\ p \in live /\ call'[p] = call[p] /\ target'[p] = target[p]
        /\ adopted \subseteq adopted'
    BY ZenonT(40), <1>3, <2>1, <2>2, OthersKept
  <2>4. CASE q \in Children(p)
    <3>1. q \in live /\ p_pproc[q] = p
      BY Zenon, <2>3, <2>4 DEF IInv, TreeConsistent
    <3>2. p_state[q] = "dead"
      <4>1. CASE proc_create
        <5>1. PICK new \in Proc \ live : p_state' = [p_state EXCEPT ![new] = "running"]
          BY ZenonT(40), <4>1 DEF proc_create
        <5> QED BY Zenon, <1>1, <3>1, <5>1
      <4>2. ASSUME NEW status \in Status, do_exit(status) PROVE p_state[q] = "dead"
        BY <1>1, <2>3, <3>1, <4>2, do_exitThreads
      <4>3. CASE Dispose
        BY Zenon, <4>3 DEF Dispose
      <4> QED BY <1>3, <4>1, <4>2, <4>3 DEF TreeStep
    <3> QED BY Zenon, <1>2, <2>1, <2>3, <2>4, <3>2
  <2>5. CASE q \notin Children(p)
    <3>1. PICK d \in live : /\ p = InitProc
                            /\ p_children'[p] = p_children[p] \o p_children[d]
                            /\ Children(d) \subseteq adopted'
      BY ZenonT(40), <1>3, <2>1, <2>5, OthersChildren DEF Children
    <3>2. p_children[p] \in Seq(Proc) /\ p_children[d] \in Seq(Proc)
      BY Zenon, <1>1, <2>3 DEF IInv, TypeOK
    <3>3. Range(p_children'[p]) = Range(p_children[p]) \cup Range(p_children[d])
      BY <3>1, <3>2, ConcatElements
    <3>4. q \in Children(d)
      BY Zenon, <2>5, <3>3 DEF Children
    <3> QED BY Zenon, <3>1, <3>4
  <2> QED BY Zenon, <2>4, <2>5
<1>4. CASE do_waitpid_any \/ \E pid \in Pid \ {0} : do_waitpid_pid(pid)
  <2>1. /\ UNCHANGED <<live, p_state, p_children, adopted, wchan>>
        /\ wchan[curproc] = "none"
    BY <1>4, RunningAlive DEF do_waitpid_any, do_waitpid_pid, treevars, schedvars
  <2>2. p # curproc
    BY Zenon, <2>1
  <2>3. call'[p] = call[p] /\ target'[p] = target[p]
    BY ZenonT(40), <1>1, <1>4, <2>2 DEF do_waitpid_any, do_waitpid_pid, IInv, TypeOK
  <2> QED BY ZenonT(40), <1>2, <2>1, <2>3 DEF Children
<1>6. CASE UNCHANGED treevars /\ UNCHANGED waitvars /\ wchan[p] = "p_wait"
  BY Zenon, <1>2, <1>6 DEF treevars, waitvars, Children
<1>7. ASSUME UNCHANGED treevars, UNCHANGED waitvars,
             \/ UNCHANGED schedvars
             \/ WaitSleep \/ SleepOnEvent \/ sched_switch
             \/ \E r \in Proc : EventInterrupt(r)
      PROVE  p = InitProc /\ q \in adopted'
  <2>1. CASE WaitSleep /\ p = curproc
    <3>1. Disposable(p) = {} /\ live' = live /\ p_children' = p_children
          /\ p_state' = p_state /\ call' = call /\ target' = target
      BY Zenon, <1>7, <2>1 DEF WaitSleep, treevars, waitvars
    <3> QED BY Zenon, <3>1, NothingDisposable DEF Children
  <2>2. CASE ~ (WaitSleep /\ p = curproc)
    <3>1. CASE UNCHANGED schedvars
      BY ZenonT(40), <1>6, <1>7, <3>1 DEF schedvars
    <3>2. CASE WaitSleep
      BY ZenonT(40), <1>1, <1>6, <1>7, <2>2, <3>2 DEF WaitSleep
    <3>3. CASE SleepOnEvent
      BY Zenon, <1>1, <1>6, <1>7, <3>3 DEF SleepOnEvent
    <3>4. CASE sched_switch
      <4>1. wchan'[p] \in {"none", wchan[p]}
        BY ZenonT(40), <1>1, <3>4 DEF sched_switch, schedvars
      <4> QED BY Zenon, <1>6, <1>7, <4>1
    <3>5. ASSUME NEW r \in Proc, EventInterrupt(r) PROVE wchan[p] = "p_wait"
      BY <1>1, <3>5 DEF EventInterrupt
    <3> QED BY ZenonT(40), <1>6, <1>7, <3>1, <3>2, <3>3, <3>4, <3>5
  <2> QED BY Zenon, <2>1, <2>2
<1> QED BY Zenon, <1>3, <1>4, <1>7, StepKinds

(* The wakeups are in order in every reachable state without proc_kill_all. *)
LEMMA SpecWInv ==
    ASSUME ~Halting
    PROVE  Spec => []WInv
<1>1. IInv /\ IInv' /\ WInv /\ [Next]_vars => WInv'
  BY NextThreads, NextWoken DEF WInv
<1> QED BY <1>1, InitWInv, SpecIInv, PTL DEF Spec

(* As long as proc_kill_all is not called, no queue holds a thread that has *)
(* exited.                                                                  *)
THEOREM QueuedThreadsAreAlive ==
    ASSUME ~Halting
    PROVE  Spec => []QueuedThreadsAlive
<1>1. WInv => QueuedThreadsAlive
  BY DEF WInv, Threads
<1> QED BY <1>1, SpecWInv, PTL

(* As long as proc_kill_all is not called, a process asleep in do_waitpid   *)
(* has nothing to dispose of, but for init and what it was given.           *)
THEOREM WakeupsAreNotMissed ==
    ASSUME ~Halting
    PROVE  Spec => []NoWakeupMissed
<1>1. IInv /\ WInv => NoWakeupMissed
  <2> SUFFICES ASSUME IInv, WInv, NEW p \in live, wchan[p] = "p_wait",
                      NEW q \in Disposable(p)
               PROVE  p = InitProc /\ q \in adopted
    BY Zenon DEF NoWakeupMissed
  <2>1. p \in Proc /\ call[p] \in {"wait_any", "wait_pid"}
    BY DEF IInv, TypeOK, WInv, Threads
  <2>2. q \in Children(p) /\ p_state[q] = "dead" /\ (call[p] = "wait_any" \/ q = target[p])
    <3>1. CASE call[p] = "wait_any"
      BY <3>1 DEF Disposable, FirstOf, Children, Range
    <3>2. CASE call[p] = "wait_pid"
      BY <3>2 DEF Disposable, IInv, Waiting
    <3> QED BY Zenon, <2>1, <3>1, <3>2
  <2> QED BY Zenon, <2>2 DEF WInv, Woken
<1> QED BY <1>1, SpecIInv, SpecWInv, PTL
=============================================================================
