------------------------------ MODULE Syscalls ------------------------------
(* The system-call layer of kernel/api: syscall_handler, syscall_dispatch,  *)
(* the sys_* functions of syscall.c and the copying functions of access.c.  *)
(* A call is the list of the steps its function takes; each step that can   *)
(* fail either does or does not.  What the model keeps is the kernel memory *)
(* the call holds, kt_errno, and the cancellation of the thread: a thread   *)
(* that is cancelled while it is off the processor is made to exit by the   *)
(* sched_switch that would have run it, and takes no further step.          *)
(* range_perm, sys_read, sys_write and sys_getdents are stubs that answer   *)
(* no and -1; RangePerm gives the answers range_perm may give, FALSE alone  *)
(* for the stub.                                                            *)
EXTENDS Integers, Sequences, FiniteSets

CONSTANTS
    RangePerm,      \* answers of range_perm
    ArgLen          \* strings in an argument vector

VARIABLE th         \* the thread

vars == <<th>>

-----------------------------------------------------------------------------
(* The steps.  A step that fails sets kt_errno, to errno unless the step    *)
(* sets it itself ("own"), frees what undo names and ends the call with -1. *)
Step(op, buf, undo, errno) == [op |-> op, buf |-> buf, undo |-> undo, errno |-> errno]

CopyIn(errno)        == <<Step("copy", "none", {}, errno)>>
CopyOut(undo, errno) == <<Step("copy", "none", undo, errno)>>
Strdup(b, undo)      == <<Step("strdup", b, undo, "EINVAL")>>
Do                   == <<Step("do", "none", {}, "own")>>
Free(b)              == <<Step("free", b, {}, "none")>>
Answer               == <<Step("answer", "none", {}, "own")>>

(* Calls with plain arguments, with an argument structure, with a path and  *)
(* with two paths.                                                          *)
Direct    == Do \o Answer
WithArgs  == CopyIn("EFAULT") \o Do \o Answer
WithPath  == CopyIn("EFAULT") \o Strdup("path", {}) \o Do \o Free("path") \o Answer

sys_close == Direct
sys_dup   == Direct
sys_fork  == Direct
sys_brk   == Direct
sys_dup2  == WithArgs
sys_lseek == WithArgs
sys_mmap  == WithArgs
sys_munmap == WithArgs
sys_mkdir == WithPath
sys_rmdir == WithPath
sys_unlink == WithPath
sys_chdir == WithPath
sys_open  == WithPath

LinkLeaks ==
    CopyIn("EFAULT") \o Strdup("to", {}) \o Strdup("from", {}) \o Do
      \o Free("to") \o Free("from") \o Answer

sys_link ==
    CopyIn("EFAULT") \o Strdup("to", {}) \o Strdup("from", {"to"}) \o Do
      \o Free("to") \o Free("from") \o Answer

sys_rename ==
    CopyIn("EFAULT") \o Strdup("oldname", {}) \o Strdup("newname", {"oldname"}) \o Do
      \o Free("newname") \o Free("oldname") \o Answer

(* The child is gone when its status cannot be copied out.                  *)
sys_waitpid == CopyIn("EFAULT") \o Do \o Answer \o CopyOut({}, "EFAULT")

(* Where do_stat fails the copy is not tried; both failures free the path.  *)
sys_stat ==
    CopyIn("EFAULT") \o Strdup("path", {}) \o <<Step("dostat", "none", {"path"}, "own")>>
      \o CopyOut({"path"}, "EFAULT") \o Free("path")

sys_uname == [i \in 1..5 |-> CopyOut({}, "EFAULT")[1]]

(* user_strdup may have failed, and left NULL in message.                   *)
sys_debug == CopyIn("EFAULT") \o <<Step("strdup?", "message", {}, "own")>> \o Free("message")

sys_kshell ==
    <<Step("kshell", "ksh", {}, "ENODEV"), Step("rounds", "none", {}, "own")>>
      \o Free("ksh") \o Answer

(* Every failure goes to the label cleanup, which frees the name and the    *)
(* vectors there are.                                                       *)
sys_execve ==
    CopyIn("EFAULT") \o <<Step("strdup", "filename", {}, "own")>>
      \o <<Step("vecdup", "argv", {"filename"}, "own"),
           Step("vecdup", "envp", {"filename", "argv"}, "own")>>
      \o Do \o Free("filename") \o <<Step("freevec", "argv", {}, "none"),
                                      Step("freevec", "envp", {}, "none")>> \o Answer

One(op) == <<Step(op, "none", {}, "none")>>

syscall_dispatch == [
    waitpid |-> sys_waitpid, exit |-> One("exit"), thr_exit |-> One("exit"),
    thr_yield |-> One("switch"), fork |-> sys_fork, getpid |-> <<>>, sync |-> One("switch"),
    mmap |-> sys_mmap, munmap |-> sys_munmap,
    open |-> sys_open, close |-> sys_close, read |-> One("stub"), write |-> One("stub"),
    dup |-> sys_dup, dup2 |-> sys_dup2, mkdir |-> sys_mkdir, rmdir |-> sys_rmdir,
    unlink |-> sys_unlink, link |-> sys_link, rename |-> sys_rename, chdir |-> sys_chdir,
    getdents |-> One("stub"), brk |-> sys_brk, lseek |-> sys_lseek, halt |-> One("halt"),
    execve |-> sys_execve, stat |-> sys_stat, uname |-> sys_uname, debug |-> sys_debug,
    kshell |-> sys_kshell, set_errno |-> One("set_errno"), errno |-> <<>>,
    unknown |-> One("unknown") ]

-----------------------------------------------------------------------------
(* The buffers of a vector: the vector itself and its strings.              *)
Vector(b) == {<<b, i>> : i \in 0..ArgLen}
Bufs(names) == UNION {Vector(b) : b \in names}

Holding(b) == <<b, 0>> \in th.bufs

(* The steps a call goes on with, and the errors they leave.                *)
Go(s) == th' = [s EXCEPT !.todo = Tail(@)]

Return(s, val) == [s EXCEPT !.phase = "leaving", !.todo = <<>>, !.ret = val]

Fail(s, errno) ==
    th' = Return([s EXCEPT !.kt_errno = errno, !.bufs = @ \ Bufs(s.todo[1].undo)], -1)

Crash(s) == th' = [s EXCEPT !.phase = "crashed"]

At(op) == th.phase = "kernel" /\ th.todo # <<>> /\ th.todo[1].op = op

Own(own) == IF th.todo[1].errno = "own" THEN own ELSE th.todo[1].errno

copy_user ==
    /\ At("copy")
    /\ \E ok \in RangePerm : IF ok THEN Go(th) ELSE Fail(th, Own("EFAULT"))

(* kmalloc may fail, and the string may not be readable.                    *)
user_strdup ==
    /\ At("strdup")
    /\ \/ Fail(th, Own("ENOMEM"))
       \/ \E ok \in RangePerm :
             IF ok THEN Go([th EXCEPT !.bufs = @ \cup {<<th.todo[1].buf, 0>>}])
                   ELSE Fail(th, Own("EFAULT"))

(* In sys_debug, which frees the message whether there is one or not.       *)
debug_strdup ==
    /\ At("strdup?")
    /\ \/ Go([th EXCEPT !.kt_errno = "ENOMEM"])
       \/ \E ok \in RangePerm :
             IF ok THEN Go([th EXCEPT !.bufs = @ \cup {<<th.todo[1].buf, 0>>}])
                   ELSE Go([th EXCEPT !.kt_errno = "EFAULT"])

(* A vector pointer of NULL is skipped.  Without memory for the array of    *)
(* argument structures kfree is called with NULL; where that array cannot   *)
(* be copied, the entries of the new vector, filled with the allocator's    *)
(* poison, are freed.  Where a string fails its entry is NULL and the ones  *)
(* before it are freed.                                                     *)
user_vecdup ==
    /\ At("vecdup")
    /\ \/ Go(th)
       \/ Crash(th)
       \/ Fail(th, "ENOMEM")
       \/ \E ok \in RangePerm :
             IF ~ok THEN Crash(th)
             ELSE \E n \in 0..ArgLen :
                    IF n = ArgLen THEN Go([th EXCEPT !.bufs = @ \cup Vector(th.todo[1].buf)])
                    ELSE \/ Fail(th, "ENOMEM")
                         \/ FALSE \in RangePerm /\ Fail(th, "EFAULT")

(* kfree of what is not allocated ends in a fault.                          *)
kfree ==
    /\ At("free")
    /\ IF Holding(th.todo[1].buf) THEN Go([th EXCEPT !.bufs = @ \ {<<th.todo[1].buf, 0>>}])
                                  ELSE Crash(th)

free_vector ==
    /\ At("freevec")
    /\ Go([th EXCEPT !.bufs = @ \ Vector(th.todo[1].buf)])

(* The thread was asleep or on the run queue when another one cancelled it: *)
(* sched_switch takes it off the run queue and calls do_exit in its place,  *)
(* so the rest of its call is never run.                                    *)
Cancelled(s) == th' = [s EXCEPT !.kt_cancelled = TRUE, !.phase = "cancelled"]

(* The do_* function runs, and may block.                                   *)
DoCall ==
    /\ At("do")
    /\ \/ \E err \in {"ok", "error"} : Go([th EXCEPT !.err = err])
       \/ Cancelled(th)

DoStat == At("dostat") /\ (Go(th) \/ Fail(th, "error") \/ Cancelled(th))

(* The tests of err at the end; waitpid goes on to copy the status out,     *)
(* unless the pointer for it is NULL.                                       *)
TestErr ==
    /\ At("answer")
    /\ IF th.err # "ok" THEN Fail(th, th.err)
       ELSE \/ th.call = "waitpid" /\ th' = Return(th, 0)
            \/ Go([th EXCEPT !.kt_errno = IF th.call = "execve" THEN "ok" ELSE @])

SetErrno == At("set_errno") /\ \E n \in {"ok", "error"} : Go([th EXCEPT !.kt_errno = n])

(* thr_yield gives up the processor; sync may have to wait for a page.      *)
Switch == At("switch") /\ (Go(th) \/ Cancelled(th))

KshellCreate ==
    /\ At("kshell")
    /\ \/ Fail(th, "ENODEV")
       \/ Go([th EXCEPT !.bufs = @ \cup {<<"ksh", 0>>}])

(* kshell_execute_next until it returns zero or an error.                   *)
KshellRound ==
    /\ At("rounds")
    /\ \/ UNCHANGED th
       \/ \E err \in {"ok", "error"} : Go([th EXCEPT !.err = err])
       \/ Cancelled(th)

Stub    == At("stub") /\ th' = Return(th, -1)
Unknown == At("unknown") /\ Fail(th, "ENOSYS")
Exits   == At("exit") /\ th' = [th EXCEPT !.phase = "exited"]

(* proc_kill_all switches to the thread of init and never comes back, but   *)
(* for a call by init itself, which returns -1 and leaves kt_errno alone.   *)
Halt == At("halt") /\ (th' = [th EXCEPT !.phase = "exited"] \/ th' = Return(th, -1))

AtEnd == th.phase = "kernel" /\ th.todo = <<>> /\ th' = Return(th, 0)

-----------------------------------------------------------------------------
(* syscall_handler.  Its two tests of kt_cancelled find nothing: a thread   *)
(* that runs is not cancelled (RunningNotCancelled of module Sched).        *)
Trap ==
    /\ th.phase = "user"
    /\ IF th.kt_cancelled THEN th' = [th EXCEPT !.phase = "exited"]
       ELSE \E c \in DOMAIN syscall_dispatch :
              th' = [th EXCEPT !.phase = "kernel", !.call = c, !.err = "ok",
                               !.todo = syscall_dispatch[c]]

Leave ==
    /\ th.phase = "leaving"
    /\ th' = [th EXCEPT !.phase = IF th.kt_cancelled THEN "exited" ELSE "user"]

Init ==
    th = [phase |-> "user", call |-> "none", todo |-> <<>>, bufs |-> {}, err |-> "ok",
          kt_errno |-> "ok", ret |-> 0, kt_cancelled |-> FALSE]

Next ==
    \/ Trap \/ copy_user \/ user_strdup \/ debug_strdup \/ user_vecdup \/ kfree \/ free_vector
    \/ DoCall \/ DoStat \/ TestErr \/ Switch \/ KshellCreate \/ KshellRound \/ Stub \/ Unknown
    \/ Exits \/ Halt \/ AtEnd \/ SetErrno \/ Leave

Spec == Init /\ [][Next]_vars

-----------------------------------------------------------------------------
(* A call that returns, by its answer or by any of its errors, and a call   *)
(* that ends the thread have freed the strings, vectors and shell they      *)
(* allocated.  A call whose thread is cancelled has not: it keeps what it   *)
(* held where it blocked.                                                   *)
NothingKept == th.phase \in {"leaving", "user", "exited"} => th.bufs = {}

(* A call that answers -1 has left a reason in kt_errno, but for the stubs  *)
(* and for halt by init; execve leaves none of an earlier call when it      *)
(* succeeds.                                                                *)
ErrorsExplained ==
    th.phase = "leaving" =>
        /\ th.ret = -1 /\ th.call \notin {"read", "write", "getdents", "halt"} => th.kt_errno # "ok"
        /\ th.ret = 0 /\ th.call = "execve" => th.kt_errno = "ok"

(* Only the two calls that free memory they may not have can crash: debug   *)
(* without its message and execve with a vector it could not copy.          *)
BadFrees == th.phase = "crashed" => th.call \in {"debug", "execve"}

=============================================================================
