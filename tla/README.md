# Weenix: TLA+ models, checks and proofs

Weenix is a teaching operating system for the 32-bit PC. Its kernel
(`src/Weenix/weenix/kernel`) runs on one processor, schedules kernel threads
without preemption, and lets interrupt handlers run between any two
instructions that are not masked. The configuration kept in the repository
(`Config.mk`) has `DRIVERS=1 VFS=1 S5FS=0 VM=0` and one thread per process
(`MTP=0`); the models follow that configuration.

Two remarks on what is modelled. The `Makefile` of the kernel links libraries
built elsewhere for `drivers/`, `mm/` and `s5fs/`, which are not in the
repository; the models of these parts follow the sources that are. With `VM=0`
the kernel cannot start user programs; the shell, the editor, the C library and
the dynamic linker are complete programs nevertheless, and are modelled by
themselves, over what they use of the system calls. Functions whose body is
`NOT_YET_IMPLEMENTED` only print that and return.

Paths below are relative to `src/Weenix/weenix/kernel`, those of section 2.3 to
`src/Weenix/weenix/user`.

## 1. The system: parts, state, interactions

| part | source | state | operations | talks to |
|---|---|---|---|---|
| wait queues, scheduler | `proc/sched.c` | `kt_runq`, `ktqueue_t` lists and sizes, `curthr`, IPL | sleep, cancellable sleep, wakeup, broadcast, cancel, make_runnable, switch | everything that blocks |
| mutexes | `proc/kmutex.c` | `km_holder`, `km_waitq` | lock, cancellable lock, unlock | scheduler |
| threads | `proc/kthread.c`, `proc/context.c` | `kt_state`, `kt_wchan`, `kt_cancelled`, contexts and stacks | create, cancel, exit, destroy, context_switch | scheduler, processes |
| processes | `proc/proc.c` | `_proc_list`, the tree, pids, states, `p_wait` | create, exit/cleanup, waitpid, kill, kill_all | threads, VFS (files, cwd) |
| boot and shutdown | `main/kmain.c` | idle and init process | bootstrap, idleproc_run, initproc_run, hard_shutdown | all |
| interrupts | `main/interrupt.c`, `main/apic.c`, `include/main/interrupt.h` | IPL, handler table | masking, delivery, intr_wait | scheduler |
| files, descriptors | `fs/file.c`, `fs/open.c`, `fs/vfs_syscall.c` | `p_files`, `f_refcount`, `f_pos`, `f_mode` | open, close, dup, dup2, read, write, lseek, getdent | vnodes |
| vnodes | `fs/vnode.c`, `fs/vfs.c` | `vnode_inuse_list`, `vn_refcount`, `vn_nrespages`, `VN_BUSY` | vget, vref, vput, flush, in-use test | file systems, page frames, scheduler |
| path names | `fs/namev.c` | none | lookup, dir_namev, open_namev | vnodes, file system |
| ramfs | `fs/ramfs/ramfs.c` | inodes, entries, link counts | the vnode operations | vnodes, page allocator |
| page allocator | `mm/page.c` | free lists by order, bitmaps | split, alloc, join, free | slab, pframes |
| slab allocator | `mm/slab.c` | slabs, free lists | alloc, free, grow, reclaim, kmalloc | page allocator |
| terminals | `drivers/tty/*` | ring of rows, cursor, screen | write, scroll, switch | interrupts |
| system calls | `api/syscall.c`, `api/access.c` | the trap's arguments, `kt_errno`, kernel copies | dispatch, copy in, copy out | all |
| program loading | `api/binfmt.c`, `api/elf32.c` | loaders, new address space, buffers | try loaders, map, lay out arguments, switch | files, virtual memory |
| initialisation | `util/init.c` | functions and their dependencies | init_call_all | boot |
| libraries | `util/*`, `user/lib/libc/*` | heap of a program | malloc, free, strings, formatting, division | |
| dynamic linker | `user/lib/ld-weenix/*` | chain of objects, GOT and PLT | load, resolve, relocate, bind | program loading |
| shell, editor | `user/bin/sh.c`, `user/bin/ed.c` | descriptors and children; lines, marks, temporary file | commands | system calls |
| virtual memory, page frames, S5FS, disk | `vm/*`, `mm/pframe.c`, `fs/s5fs/*`, `drivers/disk/*`, `proc/fork.c` | mostly stubs in this repository | | |

What makes these parts hard to get right, and hard to test:

* interrupts arriving in the short windows in which they are unmasked;
* a thread cancelled at any point of a sleep, of a mutex hand-over, or while it
  is already runnable;
* a wakeup that must reach whoever needs it, across creation, exit, reparenting
  and disposal of processes;
* several redundant pieces of state (list, size, `kt_wchan`, `kt_state`; parent
  pointer and list of children; descriptors and reference counts) that many
  functions update in separate statements;
* pids, descriptors, inodes, directory slots, pages and heap at their limits;
* one step of many failing, in a system call, in the loader of programs, in a
  line of the shell, and what has to be given back then;
* algorithms on words and pages (buddies, bit maps, rings, relocation,
  formatting, division) whose corner cases are rare.

The `hazards` of `PROJECT.json` list the places one by one.

## 2. Modules

| module | models | proved in |
|---|---|---|
| `QueueOps` | removal from a list, the first of some positions | `QueueLemmas` |
| `Sched` | `sched.c`, `kmutex.c`, `kthread.c`, `context.c`, `intr_wait` | `Sched_proofs` |
| `KMutexSpec` | what a mutex promises (abstract specification) | `Sched_proofs` |
| `Procs` | `proc.c`, idle and init of `kmain.c` | `Procs_proofs` |
| `Vfs` | path names, directories, vnodes: `vfs_syscall.c`, `open.c`, `namev.c`, `vnode.c`, `ramfs.c` | `VfsParts_proofs`, `Vfs_proofs` |
| `Files` | `file.c` and the calls on descriptors, down to the reads and writes of ramfs | `FilesParts_proofs`, `Files_proofs` |
| `Syscalls` | `syscall.c`, `access.c` | |
| `Exec` | `binfmt.c`, `_elf32_load` step by step | |
| `ElfMap` | segments and arguments of `elf32.c`, `_ldmapsect` of the linker | |
| `KMem` | `page.c`, `slab.c` | |
| `VirtTerm` | `virtterm.c`, `screen.c`, `keyboard.c` | `VirtTerm_proofs` |
| `InitCalls` | `init.c` | |
| `Strings`, `Format`, `Quad` | `string.c`, `printf.c`, `math.c` and their copies in libc, `strtol.c` | |
| `Malloc` | `lib/libc/malloc.c` | |
| `Linker` | `lib/ld-weenix` | |
| `Shell`, `ShellChecks` | `bin/sh.c` | |
| `Ed`, `EdTemp`, `EdRegex` | `bin/ed.c` | |
| `Counting` | nothing of the system: the facts about numbers and finite sets that the proofs about `Vfs` and `Files` use | `Vfs_proofs`, `Files_proofs` |
| `MCSched`, `MCProcs`, `MCVfs`, `MCKernel`, `MCLibrary`, `MCUser` | instances for TLC | |

`MCKernel` and `MCUser` each put several modules that share no state side by
side in one run: the variable `focus` says which of them a behaviour is about,
the variables of the others stay at `"idle"`, and a property of a module is
stated as `focus = ... => ...`. A run of them therefore explores the sum of the
state spaces of its parts, not their product. `MCLibrary`, which `MCUser`
extends, does the same for pure functions: an action makes a call with small
arguments, the invariants compare what the functions compute with a reference
definition, and `Return` makes room for the next call.

### 2.1 Threads, processes, path names

#### Sched

State. `queue` and `tq_size` are `tq_list` and `tq_size` of every `ktqueue_t`;
the head of the sequence is the tail of the C list, the thread dequeued next.
`kt_state`, `kt_wchan`, `kt_cancelled`, `km_holder` and `curthr` have the names
of the code. Three variables stand for what the processor does behind the
code's back: `kstack` is the thread whose stack the processor is on,
`resumable` the threads whose saved context is where they stopped, `frame`
what a suspended thread returns into (its first function, a sleep, a driver
that masked interrupts, or `kmutex_lock` of a mutex). `crit[t]` is the history
variable of the mutexes that `t` locked and has not unlocked. `cpu` says how
far the processor is in `sched_switch`, and `ipl`, `swipl`, `savedipl` are the
interrupt level, the local variable `curr_intr_level`, and the level a caller
saved.

Actions. A call of the thread interface is one action of the running thread,
since threads are not preempted and none of these calls yields before its end
except through `sched_switch`. `sched_switch` itself is taken apart where
interrupts can come in: `SwitchEmpty` (the queue is empty, unmask), `IntrWait`
(halt), `Dispatch` (take a thread; if it is cancelled make it exit on the
caller's stack, else `ContextSwitch`). `kthread_exit` and `proc_thread_exited`
are the two halves of an exit, between which interrupts are possible.
`DeviceInterrupt` and `OtherInterrupt` happen whenever the level allows it.
A block driver (`driver_wait`) and the delivery of interrupts are not in the
source tree that is built (`libdrivers.a`) or are hardware: they are modelled
from how the kernel uses them.

Left out: run queue updates with interrupts unmasked inside
`sched_wakeup_on` and its siblings are single steps here, so a handler that
changes the same list in the middle of one is not represented.
Priorities do not exist in the code. Two early returns, `-EINTR` for a caller
that is already cancelled, cannot be reached (`RunningNotCancelled`, proved)
and have no action.

#### Procs

A process object also stands for its one thread. `live` is `_proc_list`;
`p_pid`, `p_pproc`, `p_children`, `p_state`, `p_status`, `next_pid` are the
fields of the code. Of the scheduler only the run queue and what a thread
sleeps on (`wchan`) are kept. `call`, `asked` and `target` are the program
counter and the locals of a `do_waitpid` under way; `adopted` is a history
variable.

`proc_create`, `do_exit` (with the whole of `proc_cleanup`),
`do_waitpid_any` and `do_waitpid_pid`, `Dispose`, `DisposePast` and `WaitSleep`
(the outcomes of one pass of the wait loop), `proc_kill_all`, `hard_shutdown` and
`sched_switch` are the actions. `SleepOnEvent` and `EventInterrupt` stand for
every wait that is not `do_waitpid`. Where the code goes through a NULL or a
freed pointer the model goes to `cpu = "crashed"`, after which nothing happens;
`GetLost` is that step for `do_waitpid` of a pid nobody has and for calls that
follow what `proc_kill_all` left behind.

`proc_kill_all` makes processes dead where they are, and an interrupt may still
make the thread of one run again (`Revived`). `do_waitpid(-1)` takes such a child
off the list but leaves its loop only at a thread that has exited, so the pass goes
on: it may take more children off, and it frees the last child it has looked at,
dead or not. `DisposePast` is that pass, child by child (`Visit`). A process whose
list of children was joined to that of init and is still in use is `Astray`; a call
that walks it is lost.

Left out: `do_waitpid` calls that return `-ECHILD` change nothing and have no
step; the status argument, which the code never writes; open files and the
working directory; page directories.

#### Vfs

Ramfs never blocks and kernel threads are not preempted, so a system call is
one action. It is built the way the code is: each C function is an operator that
takes the state of the file system and returns the next one with the error and
the vnode the function hands out (`Ret`); `Then` is the rest of a function after
an early return on an error, `With` a local variable, `Live` what is done unless
the machine has stopped. `fs.inode` is the inode table of ramfs
with the link count and, for a directory, its slots; a slot keeps its inode
number when its name is removed, as in the code. `fs.vn_refcount` is the
reference count of the vnode of each inode, 0 when there is none, since `vget`
keeps one vnode per number. `cwd` is `p_cwd`, `opened` the file objects on each
vnode. Where an assertion fails, a NULL is followed or a vnode is used after the
`vput` that freed it, `fs.fault` says so and nothing happens any more.

A path is where it starts, its directories and its last name: strings are not
taken apart. The special treatment of `.`, `..` and of the empty name after a
trailing slash is in the operators. Two uninitialised pointers are choices: the
one `do_mknod` writes through (harmless or a fault), and `res_vnode` of `do_open`,
whose values are the constant `Garbage`: NULL, a pointer to nothing (`Wild`), or
any vnode in use. When `dir_namev` fails under `O_CREAT`, `open_namev` returns
without setting it and `do_open` puts what is there. If that is a vnode, one of its
owners loses its reference; the history variable `stray` counts these puts for each
vnode, `NoStray` says there was none, and `Dangling` that an open file, the working
directory or `fs_root` is left with a freed vnode, where the model ends.

Left out: contents of files, positions and descriptors (module `Files`);
`ENAMETOOLONG`; creating `./x` or `../x`, for which `open_namev` uses a name it
never set; exhaustion of kernel memory.

### 2.2 The rest of the kernel

**Files.** `k` holds the file objects, the descriptor table of the one process,
the references the calls hold on vnodes and the bytes of a file of one page.
Each call is an operator that returns the next state, the error and a value;
`ret` keeps the last answer. `open_namev` is any vnode or a failure (it is the
matter of `Vfs`). Where the code indexes `p_files[NFILES]` or an assertion
fails, `k.fault` says so and the process stops. What the code does and a reader
might not expect is in the model: flags for which `(oflags - 3)` is even and not
negative are refused, so `O_WRONLY|O_CREAT` is; a full table is written at index
`-EMFILE`; `dup` of a full table, `dup2` onto itself, and reads and writes that
are refused keep a reference; a write moves the position by what was asked for.
`LeaksOnlyOnErrors` says that a call that succeeds keeps none, but for `dup2` onto
itself, which keeps exactly one, on the object of its descriptor.

**Syscalls.** A call is the list of steps of its `sys_` function (copy in, copy
strings, the `do_` call, copy out, free), each of which may fail. Kept are the
kernel buffers the call holds, `kt_errno` and the cancellation flag. A thread that
is off the processor inside a call (in a `do_` function that blocks, in
`thr_yield`, in a round of the kernel shell) may be cancelled there. `sched_switch`
then makes it exit where it would have resumed it, so the call goes no further and
what it has allocated is not freed: `NothingKept` is about the calls that return or
exit by themselves. The tests of `kt_cancelled` in `syscall_handler` are in the
model and never true. `halt` exits, or answers -1 without a reason if its caller
is init. `range_perm`
is a stub that answers no: the constant `RangePerm` lets it answer both. Two
frees of memory that was not allocated are in the code (`sys_debug` without its
message, `user_vecdup` after a failed copy); `BadFrees` says there is no other.

**Exec** and **ElfMap.** `Exec` is the order of the loader's steps with all that
it acquires: the new address space, two descriptors with their references, the
buffers. Any step that can fail may. `ElfMap` is the arithmetic: which pages of
which segment hold which bytes of the file, which are zero, and where the
strings and vectors of the arguments go. The `vmmap_` functions are stubs; they
are taken from how the loader calls them.

**KMem.** The page allocator with its lists by order and its bit maps, and the
slab allocators above it, in one module because each calls the other: a slab
grows from pages, and pages that run out make slabs be reclaimed. Sizes are
scaled to a page of 32 bytes, small enough for TLC, large enough that a slab of
one page, one of two, an object that does not fit and a reclaim during an
allocation all happen. The boot cuts the end of a range that is no multiple of the
largest block into smaller blocks, and never sets the bits of their pairs. One of
these that was given out and comes back is taken for a buddy of what lies behind
the range: `__page_join` unlinks a block that is on no list. There the model ends
with `mem.wild` set. `WildOnlyAtTail` says that it is the only case, and in a
range of whole blocks there is none.

**VirtTerm.** Terminals with their ring of rows, the screen, and the keyboard
interrupt. What is on the screen is state of its own, so that `ScreenFollows`
can say that the partial redraws of `vt_provide_char` leave it equal to what a
full redraw would show. There is one step after which it is not. The comment at
`virtterm.c:249` ("Cursor should be on the last row in this case") does not hold
after scrolling back, and the test above it, `circ_dist(cursor, top) >=
DISPLAY_SIZE`, takes a cursor above the screen for one on it when the way round
the ring is short: the buffer is nearly full, the cursor has been moved back to
its first rows, the screen scrolled to its last. `Misplaced` is that state. The
next printable character is then drawn on a row below the last one of the
buffer, which a full redraw shows blank. `ScreenFollows` leaves out that step
and no other, and says that the next step that moves the top of the screen or
switches terminals puts it right again. It takes a display of at least two rows;
of the five screenfuls of buffer that the code has, more than four must be in use.
`keyboard.c` masks the break bit before it compares with the escape codes and
switches terminals without Ctrl; the model does too.

**InitCalls.** The walk of `init_call_all`. The test for cycles at `init.c:46`
compares search numbers and takes a function reached twice in one search for a
cycle; `BootStopsFor` says for which lists exactly the boot stops.

### 2.3 User programs and libraries

**Malloc.** Addresses are bytes from the first page; a page and a word of the bit
map are scaled by the same factor so that the bookkeeping structures keep their
relative sizes. The descriptors of free runs and of chunk pages are themselves
allocated, as in the code; `free_pages` can lose one (line 862), which
`OnlyDescriptorsLeak` states as the only leak. The loop at lines 936-940 never
runs, so entries behind a lowered break keep their marks. When the descriptor
cannot be allocated the code follows a NULL, and the model stops.

**Ed, EdTemp, EdRegex.** In this port `error` is a call that returns, so a
command goes on after it has printed `?`; `Ed` goes on with it, until the code
would leave the array of lines or use a broken expression, where `ed.lost` is
set. `append` asks for more memory before every line, since `endcore` is below the
line vector from the start, and goes on when `sbrk` fails (`Grow`, `Room`). It also
adds 1024 to the word `endcore` points at, two before the vector, which the model
leaves out. A search for a pattern no line has never ends (`ed.c:512`). `e` starts the
temporary file over but keeps marks and lines that were named; a file without a
final newline loses its last line; `3,1d` doubles words. `EdTemp` has the two
block buffers: `blkio` seeks to byte `b` instead of block `b` (line 927), and
so block 1 is written over block 0 once block 2 is begun;
`ReadBack` states that every line reads back until then. In `EdRegex` an unclosed group is accepted and
`s/\(\)/x/g` never ends.

**Shell, ShellChecks.** A line arrives split into its command and redirections;
`execute` is a frame on a stack, because `repeat` and `parallel` call it again.
`sh.kept` has the descriptors that four paths never close (a redirection, a `cp` or a
`repeat` that fails half way, a line of redirections alone); `NoDescriptorLeft` says
that at the prompt these and the standard streams are open and no other. A
redirection may go to any number. `do_redirect` makes them one after the other, so
one that goes to a number at which a later one was opened destroys that
(`Crossed`), and one to a number beyond the table makes the child exit;
`ProgramStreams` says what a program finds otherwise. A self-test is a row of calls
with the labels its errors jump to.

**Linker.** An image is a set of objects with what they need, define and
relocate; a word of memory is how often a base was added to it and whose address
it holds, so that a relocation done twice, too early or against the wrong
definition shows. `_ldlinkobj` stops at the first dependency that is known
already (`break`, line 189) and drops the rest; `_ldgetenv` does not reset the
name it looks for between two strings of the environment and returns the value
with its `=`. Both are in the model.

**Strings, Format, Quad.** Functions on small words: characters of two bits,
`short`, `long` and `long long` of 3, 5 and 7 bits, half-words of two bits in the
division, whose every quotient is computed, the rare add-back step included.
Digits go up to base 36, as in `strtol`. `log2` of 0 is -1.

## 3. Runs

Passing runs:

| run | instance | what it shows |
|---|---|---|
| `SchedCancel` | 3 threads, 1 mutex, 1 wait queue, 1 device, anyone cancels anyone | lists, sizes, `kt_wchan` and `kt_state` agree; no waiter on a free mutex; the holder knows; who returned from lock is the holder; no cancelled thread runs; the mutexes implement `KMutexSpec` |
| `SchedLive` | 3 threads, 1 mutex, 1 device, no cancellation, `TickingSpec` | who blocks on a mutex gets it; every thread that gave the processor up can be resumed where it stopped |
| `ProcsTree` | idle, init, pageoutd and 3 more; 6 pids | unique pids across wrap-around, the tree, who is woken, who may be disposed of, and that a caller with one child disposes of the one it asked for |
| `ProcsHalt` | 2 more, `Halting`, `FairSpec` | with `proc_kill_all` at any moment idle disposes of init only, a parent whose child died comes back, a dead init halts the machine, unless the kernel crashes |
| `VfsCalls` | 3 inodes, 4 slots, the paths `a`, `/a/b`, `../b`, any `Garbage` | link counts are the names and the vnode; entries lead to inodes; names are unique; no vnode is used after it was freed; every owner has its reference; and what is left of this after `do_open` put a vnode it never took |
| `Kernel` | `Files`: 2 descriptors, 2 file objects, a file and a directory. `Syscalls`: all calls. `Exec`: the ELF loader between two others. `KMem`: 8 and 7 pages, blocks of 1, 2 and 4, up to 4 caches. `VirtTerm`: one terminal of 2x2 over 4 rows, two of 1x1 over 3 rows, one of 1x3 over 5 rows | descriptors and references add up, positions and contents change by their calls only; system calls free what they allocate and explain their errors; execve is all or nothing; pages and objects are owned once, buddies are joined, the count of free pages is right; the cursor stays in its terminal's buffer and the screen goes on showing the current terminal |
| `User` | `Malloc`: 4 pages, 2 blocks out; `Ed`: three lines, then any two of 31 commands; `EdTemp`: 3 blocks; `Shell`: 9 commands with 9 sets of redirections; `Linker`: 384 images of four objects in 4 environments; the functions of `MCLibrary` | the heap is consistent whatever is freed in whatever order; every editor command does to the lines what it is for; lines read back; the shell keeps its streams and leaves neither descriptors nor children; objects are linked and relocated once, late binding gives what early binding gives; the functions agree with their reference definitions |

In `Kernel` and `User` a property is often the conjunction of several
statements, each defined with its comment in the module of its component:

| property | says | made of |
|---|---|---|
| `ReferencesCounted` | the counts of file objects and vnodes are the references there are | `DescriptorsCounted`, `VnodesHeld` |
| `AccessConfined` | a call moves the position and writes the bytes of its own file only | `PositionsPrivate`, `WritesKeepTo` |
| `CallsEndClean` | a system call whose thread is not cancelled inside it frees what it allocated, frees nothing else, and an error has its reason | `NothingKept`, `BadFrees`, `ErrorsExplained` |
| `ExecAllOrNothing` | `execve` replaces the whole program or nothing, and gives back all it took | `AllOrNothing`, `AllReleased` |
| `MemoryPartitioned` | pages and objects are owned once, buddies joined, free pages counted, until a join took a block in use | `Partitioned` (`PagesPartitioned`, `BuddiesJoined`, `FreeCountRight`, `ObjectsOwnedOnce`, `SlabsFit`), for a range with a tail and one without |
| `JoinsOnlyFreeBlocks` | a join takes a block in use only when a page of the tail of a range is given back; a request is refused only when memory is full | `WildOnlyAtTail`, `RefusedOnlyWhenFull`, for both ranges |
| `ScreenFollowsTerminal` | a screen that shows the current terminal goes on doing so, a full redraw makes it so, and the cursor is between head and tail | `ScreenFollows`, `CursorInBuffer` of three instances |
| `HeapConsistent` | the heap of a program | `BlocksOwnedOnce`, `OnlyDescriptorsLeak`, `FreeListCoalesced`, `ChunkPagesListed`, `DirectoryCovers` |
| `EditsAreSequenceEdits` | every editor command is its edit of the sequence of lines: what `a i c d m t s` make of the range and where, what `r` and `e` take from a file and `w` puts there, which line is current afterwards, and that the others change nothing | `MarksShrink`, `DotInBuffer`, `WordsDistinct` and the edit itself |
| `LinesReadBack` | lines are where the editor put them | `PlacesDisjoint`, `ReadBack` |
| `PromptsClean` | the shell at its prompt | `StdStreamsKept`, `ProgramStreams`, `NoDescriptorLeft`, `NoZombies` |
| `ChecksGiveBack` | the self-tests of the shell | `GivesBack`, `VerdictHonest` |
| `LinkedAndRelocatedOnce` | the dynamic linker | `LinkedOnce`, `RelocatedOnce`, `CopiesFinal`, `LazyIsEager` |
| `ImageLoaded` | segments, library segments and arguments are where they belong | `SegmentsLoaded`, `LibrarySegmentsMapped`, `ArgumentsReadBack` |
| `BootInOrder` | initialisation functions run after what they depend on; the boot stops for the lists it should stop for | with `BootStopsFor` |
| `FunctionsMatch` | strings, formatting, division and regular expressions agree with their reference definitions | one statement per function |

Runs that show that the code does not do what a comment, a header or an
assertion of the repository says (`findings` quotes each line):

| run | property | what happens |
|---|---|---|
| `SchedHalt` | `RunnableThreadNotHalted` | `apic_setipl(IPL_LOW)` before `intr_wait` loses the race that `intr_wait` is there to win |
| `SchedHolder` | `HeirAlive` | a thread handed a mutex while it slept in `kmutex_lock`, and cancelled meanwhile, exits as its holder |
| `ProcsZombie` | `NoZombieOfSleeper` | init is not woken for a dead child it inherits |
| `VfsShutdown` | `ShutdownFindsNone` | `do_mkdir` and `do_mknod` keep a reference on what they make; with `/dev` made at boot `vfs_shutdown` panics |
| `VfsRename` | `RenameKeepsFile` | `do_rename` unlinks the old name after a link that failed |

`NoStaleVnode` holds for a reason worth knowing. Most system calls put the vnode
of the directory and go on using it. What keeps those vnodes alive are the same
lost references that make `vfs_shutdown` panic: every directory and file has one
from the call that made it. The mutant of `NoStaleVnode` gives that reference
back, and the calls then use freed vnodes. The two have to be repaired together.
For the same reason no inode is freed before the file system is unmounted. All this
is until a failing `do_open` puts a vnode that it never took. What such puts can do
is in the properties too: `LinkCounts` and `DirectoriesSound` say what survives
them, and `RefsCover` that nothing else takes a reference from its owner.

Two properties are checked where they hold and fail outside of it.
`ContextsIntact` fails once threads are cancelled: `sched_switch` makes a
cancelled thread that it dispatches exit on the stack of its caller
(`proc/sched.c:268`), whose context is overwritten. `DisposesOfAsked` fails for a
caller with several children: `break` in `list_iterate_begin` leaves only the
inner loop of that macro, so `do_waitpid(pid)` goes on with the last child
(`proc/proc.c:483`).

Smaller disagreements met while modelling, which no run asks about: a cancelled
sleeper never returns `-EINTR`, since it is made to exit when it is dispatched;
`sched_switch` goes on at the interrupt level of the thread that gave the
processor up and not at that of the thread it resumes (`proc/sched.c:275`);
`do_waitpid` never writes its status argument and follows a NULL for a pid that
is no child; an init that exits with children waits in a thread that is on no
queue, so the machine never halts (`proc/proc.c:182`); `proc_kill_all` leaves
exited threads on the run queue; `do_link` with a file in the place of a
directory calls a NULL operation instead of returning `-ENOTDIR`; `O_CREAT` of a
file that exists runs into the assertion of `ramfs_create`; a missing directory
in the path makes `open_namev` put a NULL vnode. In the modules of section 2.2 and
2.3 such places are named with the module; others are: `do_dup2` answers a
positive `EBADF` for a closed descriptor; `sys_waitpid` has disposed of the child
when it fails to copy the status out; `_page_split` reclaims slabs without trying again; the first page of a bss is not
tested for overlap (`elf32.c:107`); `vsscanf` ignores the width of an integer and
does not read back what `%#X` printed; `strncpy` does not pad; `free_bytes` does
not quite insert "in address order" (`malloc.c:985`); the shell does not test
`REDIR_MAX`, and waits after a fork that failed; `cp` opens its target with flags
that `do_open` refuses.

Bounds. Three threads are the fewest with a holder, a first and a second waiter
of a mutex, or a canceller, its victim and a bystander. `SchedHolder` has a device
and no other queue, so that the holder can be off the processor while another
thread comes to wait. One mutex, wait queue
and device suffice because the properties relate one queue to the threads on
it; the proofs cover any number. Three processes besides the kernel's own give
a grandchild, so that reparenting, disposal of an adopted child and a reused pid
all happen; the number of pids equals the number of objects, so that pids wrap
around on the fourth creation. In `Vfs` two inodes besides the root and two free
slots per directory are enough for a nested directory, two names of one inode, a
removed working directory, a full directory and a full inode table; `MaxRefs`,
`MaxOpen` and `MaxStray` bound references, open files and the puts of vnodes nobody
took, and a call that would exceed them is not taken. `Garbage` is every value the
pointer can have. In `KMem` eight pages are two blocks of the largest order, so that
joins stop at it; seven are one block of each order, the shortest range with a tail
of two blocks. In `VirtTerm` the instances have fewer rows
than two screens or few more, so that head, tail and top meet. On the displays of two
and three rows the cursor can be misplaced, on that of one row it cannot. The two commands of `Ed` are
enough for a mark and its use, a move after a move, or a substitution inside a
global command; the scripts are all pairs, so each command meets what each other
left. Six times `GrowWords` words of memory are enough for what the scripts add, and the
failure of `sbrk` is reached. Two redirections of one stream, one that fails, one
to a descriptor in use and one to a number there is no descriptor for, one more
than `REDIR_MAX`, and `cp` inside `repeat`
are among the lines of `Shell`. `MaxRef`, `MaxPos`, `MaxHeld`, `MaxBlocks`,
`MaxCaches`, `MaxPages`, `MaxGrow` and `MaxOpen` are bounds; a step beyond one is
not taken. The functions of `MCLibrary` are called with all words up to a length,
or with sets of arguments that reach every branch.
Symmetry is over the threads, processes or file objects that
play no distinguished role, and is not used in the runs with liveness.
`CHECK_DEADLOCK FALSE` is set where the system may stop: the machine halts,
crashes, is shut down, or every thread sleeps with no device request under way.

Fairness. `FairSpec` of `Sched`: `sched_switch` runs to its end (there is one
processor and nothing else to execute); a device finishes its request and its
interrupt is taken if it keeps being deliverable; a thread that keeps getting
the processor eventually unlocks what it locked and eventually returns, or, for
the idle thread, waits. These are the duties of the callers of the interface.
`TickingSpec` adds that a halted processor gets another interrupt, without
which `SchedHalt` shows that a runnable thread may wait for ever. `FairSpec` of
`Procs` is that the processor goes on executing; device events are not fair.

Every property of a passing run has a mutant in `PROJECT.json`: a variant of
one definition with a plausible mistake, placed before the definition it
replaces, for which TLC finds the property violated.

## 4. Proofs

### 4.1 The scheduler

`Sched_proofs` proves, for any sets of threads, mutexes and queues:

* `TypeCorrect`, `QueuesAgree`, `MutualExclusion`, `NoIdleMutex`,
  `HolderKnows`, `NoCancelledThreadRuns`: the invariants of the passing runs;
* `MutexesRefine`: `Sched` implements `KMutexSpec` under the mapping
  `owner <- km_holder`, `waiters <-` the queues of the mutexes;
* `ContextsKept`: as long as no thread cancels another (`Canceller = {}`), every
  thread off the processor can be resumed where it stopped, and the holder of a
  mutex has not exited. With cancellation both are false (section 3).

Assumptions: `ConstantsOK` of `Sched` (the sets of queues are disjoint, the first
thread is a thread, `NULL` is none of them), evaluated by TLC in every run.

The inductive invariant `IInv` is the conjunction of the properties themselves
and three facts they need: `CurrentThread` (what `cpu` says of the current
thread: on the processor it is on no queue and runnable; in `sched_switch` it
is on a queue or has exited), `WaiterFrame` (a thread asleep on a mutex will
return into `kmutex_lock` of it) and `LockFrame` (a thread that will return into
`kmutex_lock` is still asleep there, was handed the mutex, or is cancelled).
`LockFrame` is why `MutualExclusion` needs `NoCancelledThreadRuns` and cannot
be proved without it: a cancelled waiter is on the run queue without being the
holder, and only the test in `sched_switch` keeps it from returning.

The argument has three layers. `QueueLemmas` says what append, tail, removal
and concatenation do to the elements of an injective sequence. `EnqueueQueues`,
`MoveQueues`, `WakeupQueues`, `CancelQueues`, `BroadcastQueues` and
`DequeueQueues` lift that to all queues together. One `...Step` lemma per kind
of step (`SleepStep`, `WakeStep`, `UnlockStep`, `DispatchStep`, ...) then
preserves the rest of `IInv`, and `NextIInv` combines them by action.
For the refinement, `NextImplements` shows that each action is a step of
`KMutexSpec` or leaves the mutexes alone: locking is `Acquire` or `Wait`,
unlocking `Release`, cancelling a cancellable waiter `GiveUp`, all else a stutter.
`ContextsKept` rests on an invariant of its own, `CInv`, added to `IInv`: without
cancellation nobody is cancelled, so `sched_switch` never makes a thread exit on
the stack of another.

### 4.2 The processes

`Procs_proofs` proves, for any number of processes and pids, with `proc_kill_all`
at any moment:

* `PidsAreUnique`: no two processes have the same pid;

and, as long as `proc_kill_all` is not called (`~Halting`):

* `TreeIsConsistent`, `InitIsLast`, `IdleDisposesOfInit`: invariants of `ProcsTree`
  and `ProcsHalt`;
* `OnlyTheDeadLeave`: only a dead child of the caller of `do_waitpid` leaves
  `_proc_list`;
* `AskedIsDisposedOf`: `do_waitpid(pid)` of a process with one child disposes of
  `pid`;
* `QueuedThreadsAreAlive` and `WakeupsAreNotMissed`.

With `proc_kill_all` all but `IdleReapsInit` and `DisposesOfAsked` are false on the
instance of `ProcsHalt`. It makes processes dead
where they sleep and wakes nobody, and a pass of `do_waitpid(-1)` over one whose
thread runs again leaves processes without a parent or frees one that is alive
(`DisposePast`). `IdleReapsInit` is model-checked there.

Assumptions: `ConstantsOK` (the three kernel processes differ, there are more
than two pids, `NULL` is no process) and `PidsSuffice`: there are at least as many
pids as processes, stated as the pigeonhole principle that the proof uses. Both
are evaluated by TLC in the runs of `MCProcs`. Without `PidsSuffice` a process
could get the pid -1, which puts it on the list of all processes and on no list of
children; 2^16 kernel stacks of 56 kB do not fit into the kernel's part of the
address space.

The inductive invariant `IInv`, for `~Halting`, adds to the properties what they rest on. `Boot`
fixes the processes that idle creates. `Parents`: a process has a parent on
`_proc_list`, and idle and pageoutd are parents of none made later. `Acyclic`: of
any set of processes made after the boot one has its parent outside; this is what
makes "init has no children" imply "nobody is left" (`NobodyLeft`), and keeps
`do_waitpid` from disposing of its caller. `Current`: the current process is on
the list and, while it runs, on no queue; a dead init never runs. `Waiting`: the
process that `do_waitpid(pid)` goes on with stays a child of the caller, since
nobody else can dispose of it. One lemma per action preserves the invariant;
`DisposableChild` and `ReparentElements` carry the two that change the tree most,
and `TreeKept` deals with all that move threads only.

`WInv` is the invariant for the wakeups: `Threads` (who is on a queue is alive, a
dead process has exited, a sleeper in `do_waitpid` is asleep) and `Woken`, which is
`NoWakeupMissed` without the choice of the first dead child. It needs `Threads`
because `sched_wakeup_on` wakes only who sleeps: the exit of a child reaches its
parent if the parent is on `p_wait` exactly when it is asleep.

### 4.3 The file system

`Vfs_proofs` proves, for inode tables and directories of any size, any set of
path names and any sequence of calls:

* `LinksCounted`: the link count of an inode is the number of its names and one
  for its vnode (`LinkCounts`);
* `DirectoriesKept`: entries lead to inodes in use, no directory has a name twice
  (`DirectoriesSound`);
* `VnodesInUse`: no call uses a vnode after the `vput` that freed it, and nobody is
  left with one (`NoStaleVnode`);
* `ReferencesOwned`: every open file, the working directory and `fs_root` have a
  reference of their own (`RefsCover`).

All four are for as long as `do_open` has not put a vnode that it never took
(`NoStray`); together they say that nothing else can break them. The uninitialised
pointer may hold anything. What the properties say of the time after such a put is
only model-checked.

Assumptions: `ConstantsOK` of `Vfs`, and `PlainPaths`, which the instance of
`VfsCalls` satisfies: no path ends in a slash. Otherwise `LinkCounts` is
false: `rmdir("/")` looks up the empty name, finds an empty slot of the root with
it, and takes a link from the root, whose number an empty slot holds at first.

The inductive invariant `IInv` is `Sound` of the state: while no call has stopped
the machine, the file system is mounted and there was no stray put, `Good` and `Owned`. `Good` adds to link
counts and directories the reason why no vnode is stale, `Resident`: the vnode of
every inode in use, and of no other, is in use itself. It is inductive because of
`Owned`: beside the references of open files and of the working directory every
inode in use has one that nobody owns, the one its maker never gave back. So no
`vput` of a call reaches zero, which is what the remark on `NoStaleVnode` in
section 3 says of the small instance. `Directory` adds that a directory
begins with "." and ".." and that emptied slots still name an inode in use.

`VfsParts_proofs` has the lemmas about `vnode.c`, `ramfs.c` and `namev.c` that the
calls are made of; `Vfs_proofs` has one per system call (`MakeFine`,
`RmdirFine`, `UnlinkFine`, `LinkFine`, `RenameFine`, `StatFine`, `ChdirMoves`,
`OpenOpens`, `CloseSound`, `ShutdownSound`), and `NextSound` combines them.

### 4.4 Open files

`Files_proofs` proves, for any number of descriptors, file objects and vnodes and
any page size:

* `ReferencesKept`: the count of a file object covers the descriptors that name
  it, the count of a vnode is that of the objects that hold it
  (`ReferencesCounted`);
* `LeaksConfined`: a call that succeeds leaks no reference, but for `do_dup2` of a
  descriptor onto itself, which leaks exactly one (`LeaksOnlyOnErrors`);
* `AccessKept`: a call moves the position of one object at most, and writes into
  one file at most, the one its descriptor stands for and as its mode allows; the
  file neither shrinks nor grows past its page (`AccessConfined`).

Assumptions: `FilesConstants`, evaluated by TLC in `Kernel`.

`IInv` says that the kernel has stopped or its state is `Good`: the counts, and
what the accesses need: a free object is zeroed, no file is longer than its page,
and a position is not below zero unless the object is a block device, where
`do_read` adds the error `-ENOTSUP` to it. `AccessConfined` needs the page bound
before the write and gives it back after, so it is an invariant and an action
property at once. `FilesParts_proofs` deals with `file.c` and the calls that read,
write, seek, list and close, each of which answers for one object (`Answers`);
`Files_proofs` with the calls that change the table of descriptors (`do_open`,
`do_dup`, `do_dup2`, exit). `StepFine` combines them.

The proofs of 4.3 and 4.4 take the facts of `Counting` as a hypothesis, and
discharge it once, in `FactsHold`, from the library of finite sets.

### 4.5 Terminals

`VirtTerm_proofs` proves for displays and buffers of any size and any number of
terminals:

* `CursorKept`: in every terminal the cursor is between head and tail, so that
  what is written is kept (`CursorInBuffer`);
* `ScreenKept`: every step keeps the screen equal to what a full redraw would
  show, or makes it so (`ScreenFollows`).

`ScreenFollowsTerminal` of the run `Kernel` is the conjunction of the two for its
three instances. Assumption: `SizesOK`, that the display has a row and a column,
that there is a terminal, that the control characters are not printable, and that
the buffer has at least two rows more than the display. The code has five
screenfuls. With one row more, tail comes round to the top of a full screen, where
a full redraw finds nothing to show, and TLC finds `ScreenFollows` violated.

The invariant is that every terminal is `Good`: head, tail and top begin rows, head
and tail differ, and the cursor is nearer to head than tail is, around the ring.
The lemmas come in three layers. The first is the arithmetic of the ring: what
`buf_add`, `circ_dist` and `next_row` give, and that whole rows stay whole (`Added`,
`Distance`, `RowStart`). The second is what each operation does to a terminal
(`Advance`, `PutGood`, `FollowGood`, `ScrolledGood`, ...). The third relates the
screen to the buffer: `CellIs` and `ShownIs` say which cell shows which place,
`ShownPut` that writing a place changes its cell only, `ShownGrown` that a new
last row shows nothing new on a screen that does not move, and `NotMisplaced` that
the cell `vt_provide_char` computes is that of the cursor.

### 4.6 Only model-checked

Liveness (`WaiterGetsMutex`, `DeadInitHalts`, `WaitReturns`), since the prover does
not handle fairness. `KMem`, `InitCalls`, the modules of section 2.3 and the
functions of `MCLibrary`: most of their operators are recursive or compute on words,
and what a recursive definition computes for every input is out of the prover's
reach. `Syscalls` and `Exec`, which walk through one call at a time and whose
instances are already all of their paths. The disagreements of section 3, which
are counterexamples.

## 5. Not modelled

* Virtual memory and fork (`vm/*`, `proc/fork.c`), page frames and `pageoutd`
  (`mm/pframe.c`), the S5 file system, the ATA driver, the line discipline and
  the memory devices: the functions that would change their state
  (`pframe_get`, `s5_alloc_block`, `vmmap_map`, `ata_do_operation`,
  `n_tty_receive_char` and their like) are stubs in this repository. What is left
  around them, such as the daemon of `pframe.c` or the free list of inodes, works
  on pages that never exist.
* `vget` and `vput` with `VN_BUSY`: only a file system that sleeps in
  `read_vnode` needs them, and ramfs does not.
* The list pointers of the run queue: `Sched` takes queues for sequences and a
  call for a step, so an interrupt in the middle of `sched_wakeup_on` is not
  represented.
* Page tables, GDT, APIC, PIT, ACPI and DMA registers, port I/O, the boot loader:
  what they do is input and output of the machine.
* Debug output, the clock, tables of error messages, streams and the traps of the
  C library, `ls`, `uname`, `init` and `halt`, the kernel shell and the tests.
