----------------------------- MODULE MCKernel -----------------------------
(* The parts of the kernel that do not share state in these models, side by *)
(* side in one run: the descriptors of a process (Files), the system-call   *)
(* layer (Syscalls), execve (Exec), the page and slab allocators (KMem) and *)
(* the virtual terminals (VirtTerm, with one, with two, and with one of     *)
(* three rows).  focus is the part a behaviour is about; the state of the   *)
(* others stays "idle".                                                     *)
EXTENDS Files, TLC

VARIABLES focus,
          th,                       \* Syscalls
          x,                        \* Exec
          mem, held, blocks, order, \* KMem
          term, cur, screen, mask   \* VirtTerm

memory == <<mem, held, blocks, order>>
terminal == <<term, cur, screen, mask>>

MCKind == "f" :> "data" @@ "d" :> "dir"
MCOffsets == {-1, 1}
MCOFlags == {[acc |-> "rd", opts |-> {}], [acc |-> "wr", opts |-> {}],
             [acc |-> "rdwr", opts |-> {"append"}], [acc |-> "wr", opts |-> {"creat"}]}

Y == INSTANCE Syscalls WITH RangePerm <- {TRUE, FALSE}, ArgLen <- 2

X == INSTANCE Exec WITH Loaders <- <<"other", "elf", "other">>, ELF <- "elf"

M == INSTANCE KMem WITH
        NPages <- 8, PAGE_NSIZES <- 3, PAGE_SIZE <- 32, SlabStruct <- 4, Bufctl <- 2,
        SLAB_MAX_ORDER <- 2, AllocatorSize <- 6, Pointer <- 1, Redzones <- 2,
        Buckets <- <<8, 24>>, Requests <- {7, 20}, MaxCaches <- 4, MaxBlocks <- 2,
        MaxHeld <- 4, ret <- order

\* a range with a tail: blocks of four, of two and of one page
MT == INSTANCE KMem WITH
        NPages <- 7, PAGE_NSIZES <- 3, PAGE_SIZE <- 32, SlabStruct <- 4, Bufctl <- 2,
        SLAB_MAX_ORDER <- 2, AllocatorSize <- 6, Pointer <- 1, Redzones <- 2,
        Buckets <- <<8, 24>>, Requests <- {7, 20}, MaxCaches <- 4, MaxBlocks <- 2,
        MaxHeld <- 4, ret <- order

V1 == INSTANCE VirtTerm WITH
        DISPLAY_WIDTH <- 2, DISPLAY_HEIGHT <- 2, ScrollRows <- 4, NTERMS <- 1,
        Printable <- {"a"}, Keys <- {"k", "enter", "backspace"}

V2 == INSTANCE VirtTerm WITH
        DISPLAY_WIDTH <- 1, DISPLAY_HEIGHT <- 1, ScrollRows <- 3, NTERMS <- 2,
        Printable <- {"a"}, Keys <- {"k", "enter", "backspace"}

V3 == INSTANCE VirtTerm WITH
        DISPLAY_WIDTH <- 1, DISPLAY_HEIGHT <- 3, ScrollRows <- 5, NTERMS <- 1,
        Printable <- {"a"}, Keys <- {"k", "enter", "backspace"}

NoThread == th = "idle"
NoExec == x = "idle"
NoMemory == mem = "idle" /\ held = "idle" /\ blocks = "idle" /\ order = "idle"
NoTerminal == term = "idle" /\ cur = "idle" /\ screen = "idle" /\ mask = "idle"

Init ==
    \/ focus = "files" /\ FilesInit /\ NoThread /\ NoExec /\ NoMemory /\ NoTerminal
    \/ focus = "syscalls" /\ FilesInit /\ Y!Init /\ NoExec /\ NoMemory /\ NoTerminal
    \/ focus = "exec" /\ FilesInit /\ NoThread /\ X!Init /\ NoMemory /\ NoTerminal
    \/ focus = "memory" /\ FilesInit /\ NoThread /\ NoExec /\ M!Init /\ NoTerminal
    \/ focus = "tail" /\ FilesInit /\ NoThread /\ NoExec /\ MT!Init /\ NoTerminal
    \/ focus = "terminal" /\ FilesInit /\ NoThread /\ NoExec /\ NoMemory /\ V1!vt_init
    \/ focus = "terminals" /\ FilesInit /\ NoThread /\ NoExec /\ NoMemory /\ V2!vt_init
    \/ focus = "tall" /\ FilesInit /\ NoThread /\ NoExec /\ NoMemory /\ V3!vt_init

FilesStep == focus = "files" /\ FilesNext /\ UNCHANGED <<focus, th, x, memory, terminal>>
SyscallsStep == focus = "syscalls" /\ Y!Next /\ UNCHANGED <<focus, files, x, memory, terminal>>
ExecStep == focus = "exec" /\ X!Next /\ UNCHANGED <<focus, files, th, memory, terminal>>
MemoryStep == focus = "memory" /\ M!Next /\ UNCHANGED <<focus, files, th, x, terminal>>
TailStep == focus = "tail" /\ MT!Next /\ UNCHANGED <<focus, files, th, x, terminal>>
TerminalStep == focus = "terminal" /\ V1!Next /\ UNCHANGED <<focus, files, th, x, memory>>
TerminalsStep == focus = "terminals" /\ V2!Next /\ UNCHANGED <<focus, files, th, x, memory>>
TallStep == focus = "tall" /\ V3!Next /\ UNCHANGED <<focus, files, th, x, memory>>

Next ==
    \/ FilesStep \/ SyscallsStep \/ ExecStep \/ MemoryStep \/ TailStep
    \/ TerminalStep \/ TerminalsStep \/ TallStep

Spec == Init /\ [][Next]_<<focus, files, th, x, memory, terminal>>

\* ret is an output of Files, not a part of its state
View == <<focus, k, th, x, memory, terminal>>
Symmetry == Permutations(FileObj)

-----------------------------------------------------------------------------
\* Syscalls: when a call has returned, by its answer or by any of its errors, the strings,
\* vectors and shells it allocated are freed, nothing else is (but for debug and execve), and
\* an answer of -1 has its reason in kt_errno (but for the stubs and for halt by init).  Not
\* so where the thread is cancelled inside the call: it never gets to its kfree.
CallsEndClean == focus = "syscalls" => Y!NothingKept /\ Y!BadFrees /\ Y!ErrorsExplained

\* Exec: execve is all or nothing: the process ends in the new address space with the old one
\* destroyed, or in the old one with the new one destroyed; and whichever step failed, the
\* buffers, descriptors and file references the load acquired are given back, but for an
\* interpreter that is a directory.
ExecAllOrNothing == focus = "exec" => X!AllOrNothing /\ X!AllReleased

\* KMem: memory stays partitioned through splitting, joining, growing and reclaiming: every
\* page is in exactly one block, free, a caller's or a slab's; two free buddies never stay
\* apart; page_free_count is the number of pages on the free lists; each object of a slab
\* fits in its pages and is held by one caller or once on the slab's free list.  All this
\* until a join has taken a block that is not free.
MemoryPartitioned ==
    /\ focus = "memory" => M!Partitioned
    /\ focus = "tail" => MT!Partitioned

\* KMem: the bit of a pair is enough for __page_join to know that the buddy of a block is
\* free, whatever was split, given out, reclaimed and given back before.  It takes a block
\* that is not free in one case only: when a page of the tail, in a range that is not a
\* multiple of the largest block, is given back.  And a request is refused only when no free
\* block was large enough.
JoinsOnlyFreeBlocks ==
    [][/\ focus = "memory" => M!RefusedOnlyWhenFull /\ M!WildOnlyAtTail
       /\ focus = "tail" => MT!RefusedOnlyWhenFull /\ MT!WildOnlyAtTail]_memory

\* VirtTerm: the cursor is in the rows from head to tail and the tail never reaches the head,
\* through wrapping, scrolling and backspacing; and drawing only the cell that changed keeps
\* the screen equal to the current terminal's buffer from its top row, unless a character is
\* written where the cursor is above that row and taken for one below it.
ScreenFollowsTerminal ==
    [][/\ focus = "terminal" => V1!CursorInBuffer' /\ V1!ScreenFollows
       /\ focus = "terminals" => V2!CursorInBuffer' /\ V2!ScreenFollows
       /\ focus = "tall" => V3!CursorInBuffer' /\ V3!ScreenFollows]_terminal
===========================================================================
