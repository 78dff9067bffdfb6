-------------------------------- MODULE Shell --------------------------------
(***************************************************************************)
(* The shell user/bin/sh.c: redirections, execute(), the built-in commands  *)
(* that use descriptors or processes, and the children it waits for.        *)
(*                                                                          *)
(* A line is a command and its redirections, already split into words: a    *)
(* redirection is [kind, src, dfd] with kind "file", "dup" or "bad" (a      *)
(* syntax error) and dfd any number: it may name a descriptor in use, or    *)
(* one there cannot be.  A descriptor holds the stream it stands for.       *)
(* execute() is called by parse() and again by repeat and parallel: a frame *)
(* of the stack is one call of it, with its map of redirections.            *)
(***************************************************************************)
EXTENDS Integers, Sequences, FiniteSets, SequencesExt, FiniteSetsExt

CONSTANTS Lines,       \* lines that may be typed
          NFiles,      \* descriptors of a process
          RedirMax,    \* REDIR_MAX
          MaxOpen      \* bound: no line is read with more descriptors left open

VARIABLES sh,          \* the shell: fds, stack, line, next, map, pc, lost, and kept:
                       \* the descriptors the paths that never close them opened
          kids         \* its children: [fds, want, may, done]

vars == <<sh, kids>>

None == "none"
Std == 0 .. 2
Fds == 0 .. NFiles - 1
Tty == [d \in Fds |-> CASE d = 0 -> "tty0" [] d = 1 -> "tty1" [] d = 2 -> "tty2" [] OTHER -> None]
With(x, Rest(_)) == Rest(x)

\* get_empty_fd() of the kernel.
Free(fds) == {d \in Fds : fds[d] = None}
Open(fds, stream) == [fds EXCEPT ![Min(Free(fds))] = stream]

CloseAll(fds, map) ==
  [d \in Fds |-> IF \E i \in DOMAIN map : map[i].sfd = d THEN None ELSE fds[d]]

Sources(map) == {map[i].sfd : i \in DOMAIN map}
Targets(map) == {map[i].dfd : i \in DOMAIN map}

\* do_redirect(), in the child: dup2() and then close(), one redirection at a time.  It
\* fails when there is no descriptor dfd.
RedirectOK(map) == Targets(map) \subseteq Fds

DoRedirect(fds, map) ==
  FoldLeft(LAMBDA f, r : [[f EXCEPT ![r.dfd] = f[r.sfd]] EXCEPT ![r.sfd] = None], fds, map)

\* build_ioenv(): the descriptor a built-in command uses for each stream.
IoEnv(map) ==
  [d \in Std |-> With({i \in DOMAIN map : map[i].dfd = d}, LAMBDA is :
                   IF is = {} THEN d ELSE map[Max(is)].sfd)]

\* The streams whose redirection was opened at a descriptor that an earlier redirection of
\* the line goes to: dup2() overwrites it before it is used.
Crossed(map) ==
  {d \in Std : \E i, j \in DOMAIN map :
                 i < j /\ map[j].sfd = IoEnv(map)[d] /\ map[i].dfd = map[j].sfd}

\* What the redirections of a line mean for the other streams: the last one counts, and a
\* dup is of the stream of the shell.
Want(fds, map) ==
  [d \in Std \ Crossed(map) |-> fds[IoEnv(map)[d]]]

Top == Last(sh.stack)
SetTop(s, f) == [s EXCEPT !.stack[Len(s.stack)] = f]
Frame(cmd, map) == [cmd |-> cmd, map |-> map, st |-> "execute", left |-> 0, io |-> IoEnv(map)]
\* A child runs a program, which may have the descriptors of may besides its streams, or
\* has called exit() before.
Child(fds, want, may) == [fds |-> fds, want |-> want, may |-> may, done |-> FALSE]
ChildExits(fds) == [fds |-> fds, want |-> <<>>, may |-> Fds, done |-> TRUE]

ReturnUnclosed(s) ==
  [s EXCEPT !.stack = Front(@), !.pc = IF Len(s.stack) = 1 THEN "prompt" ELSE "run"]

\* execute() ends: cleanup_redirects() closes what the map opened.
Return(s) ==
  [s EXCEPT !.fds = CloseAll(@, Last(s.stack).map), !.stack = Front(@),
            !.pc = IF Len(s.stack) = 1 THEN "prompt" ELSE "run"]

-----------------------------------------------------------------------------
(* main(), parse() and parse_redirects()                                    *)

Init ==
  /\ sh = [fds |-> Tty, stack |-> <<>>, line |-> None, next |-> 1, map |-> <<>>,
           kept |-> {}, pc |-> "prompt", lost |-> FALSE]
  /\ kids = <<>>

ReadLine(line) ==
  /\ sh.pc = "prompt" /\ ~sh.lost
  /\ Cardinality(Fds \ Free(sh.fds)) <= MaxOpen
  /\ sh' = [sh EXCEPT !.pc = "redirect", !.line = line, !.next = 1, !.map = <<>>]
  /\ UNCHANGED kids

EndOfFile ==
  /\ sh.pc = "prompt"
  /\ sh' = [sh EXCEPT !.pc = "done"]
  /\ UNCHANGED kids

\* parse() returns; what earlier redirections of the line opened stays open.
RedirectFails ==
  [sh EXCEPT !.pc = "prompt", !.line = None, !.map = <<>>, !.kept = @ \cup Sources(sh.map)]

\* add_redirect() does not look at REDIR_MAX.
AddRedirect(s, stream, dfd) ==
  IF Len(s.map) = RedirMax THEN [s EXCEPT !.lost = TRUE]
  ELSE [s EXCEPT !.map = Append(@, [sfd |-> Min(Free(s.fds)), dfd |-> dfd]),
                 !.fds = Open(@, stream), !.next = @ + 1]

parse_redirect_dup(r) ==
  sh' = IF r.src \notin Fds \/ sh.fds[r.src] = None \/ Free(sh.fds) = {} THEN RedirectFails
        ELSE AddRedirect(sh, sh.fds[r.src], r.dfd)

parse_redirect_norm(r) ==
  \/ sh' = RedirectFails
  \/ Free(sh.fds) # {} /\ sh' = AddRedirect(sh, r.src, r.dfd)

ParseRedirect ==
  /\ sh.pc = "redirect" /\ ~sh.lost
  /\ sh.next <= Len(sh.line.redirs)
  /\ With(sh.line.redirs[sh.next], LAMBDA r :
       \/ r.kind = "bad" /\ sh' = RedirectFails
       \/ r.kind = "dup" /\ parse_redirect_dup(r)
       \/ r.kind = "file" /\ parse_redirect_norm(r))
  /\ UNCHANGED kids

\* A line of redirections and no command ends without cleanup_redirects().
ParseCommand ==
  /\ sh.pc = "redirect" /\ ~sh.lost
  /\ sh.next > Len(sh.line.redirs)
  /\ sh' = IF sh.line.cmd = <<>>
             THEN [sh EXCEPT !.pc = "prompt", !.line = None, !.map = <<>>,
                             !.kept = @ \cup Sources(sh.map)]
             ELSE [sh EXCEPT !.pc = "run", !.line = None, !.map = <<>>,
                             !.stack = <<Frame(sh.line.cmd, sh.map)>>]
  /\ UNCHANGED kids

-----------------------------------------------------------------------------
(* execute()                                                                *)

Running(st) == sh.pc = "run" /\ ~sh.lost /\ Top.st = st
Name == Head(Top.cmd)
Builtins == {"exit", "cp", "cat", "cd", "repeat", "parallel"}

\* A program: the child redirects and calls execve(), the shell waits.  It
\* waits also when fork() has failed.
ForkProgram ==
  /\ Running("execute") /\ Name \notin Builtins
  /\ sh' = SetTop([sh EXCEPT !.fds = CloseAll(@, Top.map)],
                  [Top EXCEPT !.map = <<>>, !.st = "wait", !.left = 1])
  /\ \/ UNCHANGED kids
     \/ kids' = Append(kids,
          IF ~RedirectOK(Top.map) THEN ChildExits(sh.fds)
          ELSE Child(DoRedirect(sh.fds, Top.map), Want(sh.fds, Top.map),
                     IF Len(sh.stack) = 1 THEN sh.kept \cup Targets(Top.map) ELSE Fds))

KidExits(k) ==
  /\ ~kids[k].done
  /\ kids' = [kids EXCEPT ![k].done = TRUE]
  /\ UNCHANGED sh

\* wait() reaps any child that has exited, and fails when there is none.
Wait ==
  /\ Running("wait") /\ Top.left > 0
  /\ \/ kids = <<>> /\ UNCHANGED kids
     \/ \E k \in DOMAIN kids : kids[k].done /\ kids' = RemoveAt(kids, k)
  /\ sh' = SetTop(sh, [Top EXCEPT !.left = @ - 1])

WaitDone ==
  /\ Running("wait") /\ Top.left = 0
  /\ sh' = Return(sh)
  /\ UNCHANGED kids

-----------------------------------------------------------------------------
(* Built-in commands                                                        *)

Exit ==
  /\ Running("execute") /\ Name = "exit"
  /\ sh' = [sh EXCEPT !.pc = "done"]
  /\ UNCHANGED kids

\* Commands that leave the descriptors as they were: one system call on a
\* path, or files opened and closed one after the other.
Simple ==
  /\ Running("execute") /\ Name \in {"cat", "cd"}
  /\ sh' = Return(sh)
  /\ UNCHANGED kids

\* cp: the source stays open when the destination cannot be opened.
Cp ==
  /\ Running("execute") /\ Name = "cp"
  /\ \/ sh' = Return(sh)
     \/ /\ Free(sh.fds) # {}
        /\ sh' = Return([sh EXCEPT !.fds = Open(@, "src"), !.kept = @ \cup {Min(Free(sh.fds))}])
  /\ UNCHANGED kids

\* repeat: each turn gets duplicates of the streams, and execute() closes them.
RECURSIVE DupStreams(_, _, _, _)
DupStreams(fds, io, d, map) ==
  IF d > 2 THEN [fds |-> fds, map |-> map, ok |-> TRUE]
  ELSE IF fds[io[d]] = None \/ Free(fds) = {} THEN [fds |-> fds, map |-> map, ok |-> FALSE]
  ELSE DupStreams(Open(fds, fds[io[d]]), io, d + 1,
                  Append(map, [sfd |-> Min(Free(fds)), dfd |-> d]))

RepeatStart ==
  /\ Running("execute") /\ Name = "repeat"
  /\ sh' = SetTop(sh, [Top EXCEPT !.st = "repeat", !.left = Top.cmd[2], !.cmd = Top.cmd[3]])
  /\ UNCHANGED kids

Repeat ==
  /\ Running("repeat")
  /\ sh' = IF Top.left = 0 THEN Return(sh)
           ELSE With(DupStreams(sh.fds, Top.io, 0, <<>>), LAMBDA r :
             IF ~r.ok THEN Return([sh EXCEPT !.fds = r.fds, !.kept = @ \cup Sources(r.map)])
             ELSE [SetTop([sh EXCEPT !.fds = r.fds], [Top EXCEPT !.left = @ - 1]) EXCEPT
                     !.stack = Append(@, Frame(Top.cmd, r.map))])
  /\ UNCHANGED kids

\* parallel: one child a command; the child runs execute() with duplicates of
\* the streams, so its program sees what the built-in command was given.  The
\* shell waits once for each command, whether its fork() worked or not.
ParallelChild ==
  With(DupStreams(sh.fds, Top.io, 0, <<>>), LAMBDA r :
    IF r.ok THEN Child(DoRedirect(r.fds, r.map), [d \in Std |-> sh.fds[Top.io[d]]], Fds)
            ELSE ChildExits(r.fds))

Parallel ==
  /\ Running("execute") /\ Name = "parallel"
  /\ \E forked \in 0 .. Len(Top.cmd) - 1 :
       kids' = kids \o [i \in 1 .. forked |-> ParallelChild]
  /\ sh' = SetTop(sh, [Top EXCEPT !.st = "wait", !.left = Len(Top.cmd) - 1])

Next ==
  \/ ParseRedirect \/ ParseCommand \/ ForkProgram \/ Wait \/ WaitDone
  \/ Simple \/ Cp \/ RepeatStart \/ Repeat \/ Parallel \/ Exit
  \/ \E line \in Lines : ReadLine(line)
  \/ EndOfFile
  \/ \E k \in DOMAIN kids : KidExits(k)

Spec == Init /\ [][Next]_vars

-----------------------------------------------------------------------------
(* Properties                                                               *)

\* Redirections change the streams of programs, never those of the shell.
StdStreamsKept == \A d \in Std : sh.fds[d] = Tty[d]

\* Back at the prompt only the standard streams are open and what four paths of sh.c keep
\* for good: an earlier redirection of a line with one that fails, the redirections of a
\* line without a command, the source of a cp whose destination cannot be opened, and the
\* duplicates of a repeat that cannot make all three.
NoDescriptorLeft ==
  sh.pc = "prompt" => Fds \ Free(sh.fds) = Std \cup sh.kept

\* A program finds its streams redirected as the line says, the last redirection of a
\* stream winning, unless an earlier redirection of the line goes to the descriptor that
\* one was opened at; besides, it has the descriptors the line names and what the shell
\* keeps.  Under repeat and parallel it also inherits those of the outer line.
ProgramStreams ==
  \A k \in DOMAIN kids :
    /\ \A d \in DOMAIN kids[k].want : kids[k].fds[d] = kids[k].want[d]
    /\ \A d \in Fds \ Std : kids[k].fds[d] # None => d \in kids[k].may

\* Every child has been waited for when the shell prompts again, also when some
\* fork() of parallel has failed.
NoZombies == sh.pc = "prompt" => kids = <<>>
=============================================================================
