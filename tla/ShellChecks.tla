----------------------------- MODULE ShellChecks -----------------------------
(***************************************************************************)
(* The self-tests of the shell (user/bin/sh.c, the check command): a row of *)
(* system calls, each of which may fail, with the labels the C code jumps   *)
(* to when one does.                                                        *)
(*                                                                          *)
(* A step is <<what, fail>>: what is the call or the comparison made, fail  *)
(* the label to go to.  "ret" returns at once.  A call acquires or releases *)
(* what it names: a descriptor, a mapping, the temporary file, the break or *)
(* a block of memory.                                                       *)
(***************************************************************************)
EXTENDS Integers, Sequences, FiniteSets

VARIABLES run,         \* queue of tests, errors counted, results
          t            \* the test in progress

vars == <<run, t>>

\* A test is its calls and what is done behind its labels, in order; a test
\* jumps into that list.  "absent" is check_exists(), which fails when the file
\* is there; "open nonexistent" fails when the open succeeds; "warn munmap" sets
\* error and goes on.
chk_priv ==
  [calls |-> << <<"absent", "ret">>, <<"create", "ret">>, <<"write", "close">>, <<"mmap", "close">>,
                <<"verify", "unmap">>, <<"verify", "unmap">>, <<"lseek", "unmap">>, <<"read", "unmap">>,
                <<"verify", "unmap">> >>,
   cleanup |-> <<"unmap", "close", "unlink">>]

chk_null ==
  [calls |-> << <<"open", "ret">>, <<"write", "close">>, <<"read", "close">> >>,
   cleanup |-> <<"close">>]

ZeroSwapped ==
  [calls |-> << <<"open", "ret">>, <<"read", "close">>, <<"verify", "close">>, <<"mmap", "close">>,
                <<"verify", "unmap">>, <<"verify", "unmap">> >>,
   cleanup |-> <<"close", "unmap">>]

chk_zero ==
  [calls |-> << <<"open", "ret">>, <<"read", "close">>, <<"verify", "close">>, <<"mmap", "close">>,
                <<"verify", "unmap">>, <<"verify", "unmap">> >>,
   cleanup |-> <<"unmap", "close">>]

chk_malloc ==
  [calls |-> << <<"malloc", "ret">>, <<"verify", "free">> >>, cleanup |-> <<"free">>]

chk_sbrk ==
  [calls |-> << <<"sbrk alloc", "ret">>, <<"verify", "ret">>, <<"sbrk dealloc", "ret">>, <<"compare", "ret">> >>,
   cleanup |-> <<>>]

chk_wrnoent ==
  [calls |-> << <<"absent", "ret">>, <<"create", "ret">>, <<"unlink", "close">>, <<"open nonexistent", "close">>,
                <<"write", "close">>, <<"lseek", "close">>, <<"read", "close">>, <<"verify", "close">> >>,
   cleanup |-> <<"close">>]

chk_unlink ==
  [calls |-> << <<"absent", "ret">>, <<"create", "ret">>, <<"unlink", "close">>, <<"open nonexistent", "close">> >>,
   cleanup |-> <<"close">>]

chk_sparse ==
  [calls |-> << <<"absent", "ret">>, <<"create", "ret">>, <<"lseek", "close">>, <<"write", "close">>,
                <<"lseek", "close">>, <<"read", "close">>, <<"verify", "close">>, <<"mmap", "close">>,
                <<"warn munmap", "go on">>, <<"lseek", "close">>, <<"read", "close">>, <<"verify", "close">> >>,
   cleanup |-> <<"close", "unlink">>]

check_cmds ==
  [null |-> chk_null, sbrk |-> chk_sbrk, sparse |-> chk_sparse, unlink |-> chk_unlink,
   wrnoent |-> chk_wrnoent, zero |-> chk_zero, priv |-> chk_priv, malloc |-> chk_malloc]

Tests == DOMAIN check_cmds
Calls == check_cmds[t.test].calls
Cleanup == check_cmds[t.test].cleanup

Acquires(what) ==
  CASE what = "open" -> {"fd"} [] what = "create" -> {"fd", "file"} [] what = "mmap" -> {"map"}
    [] what = "sbrk alloc" -> {"brk"} [] what = "malloc" -> {"mem"} [] OTHER -> {}
Releases(what) ==
  CASE what = "close" -> {"fd"} [] what = "unlink" -> {"file"}
    [] what \in {"unmap", "warn munmap"} -> {"map"}
    [] what = "sbrk dealloc" -> {"brk"} [] what = "free" -> {"mem"} [] OTHER -> {}

Start(test) ==
  [test |-> test, pc |-> 1, label |-> "", owns |-> {}, error |-> 0, failed |-> {}]
Idle == [test |-> "none", pc |-> 0, label |-> "", owns |-> {}, error |-> 0, failed |-> {}]

\* "check all", or the tests named, among which may be a name that is unknown.
Init ==
  /\ \/ run = [queue |-> <<"null", "sbrk", "sparse", "unlink", "wrnoent", "zero", "priv", "malloc">>, errors |-> 0]
     \/ \E test \in Tests : \E queue \in {<<test>>, <<"unknown", test>>} :
          run = [queue |-> queue, errors |-> 0]
  /\ t = Idle

CheckRunOne ==
  /\ t = Idle /\ run.queue # <<>> /\ Head(run.queue) \in Tests
  /\ t' = Start(Head(run.queue))
  /\ run' = [run EXCEPT !.queue = Tail(@)]

CheckUnknown ==
  /\ t = Idle /\ run.queue # <<>> /\ Head(run.queue) \notin Tests
  /\ run' = [run EXCEPT !.queue = Tail(@), !.errors = @ + 1]
  /\ UNCHANGED t

InBody == t.label = "" /\ t.test # "none" /\ t.pc <= Len(Calls)
What == Calls[t.pc][1]
Fail == Calls[t.pc][2]

CallSucceeds ==
  /\ InBody
  /\ t' = [t EXCEPT !.pc = @ + 1, !.owns = (@ \ Releases(What)) \cup Acquires(What)]
  /\ UNCHANGED run

\* The open that should have failed leaves a second descriptor, nfd.
CallFails ==
  /\ InBody
  /\ t' = [t EXCEPT !.error = 1, !.failed = @ \cup {What},
                    !.owns = IF What = "open nonexistent" THEN @ \cup {"nfd"} ELSE @,
                    !.pc = @ + 1,
                    !.label = IF Fail = "go on" THEN "" ELSE Fail]
  /\ UNCHANGED run

\* The end of the body sets error to 0 and falls into the first label.
BodyEnds ==
  /\ t.test # "none" /\ t.label = "" /\ t.pc > Len(Calls)
  /\ t' = [t EXCEPT !.error = 0, !.label = IF Cleanup = <<>> THEN "ret" ELSE Head(Cleanup)]
  /\ UNCHANGED run

NextLabel(label) ==
  LET i == CHOOSE k \in DOMAIN Cleanup : Cleanup[k] = label
  IN  IF i < Len(Cleanup) THEN Cleanup[i + 1] ELSE "ret"

\* A call behind a label may fail too: it sets error and the next one is made.
CleanupStep ==
  /\ t.label \notin {"", "ret"}
  /\ \E ok \in IF t.label = "free" THEN {TRUE} ELSE BOOLEAN :
       t' = [t EXCEPT !.label = NextLabel(t.label),
                      !.owns = IF ok THEN @ \ Releases(t.label) ELSE @,
                      !.failed = IF ok THEN @ ELSE @ \cup {t.label},
                      !.error = IF ok THEN @ ELSE 1]
  /\ UNCHANGED run

Return ==
  /\ t.label = "ret"
  /\ t' = Idle
  /\ run' = [run EXCEPT !.errors = @ + t.error]

Next == CheckRunOne \/ CheckUnknown \/ CallSucceeds \/ CallFails \/ BodyEnds \/ CleanupStep \/ Return

Spec == Init /\ [][Next]_vars

-----------------------------------------------------------------------------

\* A test gives back what it took, whatever call fails: only what a failed
\* close, munmap, unlink or sbrk could not give back is left, the break when the
\* memory does not hold what was written, and the descriptor of a file that
\* should not have opened.
GivesBack ==
  t.label = "ret" =>
    /\ "fd" \in t.owns => "close" \in t.failed
    /\ "map" \in t.owns => {"unmap", "warn munmap"} \cap t.failed # {}
    /\ "file" \in t.owns => "unlink" \in t.failed
    /\ "brk" \in t.owns => {"verify", "sbrk dealloc"} \cap t.failed # {}
    /\ "nfd" \in t.owns => "open nonexistent" \in t.failed
    /\ "mem" \notin t.owns

\* A test says FAILED exactly when something failed in it, but for the munmap
\* of chk_sparse, whose error the calls behind it overwrite.
VerdictHonest ==
  t.label = "ret" => (t.error = 0 <=> t.failed \subseteq {"warn munmap"})
=============================================================================
