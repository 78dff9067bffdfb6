-------------------------------- MODULE Exec --------------------------------
(* do_execve: binfmt_load of binfmt.c and the ELF loader _elf32_load of     *)
(* elf32.c, step by step, where every step that can fail may do so.  What   *)
(* the model keeps is what the loader acquires: the new address space, the  *)
(* descriptors and file references, the kernel buffers; and the address     *)
(* space the process runs in.  The vmmap functions are not implemented in   *)
(* this tree; they appear by how the loader uses them.                      *)
EXTENDS Integers, Sequences, FiniteSets

CONSTANTS
    Loaders,        \* the registered loaders, in the order they are tried
    ELF             \* the one that is _elf32_load; the others refuse the file

VARIABLE x

vars == <<x>>

-----------------------------------------------------------------------------
(* The steps of _elf32_load.  A step that fails goes to the label done.     *)
Check(op)   == <<op, "none">>
Kmalloc(b)  == <<"kmalloc", b>>

LoadProgram ==
    << Check("fget"), Check("ehdr"), Check("vmmap_create"), Kmalloc("pht"),
       Check("phtable"), Check("progsegs"), Check("phinterp") >>

LoadInterpreter ==
    << Check("lseek"), Kmalloc("interpname"), Check("read"), Check("open"),
       <<"kfree", "interpname">>, Check("fget_interp"), Check("ehdr_interp"),
       Kmalloc("interppht"), Check("phtable"), Check("phinterp_none"),
       Check("find_range"), Check("progsegs"), Kmalloc("auxv") >>

LoadStack ==
    << Check("argsize"), Kmalloc("argbuf"), Check("swap") >>

elf32_steps(interp) ==
    LoadProgram \o (IF interp THEN LoadInterpreter ELSE <<Kmalloc("auxv")>>) \o LoadStack

-----------------------------------------------------------------------------
Op  == IF x.todo = <<>> THEN "none" ELSE x.todo[1][1]
Buf == x.todo[1][2]

InLoader(op) == x.pc = "load" /\ Op = op

Go(s)   == x' = [s EXCEPT !.todo = Tail(@)]
Done(s, err) == x' = [s EXCEPT !.pc = "done", !.err = err]

(* Any of the checks, and any allocation, may end the load; only the header *)
(* checks and the program segments answer ENOEXEC.                          *)
FailStep ==
    /\ x.pc = "load"
    /\ Op \in {"ehdr", "ehdr_interp", "vmmap_create", "kmalloc", "phtable", "progsegs", "phinterp",
               "phinterp_none", "lseek", "read", "open", "find_range", "argsize"}
    /\ Op = "ehdr_interp" => x.interp = "data"
    /\ \E err \in {"error"} \cup IF Op \in {"ehdr", "ehdr_interp", "phtable", "progsegs", "read"}
                                 THEN {"ENOEXEC"} ELSE {} :
           Done(x, err)

(* do_read of an interpreter that is a directory keeps the reference it     *)
(* took.                                                                    *)
ReadDirectory ==
    /\ InLoader("ehdr_interp") /\ x.interp = "dir"
    /\ Done([x EXCEPT !.refs.interp = @ + 1], "error")

PassChecks ==
    /\ x.pc = "load"
    /\ Op \in {"ehdr", "phtable", "progsegs", "phinterp", "phinterp_none", "lseek", "read",
               "find_range", "argsize"}
    /\ Go(x)

PassInterpEhdr == InLoader("ehdr_interp") /\ x.interp = "data" /\ Go(x)

VmmapCreate == InLoader("vmmap_create") /\ Go([x EXCEPT !.map = "new"])

KmallocStep == InLoader("kmalloc") /\ Go([x EXCEPT !.bufs = @ \cup {Buf}])

KfreeStep == InLoader("kfree") /\ Go([x EXCEPT !.bufs = @ \ {Buf}])

Fget == InLoader("fget") /\ Go([x EXCEPT !.refs.file = @ + 1, !.file = TRUE])

OpenInterp ==
    /\ InLoader("open")
    /\ \E kind \in {"data", "dir"} :
         Go([x EXCEPT !.interp = kind, !.interpfd = TRUE, !.refs.interp = 1])

FgetInterp ==
    InLoader("fget_interp") /\ Go([x EXCEPT !.refs.interp = @ + 1, !.interpfile = TRUE])

(* The arguments are on the new stack; the process changes its address      *)
(* space and the old one takes the place of the new one in map.             *)
SwapMaps ==
    /\ InLoader("swap")
    /\ Done([x EXCEPT !.p_vmmap = x.map, !.map = x.p_vmmap, !.entered = TRUE], "ok")

CleanupKeepsInterp ==
    /\ x.pc = "done"
    /\ x' = [x EXCEPT
                !.pc = "loaded", !.destroyed = @ \cup ({x.map} \ {"none"}), !.map = "none",
                !.refs.file = @ - (IF x.file THEN 1 ELSE 0),
                !.refs.interp = @ - (IF x.interpfd THEN 1 ELSE 0),
                !.file = FALSE, !.interpfd = FALSE, !.interpfile = FALSE, !.bufs = {}]

(* What follows the label done.                                             *)
Cleanup ==
    /\ x.pc = "done"
    /\ x' = [x EXCEPT
                !.pc = "loaded",
                !.destroyed = @ \cup ({x.map} \ {"none"}),
                !.map = "none",
                !.refs.file = @ - (IF x.file THEN 1 ELSE 0),
                !.refs.interp = @ - (IF x.interpfd THEN 1 ELSE 0) - (IF x.interpfile THEN 1 ELSE 0),
                !.file = FALSE, !.interpfd = FALSE, !.interpfile = FALSE,
                !.bufs = {}]

-----------------------------------------------------------------------------
(* binfmt_load *)

BinfmtOpen ==
    /\ x.pc = "open"
    /\ \/ x' = [x EXCEPT !.pc = "end", !.err = "error"]
       \/ x' = [x EXCEPT !.pc = "kind", !.fd = TRUE, !.refs.file = 2]

(* A directory or a special file is refused; the reference is given back in *)
(* both cases.                                                              *)
BinfmtKind ==
    /\ x.pc = "kind"
    /\ \/ x' = [x EXCEPT !.pc = "close", !.err = "error", !.refs.file = @ - 1]
       \/ x' = [x EXCEPT !.pc = "try", !.refs.file = @ - 1]

(* The next loader is tried as long as they answer ENOEXEC.                 *)
BinfmtTry ==
    /\ x.pc = "try"
    /\ IF x.loader > Len(Loaders) THEN x' = [x EXCEPT !.pc = "close"]
       ELSE IF Loaders[x.loader] # ELF
            THEN x' = [x EXCEPT !.err = "ENOEXEC", !.loader = @ + 1]
       ELSE \E interp \in BOOLEAN :
              x' = [x EXCEPT !.pc = "load", !.todo = elf32_steps(interp)]

BinfmtAnswer ==
    /\ x.pc = "loaded"
    /\ x' = IF x.err = "ENOEXEC" THEN [x EXCEPT !.pc = "try", !.loader = @ + 1]
                                 ELSE [x EXCEPT !.pc = "close"]

BinfmtClose ==
    /\ x.pc = "close"
    /\ x' = [x EXCEPT !.pc = "end", !.fd = FALSE, !.refs.file = @ - 1]

-----------------------------------------------------------------------------
Init ==
    x = [pc |-> "open", loader |-> 1, todo |-> <<>>, err |-> "none",
         p_vmmap |-> "old", map |-> "none", destroyed |-> {}, entered |-> FALSE,
         bufs |-> {}, refs |-> [file |-> 0, interp |-> 0],
         fd |-> FALSE, interpfd |-> FALSE, file |-> FALSE, interpfile |-> FALSE,
         interp |-> "none"]

Next ==
    \/ FailStep \/ ReadDirectory \/ PassChecks \/ PassInterpEhdr \/ VmmapCreate
    \/ KmallocStep \/ KfreeStep \/ Fget \/ OpenInterp \/ FgetInterp \/ SwapMaps \/ Cleanup
    \/ BinfmtOpen \/ BinfmtKind \/ BinfmtTry \/ BinfmtAnswer \/ BinfmtClose

Spec == Init /\ [][Next]_vars

-----------------------------------------------------------------------------
(* execve is all or nothing: when it is over, the process runs in the new   *)
(* address space exactly if the call succeeded, the other one is destroyed  *)
(* if it ever existed, and the one in use never is.                         *)
AllOrNothing ==
    /\ x.p_vmmap \notin x.destroyed
    /\ x.pc = "end" =>
         /\ x.map = "none"
         /\ (x.err = "ok") = (x.p_vmmap = "new")
         /\ x.err = "ok" <=> "old" \in x.destroyed
         /\ x.entered = (x.err = "ok")

(* Whatever failed, the buffers, descriptors and file references the load   *)
(* acquired are given back; but for a reference to an interpreter that is a *)
(* directory, which do_read loses.                                          *)
AllReleased ==
    x.pc = "end" =>
        /\ x.bufs = {} /\ ~x.fd /\ ~x.interpfd
        /\ x.refs.file = 0
        /\ x.refs.interp = IF x.interp = "dir" THEN 1 ELSE 0

=============================================================================
