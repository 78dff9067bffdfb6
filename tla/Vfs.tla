-------------------------------- MODULE Vfs --------------------------------
(***************************************************************************)
(* Names, inodes and vnodes: the system calls of kernel/fs/vfs_syscall.c   *)
(* and open.c that walk path names, on the path resolution of namev.c, the *)
(* vnode references of vnode.c and the file system of ramfs/ramfs.c.       *)
(*                                                                         *)
(* Ramfs never blocks and kernel threads are not preempted, so a system    *)
(* call is one step.  It is written the way the code is: every function is *)
(* an operator from the state of the file system to the next one, with the *)
(* error it returns and the vnode it hands out.  A vnode is named by its   *)
(* inode number, since vget keeps one vnode for each number.               *)
(***************************************************************************)
EXTENDS Integers, Sequences, FiniteSets, FiniteSetsExt, Functions

CONSTANTS
    RAMFS_MAX_FILES,    \* size of the inode table
    RAMFS_MAX_DIRENT,   \* slots of a directory
    Path,               \* the path names programs use, see below
    Garbage,            \* what an uninitialised vnode pointer may hold
    MaxRefs,            \* bound on the references to vnodes
    MaxOpen,            \* bound on the files open at a time
    MaxStray            \* bound on the puts of vnodes nobody took

Ino  == 0 .. RAMFS_MAX_FILES - 1
Slot == 1 .. RAMFS_MAX_DIRENT
Root == 0
NULL == -1
Wild == -2              \* a pointer to no vnode at all

(* A path: where it starts ("/", the working directory, or "../"), its      *)
(* directories, and its last component, "" after a trailing slash.  "self"  *)
(* are the paths "." and "..", which the code treats apart.                 *)
IsPath(p) ==
    /\ p.base \in {"root", "cwd", "up", "self"}
    /\ p.dirs \in Seq(STRING) /\ p.name \in STRING
    /\ p.base = "self" => p.dirs = <<>> /\ p.name \in {".", ".."}

ASSUME ConstantsOK ==
    /\ RAMFS_MAX_FILES \in Nat \ {0} /\ RAMFS_MAX_DIRENT \in Nat \ 0..1
    /\ \A p \in Path : IsPath(p)
    /\ NULL \in Garbage /\ Garbage \subseteq Ino \cup {NULL, Wild}
    /\ MaxRefs \in Nat /\ MaxOpen \in Nat /\ MaxStray \in Nat

VARIABLES
    fs,         \* inode table, vn_refcount of each vnode (0: none), and fault
    cwd,        \* p_cwd of the process
    opened,     \* number of file objects on each vnode
    down,       \* the file system has been shut down
    stray       \* how often do_open put a vnode that it never took, for the properties

vars == <<fs, cwd, opened, down, stray>>

FreeInode == [type |-> "free", rf_linkcount |-> 0, ent |-> <<>>]
NoEntry == [rd_ino |-> 0, rd_name |-> ""]

(* A new directory holds "." and "..".  A slot is empty when its name is.   *)
NewDir(i, parent) ==
    [k \in Slot |-> CASE k = 1 -> [rd_ino |-> i, rd_name |-> "."]
                      [] k = 2 -> [rd_ino |-> parent, rd_name |-> ".."]
                      [] OTHER -> NoEntry]

(* ramfs_mount has made the root directory and fs_root and p_cwd refer to   *)
(* its vnode, which counts as one link.                                     *)
Init ==
    /\ fs = [inode |-> [i \in Ino |->
                IF i = Root THEN [type |-> "dir", rf_linkcount |-> 2, ent |-> NewDir(0, 0)]
                            ELSE FreeInode],
             vn_refcount |-> [i \in Ino |-> IF i = Root THEN 2 ELSE 0],
             fault |-> "none"]
    /\ cwd = Root
    /\ opened = [i \in Ino |-> 0]
    /\ down = FALSE
    /\ stray = [i \in Ino |-> 0]

-----------------------------------------------------------------------------
(* What a function returns: the state, its error and a vnode.               *)
Ret(s, err, v) == [s |-> s, err |-> err, vn |-> v]

(* A KASSERT fails or a NULL is read ("panic"), or a vnode is used that     *)
(* vput has freed ("stale").  The machine stops there.                      *)
Fault(s, why) == IF s.fault = "none" THEN [s EXCEPT !.fault = why] ELSE s
Stopped(s) == s.fault # "none"
Use(s, v) == IF v \notin Ino THEN Fault(s, "panic")
             ELSE IF s.vn_refcount[v] = 0 THEN Fault(s, "stale") ELSE s

(* A local variable; the rest of a function unless the machine has stopped; *)
(* the rest of a function that returns early on an error.                   *)
With(x, Rest(_)) == Rest(x)
Live(s, Rest(_)) == IF Stopped(s) THEN s ELSE Rest(s)
Then(r, Rest(_)) == IF Stopped(r.s) \/ r.err # "ok" THEN r ELSE Rest(r)

-----------------------------------------------------------------------------
(* vnode.c *)
vref(s, v) == Live(Use(s, v), LAMBDA u : [u EXCEPT !.vn_refcount[v] = @ + 1])

(* A vnode that is not in use is read in: ramfs_read_vnode asserts that     *)
(* there is an inode and counts the vnode as a link of it.                  *)
vget(s, i) ==
    IF s.vn_refcount[i] > 0 THEN vref(s, i)
    ELSE IF s.inode[i].type = "free" THEN Fault(s, "panic")
    ELSE [s EXCEPT !.vn_refcount[i] = 1, !.inode[i].rf_linkcount = @ + 1]

(* The last reference takes the vnode away, and ramfs_delete_vnode the      *)
(* inode when no link is left.  A vnode of ramfs has no resident pages.     *)
vput(s, v) ==
    Live(Use(s, v), LAMBDA u :
        IF u.vn_refcount[v] > 1 THEN [u EXCEPT !.vn_refcount[v] = @ - 1]
        ELSE [u EXCEPT !.vn_refcount[v] = 0,
                       !.inode[v] = IF @.rf_linkcount = 1 THEN FreeInode
                                    ELSE [@ EXCEPT !.rf_linkcount = @ - 1]])

-----------------------------------------------------------------------------
(* ramfs.c.  The first slot that bears a name; "" finds an empty one.       *)
SlotsOf(s, dir, name) == {k \in Slot : s.inode[dir].ent[k].rd_name = name}

FirstOf(s, dir, slots) ==
    IF slots = {} THEN Ret(s, "ENOENT", NULL)
    ELSE With(s.inode[dir].ent[Min(slots)].rd_ino, LAMBDA i : Ret(vget(s, i), "ok", i))

(* Mutant: the loop over the directory ends one slot early.                 *)
LookupMissesLast(s, dir, name) ==
    FirstOf(s, dir, SlotsOf(s, dir, name) \ {RAMFS_MAX_DIRENT})

ramfs_lookup(s, dir, name) == FirstOf(s, dir, SlotsOf(s, dir, name))

(* ramfs_create, ramfs_mknod, ramfs_mkdir and ramfs_link enter inode i      *)
(* under a name that must be new, in the first slot that is empty.          *)
Enter(s, dir, name, i) ==
    IF Stopped(s) THEN Ret(s, "ok", NULL)
    ELSE IF ramfs_lookup(s, dir, name).err = "ok" THEN Ret(Fault(s, "panic"), "ok", NULL)
    ELSE IF SlotsOf(s, dir, "") = {} \/ i = NULL THEN Ret(s, "ENOSPC", NULL)
    ELSE Ret([s EXCEPT !.inode[dir].ent[Min(SlotsOf(s, dir, ""))] =
                          [rd_ino |-> i, rd_name |-> name]], "ok", i)

ramfs_alloc_inode(s) ==
    LET free == {i \in Ino : s.inode[i].type = "free"} IN
    IF free = {} THEN NULL ELSE Min(free)

(* A new inode; only ramfs_create returns its vnode.                        *)
ramfs_make(s, dir, name, type) ==
    Then(Enter(s, dir, name, ramfs_alloc_inode(s)), LAMBDA r :
    With([r.s EXCEPT !.inode[r.vn] =
            [type |-> type, rf_linkcount |-> 1,
             ent |-> IF type = "dir" THEN NewDir(r.vn, dir) ELSE <<>>]], LAMBDA made :
        Ret(IF type = "data" THEN vget(made, r.vn) ELSE made, "ok", r.vn)))


ramfs_link(s, old, dir, name) ==
    Then(Enter(s, dir, name, old), LAMBDA r :
        Ret([r.s EXCEPT !.inode[old].rf_linkcount = @ + 1], "ok", NULL))

(* Mutant: the link count stays when a name goes.                           *)
RemoveKeepsCount(s, dir, name, v) ==
    vput([s EXCEPT !.inode[dir].ent[Min(SlotsOf(s, dir, name))].rd_name = ""], v)

(* The name leaves the directory, the inode number stays in the slot.       *)
RemoveEntry(s, dir, name, v) ==
    vput([s EXCEPT !.inode[dir].ent[Min(SlotsOf(s, dir, name))].rd_name = "",
                   !.inode[v].rf_linkcount = @ - 1], v)

ramfs_unlink(s, dir, name) ==
    Live(s, LAMBDA u : With(ramfs_lookup(u, dir, name), LAMBDA r :
        IF r.err # "ok" THEN Fault(u, "panic")
        ELSE IF r.s.inode[r.vn].type = "dir" THEN Fault(u, "panic")
        ELSE RemoveEntry(r.s, dir, name, r.vn)))

ramfs_rmdir(s, dir, name) ==
    IF Stopped(s) THEN Ret(s, "ok", NULL)
    ELSE Then(ramfs_lookup(s, dir, name), LAMBDA r :
        IF r.s.inode[r.vn].type # "dir" THEN Ret(vput(r.s, r.vn), "ENOTDIR", NULL)
        ELSE IF \E k \in Slot : r.s.inode[r.vn].ent[k].rd_name \notin {"", ".", ".."}
             THEN Ret(vput(r.s, r.vn), "ENOTEMPTY", NULL)
        ELSE Ret(RemoveEntry(r.s, dir, name, r.vn), "ok", NULL))

-----------------------------------------------------------------------------
(* namev.c *)
lookup(s, dir, name) ==
    With(Use(s, dir), LAMBDA u :
        IF Stopped(u) THEN Ret(u, "ok", NULL)
        ELSE IF u.inode[dir].type # "dir" THEN Ret(u, "ENOTDIR", NULL)
        ELSE ramfs_lookup(u, dir, name))

(* One directory of the path: its vnode is put before it is looked in.      *)
Descend(r, name) ==
    Then(r, LAMBDA d :
    Then(lookup(d.s, d.vn, name), LAMBDA n :
        Ret(vput(n.s, n.vn), "ok", n.vn)))

(* All directories of the path but the last.                                *)
Walk(d, dirs) ==
    LET at[n \in 0 .. Len(dirs) - 1] ==
            IF n = 0 THEN d ELSE Descend(at[n - 1], dirs[n])
    IN  at[Len(dirs) - 1]

(* The directory that holds the last component, with a reference.  The      *)
(* reference that "../" takes on the parent is not given back.  The paths   *)
(* "." and ".." are looked up in the root directory.                        *)
dir_namev(s, dir, p) ==
    IF p.base = "self" THEN lookup(s, Root, p.name)
    ELSE Then(CASE p.base = "root" -> Ret(s, "ok", Root)
                [] p.base = "cwd"  -> Ret(s, "ok", dir)
                [] p.base = "up"   -> lookup(s, dir, ".."), LAMBDA d :
         IF p.dirs = <<>> THEN Ret(vref(d.s, d.vn), "ok", d.vn)
         ELSE Then(Walk(d, p.dirs), LAMBDA n :
                   lookup(n.s, n.vn, p.dirs[Len(p.dirs)])))

(* open_namev without O_CREAT.  The vnode of the directory is put whether   *)
(* or not dir_namev succeeded, and before it is looked in.                  *)
open_namev(s, dir, p) ==
    IF p.base = "self" THEN lookup(s, dir, p.name)
    ELSE With(dir_namev(s, dir, p), LAMBDA r :
              lookup(vput(r.s, r.vn), r.vn, p.name))

(* open_namev with O_CREAT, which always calls create and takes a second    *)
(* reference on the new vnode.  Where it fails it may leave the result, and *)
(* so what was in the caller's variable before, as it was.                  *)
create_namev(s, dir, p, res) ==
    With(dir_namev(s, dir, p), LAMBDA r :
    IF r.err # "ok" THEN Ret(r.s, r.err, res)
    ELSE With(Use(vput(r.s, r.vn), r.vn), LAMBDA u :
         IF Stopped(u) THEN Ret(u, "ok", NULL)
         ELSE IF u.inode[r.vn].type # "dir" THEN Ret(u, "ENOTDIR", NULL)
         ELSE With(ramfs_make(u, r.vn, p.name, "data"), LAMBDA c :
              With(IF c.err = "ok" THEN c.vn ELSE res, LAMBDA vn :
                   Ret(vref(c.s, vn), c.err, vn)))))

-----------------------------------------------------------------------------
(* vfs_syscall.c and open.c *)

(* The calls look the last name up in the directory that dir_namev found,   *)
(* and most put the directory at once, although they use it afterwards.     *)
LookupPut(r, name) ==
    With(lookup(r.s, r.vn, name), LAMBDA found :
        Ret(vput(found.s, r.vn), found.err, found.vn))

(* Mutant: the reference on the new vnode is given back.                    *)
MakePuts(s, dir, p, type) ==
    Then(dir_namev(s, dir, p), LAMBDA r :
    With(LookupPut(r, p.name), LAMBDA found :
        IF found.err = "ok" THEN Ret(vput(found.s, found.vn), "EEXIST", NULL)
        ELSE IF found.err # "ENOENT" THEN found
        ELSE Then(ramfs_make(Use(found.s, r.vn), r.vn, p.name, type), LAMBDA made :
             With(lookup(made.s, r.vn, p.name), LAMBDA n :
                  Ret(vput(n.s, n.vn), "ok", NULL)))))

(* do_mknod and do_mkdir.  The vnode of the new name is looked up and never *)
(* put.                                                                     *)
Make(s, dir, p, type) ==
    Then(dir_namev(s, dir, p), LAMBDA r :
    With(LookupPut(r, p.name), LAMBDA found :
        IF found.err = "ok" THEN Ret(vput(found.s, found.vn), "EEXIST", NULL)
        ELSE IF found.err # "ENOENT" THEN found
        ELSE Then(ramfs_make(Use(found.s, r.vn), r.vn, p.name, type), LAMBDA made :
                  Ret(lookup(made.s, r.vn, p.name).s, "ok", NULL))))

do_mkdir(s, dir, p) == Make(s, dir, p, "dir")

(* do_mknod first writes a zero through an uninitialised pointer.           *)
do_mknod(s, dir, p, lucky) ==
    IF lucky THEN Make(s, dir, p, "chr") ELSE Ret(Fault(s, "panic"), "ok", NULL)

(* "." and ".." as last components are refused with the directory still     *)
(* referenced.                                                              *)
do_rmdir(s, dir, p) ==
    LET refused == IF p.name = "." THEN "EINVAL" ELSE "ENOTEMPTY" IN
    IF p.base = "self" THEN Ret(s, refused, NULL)
    ELSE Then(dir_namev(s, dir, p), LAMBDA r :
         IF p.name \in {".", ".."} THEN Ret(r.s, refused, NULL)
         ELSE Then(LookupPut(r, p.name), LAMBDA found :
              IF found.s.inode[found.vn].type # "dir"
              THEN Ret(vput(found.s, found.vn), "ENOTDIR", NULL)
              ELSE ramfs_rmdir(Use(vput(found.s, found.vn), r.vn), r.vn, p.name)))

(* The one call that puts the directory last.                               *)
do_unlink(s, dir, p) ==
    Then(dir_namev(s, dir, p), LAMBDA r :
    With(lookup(r.s, r.vn, p.name), LAMBDA found :
        IF Stopped(found.s) THEN found
        ELSE IF found.err # "ok" THEN Ret(vput(found.s, r.vn), found.err, NULL)
        ELSE IF found.s.inode[found.vn].type = "dir"
             THEN Ret(vput(vput(found.s, r.vn), found.vn), "EISDIR", NULL)
        ELSE Ret(vput(vput(ramfs_unlink(found.s, r.vn, p.name), found.vn), r.vn),
                 "ok", NULL)))

(* The old file is put, too, before it is used; it may be a directory.  The *)
(* new name may be looked for in a file, whose vnode has no link operation: *)
(* a call through NULL.                                                     *)
do_link(s, dir, from, to) ==
    Then(open_namev(s, dir, from), LAMBDA old :
    Then(dir_namev(vput(old.s, old.vn), dir, to), LAMBDA r :
    With(LookupPut(r, to.name), LAMBDA found :
        IF found.err = "ok" THEN Ret(vput(found.s, found.vn), "EEXIST", NULL)
        ELSE IF found.err = "ENOTDIR" THEN Ret(Fault(found.s, "panic"), "ok", NULL)
        ELSE ramfs_link(Use(Use(found.s, r.vn), old.vn), old.vn, r.vn, to.name))))

(* What do_link returned is not looked at.                                  *)
do_rename(s, dir, from, to) == do_unlink(do_link(s, dir, from, to).s, dir, from)

(* Mutant: the old working directory is put before the new one is known to  *)
(* be a directory.                                                          *)
ChdirPutsFirst(s, dir, p) ==
    Then(dir_namev(s, dir, p), LAMBDA r :
    Then(LookupPut(r, p.name), LAMBDA found :
        IF found.s.inode[found.vn].type # "dir"
        THEN Ret(vput(vput(found.s, dir), found.vn), "ENOTDIR", NULL)
        ELSE Ret(vput(found.s, dir), "ok", found.vn)))

(* The vnode it returns is the new working directory.                       *)
do_chdir(s, dir, p) ==
    IF p.base = "self" /\ p.name = "." THEN Ret(s, "ok", dir)
    ELSE IF p.base = "self"
         THEN Then(lookup(s, dir, p.name), LAMBDA found :
                   Ret(vput(found.s, dir), "ok", found.vn))
    ELSE Then(dir_namev(s, dir, p), LAMBDA r :
         Then(LookupPut(r, p.name), LAMBDA found :
              IF found.s.inode[found.vn].type # "dir"
              THEN Ret(vput(found.s, found.vn), "ENOTDIR", NULL)
              ELSE Ret(vput(found.s, dir), "ok", found.vn)))

(* do_open starts with an uninitialised result, which it puts when          *)
(* open_namev has failed.  That may be the vnode an earlier do_open left at *)
(* the same place on the stack.                                             *)
do_open(s, dir, p, flag, garbage) ==
    With(IF flag = "creat" THEN create_namev(s, dir, p, garbage)
                           ELSE open_namev(s, dir, p), LAMBDA r :
        IF Stopped(r.s) THEN r
        ELSE IF r.err # "ok"
             THEN Ret(IF r.vn = NULL THEN r.s ELSE vput(r.s, r.vn), r.err, NULL)
        ELSE IF r.s.inode[r.vn].type = "dir" /\ flag = "write"
             THEN Ret(vput(r.s, r.vn), "EISDIR", NULL)
        ELSE r)

do_stat(s, dir, p) ==
    Then(open_namev(s, dir, p), LAMBDA r : Ret(vput(r.s, r.vn), "ok", NULL))

-----------------------------------------------------------------------------
(* Somebody who owns a vnode, an open file, the working directory or        *)
(* fs_root, has a pointer to one that was freed.  What the next use of it   *)
(* does is undefined, and the model ends.                                   *)
Owns(v) == opened[v] + (IF cwd = v THEN 1 ELSE 0) + (IF v = Root THEN 1 ELSE 0)
Dangling == ~down /\ \E v \in Ino : fs.vn_refcount[v] = 0 /\ Owns(v) > 0

(* A system call takes the file system from fs to s, or stops the machine.  *)
Step(s) ==
    /\ ~down /\ ~Stopped(fs) /\ ~Dangling
    /\ FoldFunction(+, 0, s.vn_refcount) <= MaxRefs
    /\ fs' = IF Stopped(s) THEN [fs EXCEPT !.fault = s.fault] ELSE s
    /\ UNCHANGED down

Call(s) == Step(s) /\ UNCHANGED <<cwd, opened, stray>>

Mknod  == \E p \in Path, lucky \in BOOLEAN : Call(do_mknod(fs, cwd, p, lucky).s)
Mkdir  == \E p \in Path : Call(do_mkdir(fs, cwd, p).s)
Rmdir  == \E p \in Path : Call(do_rmdir(fs, cwd, p).s)
Unlink == \E p \in Path : Call(do_unlink(fs, cwd, p).s)
Link   == \E p, q \in Path : Call(do_link(fs, cwd, p, q).s)
Rename == \E p, q \in Path : Call(do_rename(fs, cwd, p, q).s)
Stat   == \E p \in Path : Call(do_stat(fs, cwd, p).s)

Chdir ==
    \E p \in Path :
        With(do_chdir(fs, cwd, p), LAMBDA r :
            /\ Step(r.s)
            /\ cwd' = IF Stopped(r.s) \/ r.err # "ok" THEN cwd ELSE r.vn
            /\ UNCHANGED <<opened, stray>>)

OpenFiles == FoldFunction(+, 0, opened)

(* The vnodes that do_open puts without having taken them: what the result  *)
(* held before, when dir_namev fails and open_namev returns without         *)
(* setting it.                                                              *)
PutUnset(s, dir, p, flag, garbage) ==
    IF flag = "creat" /\ dir_namev(s, dir, p).err # "ok" THEN {garbage} \cap Ino ELSE {}

Strays == FoldFunction(+, 0, stray)

(* What is left on the stack is no pointer, or one to a vnode, which may be *)
(* in use or, like Wild, not be one any more; only O_CREAT uses it.         *)
(* Creating "./x" and "../x" uses a name that open_namev never set; those   *)
(* calls are left out.                                                      *)
Open ==
    \E p \in Path, flag \in {"read", "write", "creat"}, garbage \in Garbage :
        /\ OpenFiles < MaxOpen
        /\ flag = "creat" => p.base \in {"root", "cwd"}
        /\ flag = "creat" \/ garbage = NULL
        /\ garbage \in Ino => fs.vn_refcount[garbage] > 0
        /\ With(PutUnset(fs, cwd, p, flag, garbage), LAMBDA unset :
            /\ unset # {} => Strays < MaxStray
            /\ stray' = [v \in Ino |-> stray[v] + (IF v \in unset THEN 1 ELSE 0)])
        /\ With(do_open(fs, cwd, p, flag, garbage), LAMBDA r :
            /\ Step(r.s)
            /\ opened' = IF Stopped(r.s) \/ r.err # "ok" THEN opened
                         ELSE [opened EXCEPT ![r.vn] = @ + 1])
        /\ UNCHANGED cwd

(* The last fput of a file object.                                          *)
Close ==
    \E v \in Ino :
        /\ opened[v] > 0
        /\ Step(vput(fs, v))
        /\ opened' = [opened EXCEPT ![v] = @ - 1]
        /\ UNCHANGED <<cwd, stray>>

vfs_is_in_use(s) == s.vn_refcount[Root] > 1 \/ \E i \in Ino \ {Root} : s.vn_refcount[i] > 0

(* The root is put and what is left in the inode table freed.               *)
ramfs_umount(s) == [vput(s, Root) EXCEPT !.inode = [i \in Ino |-> FreeInode]]

(* The files are closed; the idle process puts its working directory, and   *)
(* vfs_shutdown panics when it finds a vnode in use.                        *)
vfs_shutdown ==
    /\ ~down /\ ~Stopped(fs) /\ ~Dangling /\ \A v \in Ino : opened[v] = 0
    /\ LET s == vput(fs, cwd) IN
       fs' = IF Stopped(s) THEN s
             ELSE IF vfs_is_in_use(s) THEN Fault(s, "busy") ELSE ramfs_umount(s)
    /\ down' = TRUE
    /\ UNCHANGED <<cwd, opened, stray>>

Next == \/ Mknod \/ Mkdir \/ Rmdir \/ Unlink \/ Link \/ Rename \/ Stat \/ Chdir
        \/ Open \/ Close \/ vfs_shutdown

Spec == Init /\ [][Next]_vars

-----------------------------------------------------------------------------
(* Properties.                                                              *)

Dirs == {d \in Ino : fs.inode[d].type = "dir"}
Names(i) == {e \in Dirs \X Slot :
               /\ fs.inode[e[1]].ent[e[2]].rd_ino = i
               /\ fs.inode[e[1]].ent[e[2]].rd_name \notin {"", ".", ".."}}

(* No call of do_open has put a vnode that it never took.                   *)
NoStray == \A v \in Ino : stray[v] = 0

(* The link count of an inode is the number of its names, plus one for its  *)
(* vnode while that is in use, plus one for the root: no sequence of calls  *)
(* frees an inode that still has a name.  It may be larger only after       *)
(* do_open put a removed directory once too often, which takes the entries  *)
(* with it.                                                                 *)
LinkCounts ==
    \A i \in Ino : fs.inode[i].type # "free" =>
        LET links == Cardinality(Names(i)) + (IF fs.vn_refcount[i] > 0 THEN 1 ELSE 0)
                                           + (IF i = Root THEN 1 ELSE 0)
        IN  /\ fs.inode[i].rf_linkcount >= links
            /\ NoStray => fs.inode[i].rf_linkcount = links

(* Every entry leads to an inode, so that no lookup runs into the assertion *)
(* of ramfs_read_vnode, and no directory holds a name twice, so that what   *)
(* lookup finds is what the calls remove.  Only a ".." may lead to nothing, *)
(* when its directory was moved or removed and do_open put the removed      *)
(* parent once too often.                                                   *)
DirectoriesSound ==
    \A d \in Dirs, k \in Slot :
        LET e == fs.inode[d].ent[k] IN
        e.rd_name # "" =>
            /\ \/ fs.inode[e.rd_ino].type # "free"
               \/ e.rd_name = ".." /\ stray[e.rd_ino] > 0
            /\ \A l \in Slot : fs.inode[d].ent[l].rd_name = e.rd_name => k = l

(* No system call uses a vnode after the vput that freed it, although many  *)
(* put vnodes before they use them, and no open file, working directory or  *)
(* fs_root is left with one: the references that do_mkdir, do_mknod and     *)
(* open_namev leave behind keep every vnode in use, until a do_open that    *)
(* fails puts a vnode it never took.                                        *)
NoStaleVnode ==
    NoStray => fs.fault # "stale" /\ ~Dangling

(* The open files, the working directory and fs_root each own a reference,  *)
(* but for those that failing calls of do_open put in their place.          *)
RefsCover ==
    ~down => \A v \in Ino : fs.vn_refcount[v] + stray[v] >= Owns(v)

(* vfs_shutdown finds no vnode in use: once the processes are gone "there   *)
(* should be no live vnodes" (vfs.c:158-160).  do_mkdir and do_mknod keep a *)
(* reference on what they make, and the kernel makes /dev when it boots.    *)
ShutdownFindsNone == fs.fault # "busy"

(* Renaming leaves every file a name: do_rename is to link the new name,    *)
(* then to unlink the old one, and to return an error instead when it fails *)
(* (vfs_syscall.c:741-747).  The code unlinks whatever do_link returned.    *)
RenameKeepsFile ==
    [][Rename => \A i \in Ino : Names(i) # {} => Names(i)' # {}]_vars
=============================================================================
