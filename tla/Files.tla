------------------------------- MODULE Files -------------------------------
(* Open files: the file_t objects of file.c, the descriptor table of the    *)
(* current process, and the calls of open.c and vfs_syscall.c that work on  *)
(* descriptors, down to ramfs_read, ramfs_write, ramfs_readdir and the      *)
(* special files.  A process has one thread and fork is not implemented, so *)
(* a call runs to its end before the next one starts.  Looking a path up is *)
(* the matter of module Vfs: here open_namev finds one of the vnodes or     *)
(* fails.                                                                   *)
EXTENDS Integers, Sequences, FiniteSets, FiniteSetsExt

CONSTANTS
    NFILES,         \* slots of p_files
    FileObj,        \* the file_t objects the allocator can hand out
    Vnode, Kind,    \* the vnodes, each "data", "dir", "chr" or "blk"
    PageSize,       \* size of a ramfs file
    DirSlots,       \* used slots of a directory of MaxDirent slots
    MaxDirent, DirentSize,
    Counts,         \* byte counts of read and write
    Offsets,        \* offsets of lseek
    Bytes,          \* what a write stores
    OFlags,         \* flags of open: an access mode, "rd", "wr", "rdwr" or "both",
                    \* and a subset of {"creat", "append", "trunc"}
    MaxRef, MaxPos  \* bounds on f_refcount and f_pos

VARIABLES
    k,      \* the kernel's state
    ret     \* the descriptor of the last call and the error it returned

files == <<k, ret>>

NULL == "null"
ENOTSUP == 95
Hole == "hole"

ASSUME FilesConstants ==
    /\ NFILES \in Nat /\ IsFiniteSet(FileObj) /\ NULL \notin FileObj \cup Vnode
    /\ Kind \in [Vnode -> {"data", "dir", "chr", "blk"}]
    /\ PageSize \in Nat /\ MaxDirent \in Nat /\ DirentSize \in Nat \ {0}
    /\ DirSlots \subseteq 0..MaxDirent - 1
    /\ Counts \subseteq Nat /\ Offsets \subseteq Int
    /\ OFlags \subseteq [acc : {"rd", "wr", "rdwr", "both"},
                        opts : SUBSET {"creat", "append", "trunc"}]

With(x, Rest(_)) == Rest(x)

FreeFile == [f_refcount |-> 0, f_pos |-> 0, f_mode |-> {}, f_vnode |-> NULL]

Stop(s, why) == [s EXCEPT !.fault = why]
Stopped(s)   == s.fault # "none"

Ret(s, err, val) == [s |-> s, err |-> err, val |-> val]
Halted(s, why)   == Ret(Stop(s, why), "none", 0)

-----------------------------------------------------------------------------
(* file.c *)

(* The assertions that fref and fput make about an object.                  *)
Sane(f) == f.f_pos >= -1

fref(s, f) ==
    IF ~Sane(s.file[f]) \/ (s.file[f].f_refcount # 0 /\ s.file[f].f_vnode = NULL)
    THEN Stop(s, "fref")
    ELSE [s EXCEPT !.file[f].f_refcount = @ + 1]

(* The last reference puts the vnode and frees the object.                  *)
fput(s, f) ==
    With(s.file[f], LAMBDA o :
        IF ~Sane(o) \/ o.f_refcount = 0 \/ (o.f_refcount # 1 /\ o.f_vnode = NULL)
        THEN Stop(s, "fput")
        ELSE IF o.f_refcount > 1 THEN [s EXCEPT !.file[f].f_refcount = @ - 1]
        ELSE [s EXCEPT !.file[f] = FreeFile,
                       !.vn_refcount = [v \in Vnode |-> IF v = o.f_vnode THEN @[v] - 1
                                                                          ELSE @[v]]])

Unused(s) == {f \in FileObj : s.file[f].f_refcount = 0}

-----------------------------------------------------------------------------
(* The checks with which most calls start.  They let the number NFILES      *)
(* through, whose slot is the field p_cwd of the process: the calls use a   *)
(* vnode for a file_t, or what fget returns for it, NULL.                   *)
ValidFd(s, fd) == fd \in 0..NFILES - 1 /\ s.p_files[fd] # NULL

FdError(s, fd) == IF fd = NFILES THEN Halted(s, "p_files[NFILES]") ELSE Ret(s, "EBADF", 0)

Checked(s, fd, Rest(_)) == IF ValidFd(s, fd) THEN Rest(s.p_files[fd]) ELSE FdError(s, fd)

EmptyFds(s) == {fd \in 0..NFILES - 1 : s.p_files[fd] = NULL}

Full(s) == EmptyFds(s) = {}

(* The lowest empty slot.  Where there is none the callers use -EMFILE as   *)
(* an index, which writes into the tail of the process's name.              *)
get_empty_fd(s) == CHOOSE fd \in EmptyFds(s) : \A e \in EmptyFds(s) : fd <= e

SetFd(s, fd, f) == [s EXCEPT !.p_files[fd] = f]

-----------------------------------------------------------------------------
(* open.c *)
(* The test for an odd value of at least three.                             *)
Refused(o) == o.acc = "both" \/ (o.acc = "wr" /\ o.opts # {})

(* The combinations the two switch statements list.                         *)
Listed(o) == "trunc" \notin o.opts /\ (o.acc = "rd" => "append" \notin o.opts)

Creates(o) == Listed(o) /\ "creat" \in o.opts

FileMode(o) ==
    IF ~Listed(o) THEN {}
    ELSE (IF o.acc = "wr" THEN {} ELSE {"read"})
           \cup (IF o.acc = "rd" THEN {} ELSE {"write"})
           \cup (o.opts \cap {"append"})

(* f is the zeroed object that fget(-1) takes from the allocator, v what    *)
(* open_namev finds, NULL where it fails.  On the error paths the slot is   *)
(* cleared and the new object stays allocated.                              *)
do_open(s, o, f, v) ==
    IF Refused(o) THEN Ret(s, "+EINVAL", 0)
    ELSE With(fref(s, f), LAMBDA t :
         IF v = NULL THEN Ret(t, "ENOENT", 0)
         ELSE IF Kind[v] = "dir" /\ o.acc \in {"wr", "rdwr"} /\ o.opts = {}
              THEN Ret(t, "EISDIR", 0)
         ELSE With([t EXCEPT !.vn_refcount[v] = @ + 1,
                             !.file[f].f_vnode = v,
                             !.file[f].f_mode = FileMode(o)], LAMBDA u :
              IF Full(s) THEN Ret(u, "EMFILE", 0)
              ELSE Ret(SetFd(u, get_empty_fd(s), f), "ok", get_empty_fd(s))))

-----------------------------------------------------------------------------
(* ramfs.c and the special files of vnode.c.  A read returns a count; a     *)
(* write the new contents too.                                              *)

ramfs_read(mem, offset, count) == Max({0, Min({count, Len(mem) - offset})})

WriteUnbounded(offset, count) == count

(* A count below zero is copied as a huge one.                              *)
ramfs_write_count(offset, count) == Min({count, PageSize - offset})

ramfs_write(mem, offset, byte, n) ==
    [i \in 1..Max({Len(mem), offset + n}) |->
        IF i > offset /\ i <= offset + n THEN byte
        ELSE IF i <= Len(mem) THEN mem[i] ELSE Hole]

(* The offset of the next used slot at or after offset, or the end.         *)
NextSlot(offset) ==
    Min({i \in DirSlots : i * DirentSize >= offset} \cup {MaxDirent}) * DirentSize

ramfs_readdir(offset) ==
    IF NextSlot(offset) >= MaxDirent * DirentSize THEN 0
    ELSE NextSlot(offset) + DirentSize - offset

(* A byte device, the terminal, answers with up to count bytes; a block     *)
(* device with -ENOTSUP.                                                    *)
ReadCount(s, v, offset, count, answer) ==
    CASE Kind[v] = "data" -> ramfs_read(s.mem[v], offset, count)
      [] Kind[v] = "chr"  -> Min({answer, count})
      [] Kind[v] = "blk"  -> -ENOTSUP

-----------------------------------------------------------------------------
(* vfs_syscall.c *)

(* Two of the error returns keep the reference that fget has taken.         *)
do_read(s, fd, count, answer) ==
    Checked(s, fd, LAMBDA f :
    With(fref(s, f), LAMBDA t :
        IF Stopped(t) THEN Ret(t, "none", 0)
        ELSE IF Kind[t.file[f].f_vnode] = "dir" THEN Ret(t, "EISDIR", 0)
        ELSE IF t.file[f].f_mode \in {{"write"}, {"append"}, {"write", "append"}}
             THEN Ret(t, "EBADF", 0)
        ELSE With(ReadCount(t, t.file[f].f_vnode, t.file[f].f_pos, count, answer), LAMBDA n :
                  Ret(fput([t EXCEPT !.file[f].f_pos = @ + n], f), "ok", n))))

Whence == {"SEEK_SET", "SEEK_CUR", "SEEK_END", "other"}

vn_len(s, v) == Len(s.mem[v])

Target(s, f, offset, whence) ==
    CASE whence = "SEEK_SET" -> offset
      [] whence = "SEEK_CUR" -> s.file[f].f_pos + offset
      [] whence = "SEEK_END" -> vn_len(s, s.file[f].f_vnode) + offset

(* Mutant: a seek that succeeds keeps the reference that fget has taken.    *)
LseekForgetsPut(s, fd, offset, whence) ==
    Checked(s, fd, LAMBDA f :
    With(fref(s, f), LAMBDA t :
        IF Stopped(t) THEN Ret(t, "none", 0)
        ELSE IF whence = "other" \/ Target(t, f, offset, whence) < 0
             THEN Ret(fput(t, f), "EINVAL", 0)
        ELSE Ret([t EXCEPT !.file[f].f_pos = Target(t, f, offset, whence)], "ok", 0)))

do_lseek(s, fd, offset, whence) ==
    Checked(s, fd, LAMBDA f :
    With(fref(s, f), LAMBDA t :
        IF Stopped(t) THEN Ret(t, "none", 0)
        ELSE With(fput(t, f), LAMBDA u :
        IF whence = "other" \/ Target(u, f, offset, whence) < 0 THEN Ret(u, "EINVAL", 0)
        ELSE With(Target(u, f, offset, whence), LAMBDA pos :
                  Ret([u EXCEPT !.file[f].f_pos = pos], "ok", pos)))))

(* The position moves by the count asked for, whatever was written.         *)
WriteAt(s, f, count, byte) ==
    LET v == s.file[f].f_vnode
        offset == s.file[f].f_pos
        n == IF Kind[v] = "data" THEN ramfs_write_count(offset, count) ELSE count
        moved == [s EXCEPT !.file[f].f_pos = offset + count]
    IN  CASE Kind[v] = "data" /\ n < 0 -> Halted(s, "memcpy")
          [] Kind[v] = "data" /\ n >= 0 ->
               Ret(fput([moved EXCEPT !.mem[v] = ramfs_write(@, offset, byte, n)], f), "ok", n)
          [] Kind[v] = "chr" -> Ret(fput(moved, f), "ok", n)
          [] Kind[v] = "blk" -> Ret(fput(moved, f), "ok", -ENOTSUP)

do_write(s, fd, count, byte) ==
    Checked(s, fd, LAMBDA f :
    With(fref(s, f), LAMBDA t :
        IF Stopped(t) THEN Ret(t, "none", 0)
        ELSE IF Kind[t.file[f].f_vnode] = "dir" THEN Ret(t, "EISDIR", 0)
        ELSE IF t.file[f].f_mode = {"read"} THEN Ret(t, "EBADF", 0)
        ELSE IF "append" \in t.file[f].f_mode
             THEN WriteAt(do_lseek(t, fd, 0, "SEEK_END").s, f, count, byte)
             ELSE WriteAt(t, f, count, byte)))

do_close(s, fd) ==
    Checked(s, fd, LAMBDA f : Ret(fput(SetFd(s, fd, NULL), f), "ok", 0))

(* A full table is not noticed: the new reference belongs to no slot.       *)
do_dup(s, fd) ==
    Checked(s, fd, LAMBDA f :
    With(fref(s, f), LAMBDA t :
        IF Stopped(t) THEN Ret(t, "none", 0)
        ELSE IF Full(t) THEN Ret(t, "EMFILE", 0)
        ELSE Ret(SetFd(t, get_empty_fd(t), f), "ok", get_empty_fd(t))))

Dup2Uncounted(s, ofd, nfd) ==
    IF nfd < 0 \/ nfd >= NFILES THEN Ret(s, "EBADF", 0)
    ELSE Checked(s, ofd, LAMBDA f :
         With(IF s.p_files[nfd] # NULL /\ nfd # ofd THEN do_close(s, nfd).s ELSE s, LAMBDA t :
              Ret(SetFd(t, nfd, f), "ok", nfd)))

do_dup2(s, ofd, nfd) ==
    IF nfd < 0 \/ nfd > NFILES THEN Ret(s, "EBADF", 0)
    ELSE IF ofd \in DOMAIN s.p_files /\ s.p_files[ofd] = NULL THEN Ret(s, "+EBADF", 0)
    ELSE Checked(s, ofd, LAMBDA f :
         IF nfd = NFILES THEN Halted(s, "p_files[NFILES]")
         ELSE With(IF s.p_files[nfd] # NULL /\ nfd # ofd THEN do_close(s, nfd).s ELSE s, LAMBDA t :
              IF Stopped(t) THEN Ret(t, "none", 0)
              ELSE Ret(fref(SetFd(t, nfd, f), f), "ok", nfd)))

(* The object is read after the reference that protected it is given back;  *)
(* the slot still holds one.                                                *)
do_getdent(s, fd) ==
    Checked(s, fd, LAMBDA f :
    With(fref(s, f), LAMBDA t :
        IF Stopped(t) THEN Ret(t, "none", 0)
        ELSE With(fput(t, f), LAMBDA u :
        IF Kind[u.file[f].f_vnode] # "dir" THEN Ret(u, "ENOTDIR", 0)
        ELSE IF u.file[f].f_pos % DirentSize # 0 THEN Halted(u, "ramfs_readdir")
        ELSE With(ramfs_readdir(u.file[f].f_pos), LAMBDA n :
                  Ret([u EXCEPT !.file[f].f_pos = @ + n], "ok", Min({n, DirentSize}))))))

(* proc_cleanup closes what the process has open.                           *)
CloseOne(s, fd) == IF Stopped(s) \/ s.p_files[fd] = NULL THEN s ELSE do_close(s, fd).s

CloseAll(s) ==
    LET upto[n \in 0..NFILES] == IF n = 0 THEN s ELSE CloseOne(upto[n - 1], n - 1)
    IN  upto[NFILES]

-----------------------------------------------------------------------------
(* A call takes the kernel to r.s and returns, or stops the machine.  For   *)
(* the properties, ret tells the descriptor it was for and, for do_dup2,    *)
(* the one it copies.                                                       *)
NoFd == -2

CallFrom(from, fd, r) ==
    /\ ~Stopped(k)
    /\ \A f \in FileObj : r.s.file[f].f_refcount <= MaxRef /\ r.s.file[f].f_pos <= MaxPos
    /\ k' = r.s
    /\ ret' = [err |-> r.err, fd |-> fd, from |-> from]

Call(fd, r) == CallFrom(NoFd, fd, r)

Fd == -1..NFILES + 1

Open ==
    \E o \in OFlags, f \in Unused(k), v \in Vnode \cup {NULL} :
        /\ Creates(o) => v \in {NULL} \cup {w \in Vnode : Kind[w] = "data"}
        /\ Call(-1, do_open(k, o, f, v))

Read    == \E fd \in Fd, n \in Counts, a \in Counts : Call(fd, do_read(k, fd, n, a))
Write   == \E fd \in Fd, n \in Counts, b \in Bytes : Call(fd, do_write(k, fd, n, b))
Close   == \E fd \in Fd : Call(fd, do_close(k, fd))
Dup     == \E fd \in Fd : Call(fd, do_dup(k, fd))
Dup2    == \E ofd, nfd \in Fd : CallFrom(ofd, nfd, do_dup2(k, ofd, nfd))
Getdent == \E fd \in Fd : Call(fd, do_getdent(k, fd))
Lseek   == \E fd \in Fd, n \in Offsets, w \in Whence : Call(fd, do_lseek(k, fd, n, w))

(* The process exits and the next one starts with an empty table.           *)
Exit == Call(-1, Ret(CloseAll(k), "ok", 0))

FilesInit ==
    /\ k = [p_files |-> [fd \in 0..NFILES - 1 |-> NULL],
            file |-> [f \in FileObj |-> FreeFile],
            vn_refcount |-> [v \in Vnode |-> 0],
            mem |-> [v \in Vnode |-> <<>>],
            fault |-> "none"]
    /\ ret = [err |-> "none", fd |-> NoFd, from |-> NoFd]

FilesNext == Open \/ Read \/ Write \/ Close \/ Dup \/ Dup2 \/ Getdent \/ Lseek \/ Exit

FilesSpec == FilesInit /\ [][FilesNext]_files

-----------------------------------------------------------------------------
Slots(s, f) == {fd \in 0..NFILES - 1 : s.p_files[fd] = f}
Live(s)     == {f \in FileObj : s.file[f].f_refcount > 0}

(* Every descriptor names an object that is allocated, has a vnode, and     *)
(* counts at least the descriptors that name it; so no close frees an       *)
(* object under another descriptor, whatever dup, dup2 and close did.       *)
DescriptorsCounted(s) ==
    \A f \in FileObj :
        /\ Cardinality(Slots(s, f)) <= s.file[f].f_refcount
        /\ Slots(s, f) # {} => s.file[f].f_vnode # NULL

(* The vnodes are held by exactly the objects that point at them, the       *)
(* leaked ones included.                                                    *)
Holders(s, v) == {f \in Live(s) : s.file[f].f_vnode = v}
VnodesHeld(s) == \A v \in Vnode : s.vn_refcount[v] = Cardinality(Holders(s, v))

(* The counts of references are right whatever do_open, do_dup, do_dup2 and *)
(* do_close did, those that error returns have leaked included.             *)
ReferencesCounted == Stopped(k) \/ (DescriptorsCounted(k) /\ VnodesHeld(k))

(* The references of an object that belong to no descriptor.                *)
Excess(s, f) == s.file[f].f_refcount - Cardinality(Slots(s, f))

NoLeak(s, t) == \A f \in FileObj : Excess(t, f) = Excess(s, f)

OneLeaked(s, t, fd) ==
    \A f \in FileObj : Excess(t, f) = Excess(s, f) + (IF f = s.p_files[fd] THEN 1 ELSE 0)

LeaksAs(s, t, from, fd) == IF from = fd THEN OneLeaked(s, t, fd) ELSE NoLeak(s, t)

(* A call that succeeds leaks nothing, but for do_dup2(fd, fd), which       *)
(* counts the object of fd once more: the references lost are those of      *)
(* error returns.                                                           *)
LeaksOnlyOnErrors ==
    [][ret'.err = "ok" => Stopped(k') \/ LeaksAs(k, k', ret'.from, ret'.fd)]_files

(* A call moves the position of one object at most, one that a descriptor   *)
(* names, and no position is below zero when the call has returned:         *)
(* do_lseek takes a bad target back.  The exception is a block device,      *)
(* whose answer, -ENOTSUP, do_read adds to the position.                    *)
Moved(s, t) == {f \in Live(s) \cap Live(t) : t.file[f].f_pos # s.file[f].f_pos}

PositionsPrivate(s, t) ==
    /\ Cardinality(Moved(s, t)) <= 1
    /\ \A f \in Moved(s, t) :
           /\ Slots(s, f) # {}
           /\ t.file[f].f_pos >= 0 \/ Kind[t.file[f].f_vnode] = "blk"

(* What is in a file is changed by a write only, through a descriptor not   *)
(* opened for reading only; one opened to append changes no byte that was   *)
(* there.  The file never shrinks and never outgrows its page.              *)
Grows(f, old, new) ==
    /\ f.f_mode # {"read"}
    /\ Len(new) \in Len(old)..PageSize
    /\ "append" \in f.f_mode => SubSeq(new, 1, Len(old)) = old

WritesKeepTo(s, t, fd) ==
    \A v \in Vnode : t.mem[v] # s.mem[v] =>
         /\ ValidFd(s, fd)
         /\ s.file[s.p_files[fd]].f_vnode = v
         /\ Grows(s.file[s.p_files[fd]], s.mem[v], t.mem[v])

(* A call touches what its descriptor stands for and no more.               *)
AccessConfined ==
    [][/\ Stopped(k') \/ PositionsPrivate(k, k')
       /\ WritesKeepTo(k, k', ret'.fd)]_files

=============================================================================
