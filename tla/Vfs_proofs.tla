----------------------------- MODULE Vfs_proofs -----------------------------
(***************************************************************************)
(* Proofs about module Vfs, for inode tables and directories of any size   *)
(* any set of path names that do not end in a slash, and any leftover on   *)
(* the stack of do_open.                                                   *)
(***************************************************************************)
EXTENDS VfsParts_proofs

(* The open files and the working directory own references, and every used  *)
(* inode has one that none of them owns.                                    *)
Owned(s, o, c) ==
    /\ o \in [Ino -> Nat] /\ c \in Used(s)
    /\ \A v \in Ino : o[v] > 0 => v \in Used(s)
    /\ \A v \in Used(s) : s.vn_refcount[v] >= 1 + o[v] + (IF c = v THEN 1 ELSE 0)

Running(s) == [s EXCEPT !.fault = "none"]

(* The inductive invariant.  Where the machine has stopped, the file system *)
(* is still as it was; ramfs_umount leaves nothing of it.  All is lost once *)
(* do_open has put a vnode that it never took.                              *)
Sound(s, o, c, d) ==
    /\ s.fault \in {"none", "panic", "busy"}
    /\ \/ s \in State /\ Good(Running(s)) /\ (~d => Owned(s, o, c))
       \/ d /\ s.inode = [i \in Ino |-> FreeInode]

IInv == stray \in [Ino -> Nat] /\ (NoStray => Sound(fs, opened, cwd, down))

-----------------------------------------------------------------------------
(* vfs_syscall.c: the calls that change a directory.                        *)

(* A used inode has a vnode.                                                *)
LEMMA UseGood ==
    ASSUME NEW s, Good(s), NEW v \in Used(s)
    PROVE  Use(s, v) = s /\ v \in Ino
<1>1. v \in Ino /\ s.vn_refcount[v] > 0
  BY DEF Good, Resident, Used
<1> QED BY <1>1 DEF Use

(* What is known after a lookup.                                            *)
LEMMA Found ==
    ASSUME NEW s, Good(s), NEW r
    PROVE  /\ Gives(r, s) =>
                /\ r.s = Plus(s, r.vn) /\ r.err = "ok" /\ r.vn \in Used(s)
                /\ Good(r.s) /\ ~Stopped(r.s) /\ vput(r.s, r.vn) = s
                /\ r.s.inode = s.inode /\ Used(r.s) = Used(s) /\ DirsOf(r.s) = DirsOf(s)
           /\ Fails(r, s) => r.s = s /\ r.err \in Errors /\ r.err # "ok" /\ r.vn = NULL
<1>1. ASSUME Gives(r, s)
      PROVE  /\ r.s = Plus(s, r.vn) /\ r.err = "ok" /\ r.vn \in Used(s)
             /\ Good(r.s) /\ ~Stopped(r.s) /\ vput(r.s, r.vn) = s
             /\ r.s.inode = s.inode /\ Used(r.s) = Used(s) /\ DirsOf(r.s) = DirsOf(s)
  <2>1. r.s = Plus(s, r.vn) /\ r.err = "ok" /\ r.vn \in Used(s)
    BY <1>1, FoundFields
  <2>2. Good(r.s) /\ ~Stopped(r.s)
    BY <1>1, GoodRuns
  <2>3. vput(r.s, r.vn) = s
    BY <2>1, PutPlus
  <2>4. r.s.inode = s.inode /\ Used(r.s) = Used(s) /\ DirsOf(r.s) = DirsOf(s)
    BY ZenonT(120), <2>1, PlusGood
  <2> QED BY <2>1, <2>2, <2>3, <2>4
<1> QED BY <1>1, FoundFields

(* Giving a reference back that was taken before.                           *)
LEMMA PutKept ==
    ASSUME NEW s, Good(s), NEW v \in Used(s), NEW w
    PROVE  /\ Keeps(Plus(s, v), w) => Keeps(s, vput(w, v))
           /\ Fine(Plus(s, v), w) => Fine(s, vput(w, v))
<1>1. ASSUME Keeps(Plus(s, v), w) PROVE Keeps(s, vput(w, v))
  <2>1. /\ Plus(s, v).vn_refcount = [s.vn_refcount EXCEPT ![v] = @ + 1]
        /\ Good(Plus(s, v)) /\ Used(Plus(s, v)) = Used(s)
    BY PlusGood
  <2>2. Good(w) /\ v \in Used(w) /\ v \in Ino
    BY Zenon, <1>1, <2>1, KeepsMore DEF Keeps, Used
  <2>3. s.vn_refcount \in [Ino -> Nat] /\ w.vn_refcount \in [Ino -> Nat] /\ s.vn_refcount[v] > 0
    BY <2>2 DEF Good, State, Resident
  <2>4. \A j \in Ino : w.vn_refcount[j] >= s.vn_refcount[j] + (IF j = v THEN 1 ELSE 0)
    <3> TAKE j \in Ino
    <3>1. w.vn_refcount[j] >= [s.vn_refcount EXCEPT ![v] = @ + 1][j]
      BY <1>1, <2>1 DEF Keeps
    <3> QED BY <2>2, <2>3, <3>1
  <2>5. w.vn_refcount[v] > 1
    BY <2>2, <2>3, <2>4
  <2>6. /\ Good(Minus(w, v)) /\ vput(w, v) = Minus(w, v)
        /\ Minus(w, v).vn_refcount = [w.vn_refcount EXCEPT ![v] = @ - 1]
    BY <2>2, <2>5, MinusGood
  <2>7. \A j \in Ino : [w.vn_refcount EXCEPT ![v] = @ - 1][j] >= s.vn_refcount[j]
    BY <2>2, <2>3, <2>4
  <2> QED BY <2>6, <2>7 DEF Keeps
<1>2. ASSUME w.fault = "panic" PROVE vput(w, v).fault = "panic"
  BY <1>2, StoppedStays DEF Stopped
<1> QED BY <1>1, <1>2 DEF Fine

(* The names "." and ".." lead to directories.                              *)
LEMMA DotsFound ==
    ASSUME NEW s, Good(s), NEW dir, NEW name, NEW v, Finds(s, dir, name, v), Named(name),
           v \notin DirsOf(s)
    PROVE  name \notin Special
<1> DEFINE k == Min(SlotsOf(s, dir, name))
           a == s.inode[dir].ent
<1>1. dir \in DirsOf(s) /\ k \in Slot /\ a[k].rd_name = name /\ a[k].rd_ino = v
  BY DEF Finds
<1>2. /\ a[1] = [rd_ino |-> dir, rd_name |-> "."]
      /\ a[2].rd_name = ".." /\ a[2].rd_ino \in DirsOf(s)
      /\ \A l, m \in Slot : a[l].rd_name = a[m].rd_name /\ a[l].rd_name # "" => l = m
  BY Zenon, <1>1 DEF Good, Directory
<1>3. a[1].rd_name = "." /\ a[1].rd_ino = dir
  <2>1. a[1] = [rd_ino |-> dir, rd_name |-> "."]
    BY Zenon, <1>2
  <2> QED BY <2>1
<1>4. 1 \in Slot /\ 2 \in Slot
  BY ConstantsOK DEF Slot
<1>5. name # ""
  BY Zenon DEF Named
<1> HIDE DEF k, a
<1>6. name # "."
  <2> SUFFICES ASSUME name = "." PROVE FALSE
    BY Zenon
  <2>1. k = 1
    BY Zenon, <1>1, <1>2, <1>3, <1>4, <1>5
  <2> QED BY <1>1, <1>3, <2>1
<1>7. name # ".."
  <2> SUFFICES ASSUME name = ".." PROVE FALSE
    BY Zenon
  <2>1. k = 2
    BY Zenon, <1>1, <1>2, <1>4, <1>5
  <2>2. a[2].rd_ino \in DirsOf(s)
    BY Zenon, <1>2
  <2> QED BY <1>1, <2>1, <2>2
<1> QED BY Zenon, <1>5, <1>6, <1>7 DEF Special

(* What was found is found with more references, too.                       *)
LEMMA FindsSame ==
    ASSUME NEW s, NEW t, t.inode = s.inode, NEW dir, NEW name, NEW v
    PROVE  /\ Finds(s, dir, name, v) <=> Finds(t, dir, name, v)
           /\ SlotsOf(s, dir, name) = SlotsOf(t, dir, name)
BY DEF Finds, SlotsOf, DirsOf

(* The name goes, and the reference that the lookup took.                   *)
LEMMA RemoveKeeps ==
    ASSUME Facts, NEW s, Good(s), NEW dir, NEW v \in Used(s), NEW name, name \notin Special,
           Finds(s, dir, name, v)
    PROVE  Keeps(s, RemoveEntry(Plus(s, v), dir, name, v))
<1> DEFINE u == Plus(s, v)
           w == RemoveEntry(u, dir, name, v)
<1>1. /\ Good(u) /\ Used(u) = Used(s) /\ u.inode = s.inode
      /\ u.vn_refcount = [s.vn_refcount EXCEPT ![v] = @ + 1]
  BY PlusGood
<1>2. s.vn_refcount \in [Ino -> Nat] /\ s.vn_refcount[v] > 0 /\ v \in Ino
  BY DEF Good, State, Resident, Used
<1> HIDE DEF u
<1>3. u.vn_refcount[v] > 1 /\ Finds(u, dir, name, v)
  BY <1>1, <1>2, FindsSame
<1>4. Good(w) /\ w.vn_refcount = [u.vn_refcount EXCEPT ![v] = @ - 1]
  <2>1. v \in Used(u) /\ Good(u)
    BY <1>1
  <2> QED BY <1>3, <2>1, RemoveGood
<1> HIDE DEF w
<1>5. \A j \in Ino : w.vn_refcount[j] >= s.vn_refcount[j]
  BY <1>1, <1>2, <1>4
<1>6. Keeps(s, w)
  BY <1>4, <1>5 DEF Keeps
<1> QED BY <1>6 DEF w, u

(* An assertion fails.                                                      *)
LEMMA FaultFine ==
    ASSUME NEW s, Good(s), NEW t
    PROVE  Fault(s, "panic").fault = "panic" /\ Fine(t, Fault(s, "panic"))
BY DEF Good, State, Fault, Fine

(* ramfs_unlink of a name that is not empty.                                *)
LEMMA RamfsUnlink ==
    ASSUME Facts, NEW s, Good(s), NEW dir \in DirsOf(s), NEW name, Named(name)
    PROVE  Fine(s, ramfs_unlink(s, dir, name))
<1> DEFINE r == ramfs_lookup(s, dir, name)
           t == ramfs_unlink(s, dir, name)
<1>0. dir \in Used(s) /\ ~Stopped(s)
  BY GoodRuns DEF DirsOf, Used
<1>1. r = lookup(s, dir, name)
  BY <1>0, LookupResult
<1>2. t = IF r.err # "ok" THEN Fault(s, "panic")
          ELSE IF r.s.inode[r.vn].type = "dir" THEN Fault(s, "panic")
          ELSE RemoveEntry(r.s, dir, name, r.vn)
  BY <1>0 DEF ramfs_unlink, Live, With
<1> HIDE DEF r, t
<1>3. CASE r.err # "ok" \/ r.s.inode[r.vn].type = "dir"
  BY <1>2, <1>3, FaultFine DEF t
<1>4. CASE r.err = "ok" /\ r.s.inode[r.vn].type # "dir"
  <2>1. Gives(r, s) /\ Finds(s, dir, name, r.vn)
    BY ZenonT(40), <1>0, <1>1, <1>4, LookupResult, LookupFinds, FoundFields
  <2>2. r.s = Plus(s, r.vn) /\ r.vn \in Used(s) /\ r.s.inode = s.inode
    BY Zenon, <2>1, Found
  <2>3. r.vn \notin DirsOf(s)
    BY <1>4, <2>2 DEF DirsOf
  <2>4. name \notin Special
    BY <2>1, <2>3, DotsFound
  <2>5. t = RemoveEntry(Plus(s, r.vn), dir, name, r.vn)
    BY <1>2, <1>4, <2>2
  <2> QED BY ZenonT(40), <2>1, <2>2, <2>4, <2>5, RemoveKeeps DEF Fine, t
<1> QED BY <1>3, <1>4

(* ramfs_rmdir of a name that is not special.                               *)
LEMMA RamfsRmdir ==
    ASSUME Facts, NEW s, Good(s), NEW dir \in DirsOf(s), NEW name, name \notin Special
    PROVE  Fine(s, ramfs_rmdir(s, dir, name).s)
<1> DEFINE r == ramfs_lookup(s, dir, name)
           q == ramfs_rmdir(s, dir, name)
           full == \E k \in Slot : r.s.inode[r.vn].ent[k].rd_name \notin Special
<1>0. dir \in Used(s) /\ ~Stopped(s)
  BY GoodRuns DEF DirsOf, Used
<1>1. r = lookup(s, dir, name)
  BY <1>0, LookupResult
<1>2. Fails(r, s) \/ Gives(r, s)
  BY <1>0, <1>1, LookupResult
<1>3. q = Then(r, LAMBDA x :
        IF x.s.inode[x.vn].type # "dir" THEN Ret(vput(x.s, x.vn), "ENOTDIR", NULL)
        ELSE IF \E k \in Slot : x.s.inode[x.vn].ent[k].rd_name \notin Special
             THEN Ret(vput(x.s, x.vn), "ENOTEMPTY", NULL)
        ELSE Ret(RemoveEntry(x.s, dir, name, x.vn), "ok", NULL))
  BY Zenon, <1>0 DEF ramfs_rmdir, Special
<1>4. Keeps(s, s)
  BY AbovePlus, KeepsMore
<1> HIDE DEF r, q
<1>5. CASE Fails(r, s)
  <2>1. r.s = s /\ r.err # "ok"
    BY <1>5, Found
  <2>2. q = r
    BY <1>3, <2>1 DEF Then
  <2> QED BY <1>4, <2>1, <2>2 DEF Fine, q
<1>6. CASE Gives(r, s)
  <2>1. /\ r.s = Plus(s, r.vn) /\ r.vn \in Used(s) /\ r.err = "ok" /\ ~Stopped(r.s)
        /\ vput(r.s, r.vn) = s
    BY ZenonT(40), <1>6, Found
  <2>2. \/ \E err : q = Ret(s, err, NULL)
        \/ q = Ret(RemoveEntry(Plus(s, r.vn), dir, name, r.vn), "ok", NULL)
    BY <1>3, <2>1 DEF Then
  <2>3. Finds(s, dir, name, r.vn)
    BY ZenonT(40), <1>0, <1>1, <2>1, LookupFinds
  <2>4. Keeps(s, RemoveEntry(Plus(s, r.vn), dir, name, r.vn))
    BY <2>1, <2>3, RemoveKeeps
  <2>5. Keeps(s, q.s)
    BY <1>4, <2>2, <2>4, Fields
  <2> QED BY <2>5 DEF Fine, q
<1> QED BY <1>2, <1>5, <1>6

(* do_mknod and do_mkdir.                                                   *)
LEMMA MakeFine ==
    ASSUME Facts, NEW s, Good(s), NEW dir \in Used(s), NEW p \in Path, Named(p.name),
           NEW type \in {"dir", "chr"}
    PROVE  Fine(s, Make(s, dir, p, type).s)
<1> DEFINE r == dir_namev(s, dir, p)
           f == LookupPut(r, p.name)
           m == ramfs_make(Use(f.s, r.vn), r.vn, p.name, type)
           q == Make(s, dir, p, type)
<1>1. q = Then(r, LAMBDA x : With(LookupPut(x, p.name), LAMBDA found :
        IF found.err = "ok" THEN Ret(vput(found.s, found.vn), "EEXIST", NULL)
        ELSE IF found.err # "ENOENT" THEN found
        ELSE Then(ramfs_make(Use(found.s, x.vn), x.vn, p.name, type), LAMBDA made :
                  Ret(lookup(made.s, x.vn, p.name).s, "ok", NULL))))
  BY DEF Make
<1>2. PICK t : Above(s, t) /\ (Fails(r, t) \/ Gives(r, t))
  BY DirNamev
<1>3. Good(t) /\ Keeps(s, t) /\ Keeps(t, t)
  BY <1>2, KeepsMore, AbovePlus DEF Above
<1> SUFFICES Fine(t, q.s)
  BY <1>3, KeepsMore
<1> HIDE DEF r
<1>4. CASE Fails(r, t)
  <2>1. r.s = t /\ r.err # "ok"
    BY <1>3, <1>4, Found
  <2>2. q = r
    BY <1>1, <2>1 DEF Then
  <2> HIDE DEF q
  <2> QED BY <1>3, <2>1, <2>2 DEF Fine
<1>5. CASE Gives(r, t)
  <2>1. r.err = "ok" /\ ~Stopped(r.s) /\ r.vn \in Used(t)
    BY Zenon, <1>3, <1>5, Found
  <2>2. q = IF f.err = "ok" THEN Ret(vput(f.s, f.vn), "EEXIST", NULL)
            ELSE IF f.err # "ENOENT" THEN f
            ELSE Then(m, LAMBDA made : Ret(lookup(made.s, r.vn, p.name).s, "ok", NULL))
    BY <1>1, <2>1 DEF Then, With
  <2>3. /\ Fails(f, t) \/ Gives(f, t)
        /\ f.err = "ENOENT" => r.vn \in DirsOf(t)
    BY <1>3, <1>5, LookupPutResult
  <2> HIDE DEF f, q, m
  <2>4. CASE Gives(f, t)
    <3>1. f.err = "ok" /\ vput(f.s, f.vn) = t
      BY <1>3, <2>4, Found
    <3>2. q = Ret(t, "EEXIST", NULL)
      BY <2>2, <3>1
    <3> QED BY <1>3, <3>2, Fields DEF Fine
  <2>5. CASE Fails(f, t)
    <3>1. f.err # "ok" /\ f.s = t
      BY <1>3, <2>5, Found
    <3>2. CASE f.err # "ENOENT"
      <4>1. q = f
        BY <2>2, <3>1, <3>2
      <4> QED BY <1>3, <3>1, <4>1 DEF Fine
    <3>3. CASE f.err = "ENOENT"
      <4>1. q = Then(m, LAMBDA made : Ret(lookup(made.s, r.vn, p.name).s, "ok", NULL))
        BY ZenonT(40), <2>2, <3>1, <3>3
      <4>2. Use(f.s, r.vn) = t
        BY ZenonT(40), <1>3, <2>1, <3>1, UseGood
      <4>3. m = ramfs_make(t, r.vn, p.name, type)
        BY <4>2 DEF m
      <4>4. \/ Panics(m) \/ m = Ret(t, "ENOSPC", NULL)
            \/ MakesNode(t, m, r.vn, p.name)
        BY ZenonT(40), <1>3, <2>3, <3>3, <4>3, RamfsMake
      <4>5. CASE Panics(m)
        <5>1. Stopped(m.s)
          BY <4>5 DEF Panics, Stopped
        <5>2. q = m
          BY SMTT(30), <4>1, <5>1 DEF Then
        <5> QED BY <4>5, <5>2 DEF Fine, Panics
      <4>6. CASE m = Ret(t, "ENOSPC", NULL)
        <5>1. m.err # "ok" /\ m.s = t
          BY <4>6, Fields
        <5>2. q = m
          BY <4>1, <5>1 DEF Then
        <5> QED BY <1>3, <5>1, <5>2 DEF Fine
      <4>7. CASE MakesNode(t, m, r.vn, p.name)
        <5>1. PICK g, i : m = Ret(g, "ok", i) /\ ~Stopped(g) /\ Keeps(t, lookup(g, r.vn, p.name).s)
          BY <4>7 DEF MakesNode
        <5>2. m.s = g /\ m.err = "ok"
          BY <5>1, Fields
        <5>3. q = Ret(lookup(g, r.vn, p.name).s, "ok", NULL)
          BY <4>1, <5>1, <5>2 DEF Then
        <5> QED BY <5>1, <5>3, Fields DEF Fine
      <4> QED BY <4>4, <4>5, <4>6, <4>7
    <3> QED BY <3>2, <3>3
  <2> QED BY Zenon, <2>3, <2>4, <2>5
<1> QED BY <1>2, <1>4, <1>5

(* do_rmdir.                                                                *)
LEMMA RmdirFine ==
    ASSUME Facts, NEW s, Good(s), NEW dir \in Used(s), NEW p \in Path, Named(p.name)
    PROVE  Fine(s, do_rmdir(s, dir, p).s)
<1> DEFINE r == dir_namev(s, dir, p)
           f == LookupPut(r, p.name)
           q == do_rmdir(s, dir, p)
           refused == IF p.name = "." THEN "EINVAL" ELSE "ENOTEMPTY"
<1>0. Keeps(s, s)
  BY AbovePlus, KeepsMore
<1>1. CASE p.base = "self"
  <2>1. q = Ret(s, refused, NULL)
    BY <1>1 DEF do_rmdir
  <2> QED BY <1>0, <2>1, Fields DEF Fine
<1>2. CASE p.base # "self"
  <2>1. q = Then(r, LAMBDA x :
         IF p.name \in {".", ".."} THEN Ret(x.s, refused, NULL)
         ELSE Then(LookupPut(x, p.name), LAMBDA found :
              IF found.s.inode[found.vn].type # "dir"
              THEN Ret(vput(found.s, found.vn), "ENOTDIR", NULL)
              ELSE ramfs_rmdir(Use(vput(found.s, found.vn), x.vn), x.vn, p.name)))
    BY <1>2 DEF do_rmdir
  <2>2. PICK t : Above(s, t) /\ (Fails(r, t) \/ Gives(r, t))
    BY DirNamev
  <2>3. Good(t) /\ Keeps(s, t) /\ Keeps(t, t)
    BY <2>2, KeepsMore, AbovePlus DEF Above
  <2> SUFFICES Fine(t, q.s)
    BY <2>3, KeepsMore
  <2> HIDE DEF r, refused
  <2>4. CASE Fails(r, t)
    <3>1. r.s = t /\ r.err # "ok"
      BY ZenonT(40), <2>3, <2>4, Found
    <3>2. q = r
      BY <2>1, <3>1 DEF Then
    <3> HIDE DEF q
    <3> QED BY <2>3, <3>1, <3>2 DEF Fine
  <2>5. CASE Gives(r, t)
    <3>1. /\ r.err = "ok" /\ ~Stopped(r.s) /\ r.vn \in Used(t) /\ r.s = Plus(t, r.vn)
          /\ Keeps(t, Plus(t, r.vn))
      BY ZenonT(40), <2>3, <2>5, Found, AbovePlus, KeepsMore
    <3>2. q = IF p.name \in {".", ".."} THEN Ret(r.s, refused, NULL)
              ELSE Then(f, LAMBDA found :
                IF found.s.inode[found.vn].type # "dir"
                THEN Ret(vput(found.s, found.vn), "ENOTDIR", NULL)
                ELSE ramfs_rmdir(Use(vput(found.s, found.vn), r.vn), r.vn, p.name))
      BY <2>1, <3>1 DEF Then
    <3> HIDE DEF q
    <3>3. CASE p.name \in {".", ".."}
      BY SMTT(30), <3>1, <3>2, <3>3, Fields DEF Fine
    <3>4. CASE p.name \notin {".", ".."}
      <4>1. p.name \notin Special
        BY Zenon, <3>4 DEF Special, Named
      <4>2. Fails(f, t) \/ Gives(f, t)
        BY ZenonT(40), <2>3, <2>5, LookupPutResult
      <4>3. f.err = "ok" => r.vn \in DirsOf(t)
        BY <2>3, <2>5, LookupPutResult DEF Finds
      <4> HIDE DEF f
      <4>4. CASE Fails(f, t)
        <5>1. f.err # "ok" /\ f.s = t
          BY <2>3, <4>4, Found
        <5>2. q = f
          BY ZenonT(40), <3>2, <3>4, <5>1 DEF Then
        <5> QED BY <2>3, <5>1, <5>2 DEF Fine
      <4>5. CASE Gives(f, t)
        <5>1. f.err = "ok" /\ vput(f.s, f.vn) = t /\ ~Stopped(f.s)
          BY <2>3, <4>5, Found
        <5>2. Use(t, r.vn) = t
          BY ZenonT(40), <2>3, <3>1, UseGood
        <5>3. q = IF f.s.inode[f.vn].type # "dir" THEN Ret(t, "ENOTDIR", NULL)
                  ELSE ramfs_rmdir(t, r.vn, p.name)
          BY <3>2, <3>4, <5>1, <5>2 DEF Then
        <5>4. Fine(t, ramfs_rmdir(t, r.vn, p.name).s)
          BY ZenonT(40), <2>3, <4>1, <4>3, <5>1, RamfsRmdir
        <5> QED BY <2>3, <5>3, <5>4, Fields DEF Fine
      <4> QED BY Zenon, <4>2, <4>4, <4>5
    <3> QED BY <3>3, <3>4
  <2> QED BY <2>2, <2>4, <2>5
<1> QED BY <1>1, <1>2

(* do_unlink; it does nothing once the machine has stopped.                 *)
LEMMA UnlinkFine ==
    ASSUME Facts, NEW s, Good(s), NEW dir \in Used(s), NEW p \in Path, Named(p.name)
    PROVE  Fine(s, do_unlink(s, dir, p).s)
<1> DEFINE r == dir_namev(s, dir, p)
           f == lookup(r.s, r.vn, p.name)
           q == do_unlink(s, dir, p)
<1>1. q = Then(r, LAMBDA x : With(lookup(x.s, x.vn, p.name), LAMBDA found :
        IF Stopped(found.s) THEN found
        ELSE IF found.err # "ok" THEN Ret(vput(found.s, x.vn), found.err, NULL)
        ELSE IF found.s.inode[found.vn].type = "dir"
             THEN Ret(vput(vput(found.s, x.vn), found.vn), "EISDIR", NULL)
        ELSE Ret(vput(vput(ramfs_unlink(found.s, x.vn, p.name), found.vn), x.vn),
                 "ok", NULL)))
  BY Zenon DEF do_unlink
<1>2. PICK t : Above(s, t) /\ (Fails(r, t) \/ Gives(r, t))
  BY DirNamev
<1>3. Good(t) /\ Keeps(s, t) /\ Keeps(t, t)
  BY <1>2, KeepsMore, AbovePlus DEF Above
<1> SUFFICES Fine(t, q.s)
  BY <1>3, KeepsMore
<1> HIDE DEF r
<1>4. CASE Fails(r, t)
  <2>1. r.s = t /\ r.err # "ok"
    BY <1>3, <1>4, Found
  <2>2. q = r
    BY <1>1, <2>1 DEF Then
  <2> HIDE DEF q
  <2> QED BY <1>3, <2>1, <2>2 DEF Fine
<1>5. CASE Gives(r, t)
  <2> DEFINE d == r.vn
             u == Plus(t, d)
  <2>1. /\ r.err = "ok" /\ ~Stopped(r.s) /\ d \in Used(t) /\ r.s = u
        /\ Good(u) /\ Used(u) = Used(t) /\ vput(u, d) = t
    BY ZenonT(40), <1>3, <1>5, Found
  <2>2. q = IF Stopped(f.s) THEN f
            ELSE IF f.err # "ok" THEN Ret(vput(f.s, d), f.err, NULL)
            ELSE IF f.s.inode[f.vn].type = "dir"
                 THEN Ret(vput(vput(f.s, d), f.vn), "EISDIR", NULL)
            ELSE Ret(vput(vput(ramfs_unlink(f.s, d, p.name), f.vn), d), "ok", NULL)
    BY <1>1, <2>1 DEF Then, With
  <2>3. Fails(f, u) \/ Gives(f, u)
    BY ZenonT(40), <2>1, LookupResult
  <2>30. f.err = "ok" => d \in DirsOf(u)
    BY <2>1, LookupFinds DEF Finds
  <2> HIDE DEF f, q, d, u
  <2>4. CASE Fails(f, u)
    <3>1. f.err # "ok" /\ f.s = u /\ ~Stopped(f.s)
      BY ZenonT(40), <2>1, <2>4, Found, GoodRuns
    <3>2. q = Ret(t, f.err, NULL)
      BY ZenonT(40), <2>1, <2>2, <3>1
    <3> QED BY SMTT(30), <1>3, <3>2, Fields DEF Fine
  <2>5. CASE Gives(f, u)
    <3> DEFINE v == f.vn
    <3>1. /\ f.err = "ok" /\ f.s = Plus(u, v) /\ ~Stopped(f.s) /\ v \in Used(t) /\ Good(f.s)
          /\ DirsOf(f.s) = DirsOf(u)
      BY <2>1, <2>5, Found
    <3> HIDE DEF v
    <3>2. vput(vput(f.s, d), v) = t
      <4>1. vput(f.s, d) = Plus(t, v)
        BY <1>3, <2>1, <3>1, PutPlus DEF u
      <4> QED BY ZenonT(40), <1>3, <3>1, <4>1, PutPlus
    <3>3. Fine(f.s, ramfs_unlink(f.s, d, p.name))
      BY ZenonT(40), <2>30, <3>1, RamfsUnlink
    <3>4. Fine(u, vput(ramfs_unlink(f.s, d, p.name), v))
      BY <2>1, <3>1, <3>3, PutKept
    <3>5. Fine(t, vput(vput(ramfs_unlink(f.s, d, p.name), v), d))
      BY ZenonT(40), <1>3, <2>1, <3>4, PutKept DEF u
    <3>6. \/ q = Ret(t, "EISDIR", NULL)
          \/ q = Ret(vput(vput(ramfs_unlink(f.s, d, p.name), v), d), "ok", NULL)
      BY <2>2, <3>1, <3>2 DEF v
    <3> QED BY <1>3, <3>5, <3>6, Fields DEF Fine
  <2> QED BY <2>3, <2>4, <2>5
<1> QED BY <1>2, <1>4, <1>5

(* Nothing is unlinked any more once the machine has stopped.               *)
LEMMA UnlinkStopped ==
    ASSUME NEW s, Stopped(s), NEW dir, NEW p \in Path
    PROVE  do_unlink(s, dir, p).s = s
<1> DEFINE r == dir_namev(s, dir, p)
<1>1. lookup(s, Root, p.name).s = s /\ lookup(s, dir, "..").s = s
  BY StoppedStays, Fields
<1>2. r.s = s
  <2>1. CASE p.base = "self"
    BY <1>1, <2>1 DEF dir_namev
  <2>2. CASE p.base # "self"
    <3> DEFINE d == CASE p.base = "root" -> Ret(s, "ok", Root)
                      [] p.base = "cwd"  -> Ret(s, "ok", dir)
                      [] p.base = "up"   -> lookup(s, dir, "..")
    <3>1. p.base \in {"root", "cwd", "up"}
      BY <2>2, ConstantsOK DEF IsPath
    <3>2. d.s = s
      BY <1>1, <3>1, Fields
    <3>3. r = d
      BY Zenon, <2>2, <3>2 DEF dir_namev, Then
    <3> QED BY Zenon, <3>2, <3>3
  <2> QED BY <2>1, <2>2
<1> HIDE DEF r
<1>3. do_unlink(s, dir, p) = r
  BY <1>2 DEF do_unlink, Then, r
<1> QED BY <1>2, <1>3

(* do_link.                                                                 *)
LEMMA LinkFine ==
    ASSUME Facts, NEW s, Good(s), NEW dir \in Used(s), NEW from \in Path, NEW to \in Path,
           Named(to.name)
    PROVE  Fine(s, do_link(s, dir, from, to).s)
<1> DEFINE o == open_namev(s, dir, from)
           q == do_link(s, dir, from, to)
           rest(x, old) ==
             With(LookupPut(x, to.name), LAMBDA found :
               IF found.err = "ok" THEN Ret(vput(found.s, found.vn), "EEXIST", NULL)
               ELSE IF found.err = "ENOTDIR" THEN Ret(Fault(found.s, "panic"), "ok", NULL)
               ELSE ramfs_link(Use(Use(found.s, x.vn), old.vn), old.vn, x.vn, to.name))
<1>1. q = Then(o, LAMBDA old :
          Then(dir_namev(vput(old.s, old.vn), dir, to), LAMBDA x : rest(x, old)))
  BY DEF do_link
<1> HIDE DEF o, rest
<1>2. CASE Panics(o)
  <2>1. Stopped(o.s)
    BY <1>2 DEF Panics, Stopped
  <2>2. q = o
    BY <1>1, <2>1 DEF Then
  <2> QED BY <1>2, <2>2 DEF Panics, Fine
<1>3. ASSUME NEW t, Above(s, t), Fails(o, t) \/ Gives(o, t)
      PROVE  Fine(s, q.s)
  <2>1. Good(t) /\ Keeps(s, t) /\ Keeps(t, t) /\ dir \in Used(t)
    BY ZenonT(40), <1>3, KeepsMore, AbovePlus, AboveUsed DEF Above
  <2>2. CASE Fails(o, t)
    <3>1. o.s = t /\ o.err # "ok"
      BY Zenon, <2>1, <2>2, Found
    <3>2. q = o
      BY <1>1, <3>1 DEF Then
    <3> HIDE DEF q
    <3> QED BY <2>1, <3>1, <3>2 DEF Fine
  <2>3. CASE Gives(o, t)
    <3> DEFINE r == dir_namev(t, dir, to)
               f == LookupPut(r, to.name)
    <3>1. o.err = "ok" /\ ~Stopped(o.s) /\ vput(o.s, o.vn) = t /\ o.vn \in Used(t)
      BY ZenonT(40), <2>1, <2>3, Found
    <3>2. q = Then(r, LAMBDA x : rest(x, o))
      BY <1>1, <3>1 DEF Then
    <3>3. PICK w : Above(t, w) /\ (Fails(r, w) \/ Gives(r, w))
      BY ZenonT(40), <2>1, DirNamev
    <3>4. Good(w) /\ Keeps(t, w) /\ Keeps(s, w) /\ Keeps(w, w) /\ o.vn \in Used(w)
      BY SMTT(30), <2>1, <3>1, <3>3, KeepsMore, AbovePlus, AboveUsed DEF Above
    <3> SUFFICES Fine(w, q.s)
      BY SMTT(30), <3>4, KeepsMore
    <3> HIDE DEF r, q
    <3>5. CASE Fails(r, w)
      <4>1. r.s = w /\ r.err # "ok"
        BY <3>4, <3>5, Found
      <4>2. q = r
        BY <3>2, <4>1 DEF Then
      <4> QED BY ZenonT(40), <3>4, <4>1, <4>2 DEF Fine
    <3>6. CASE Gives(r, w)
      <4>1. r.err = "ok" /\ ~Stopped(r.s) /\ r.vn \in Used(w)
        BY Zenon, <3>4, <3>6, Found
      <4>2. q = IF f.err = "ok" THEN Ret(vput(f.s, f.vn), "EEXIST", NULL)
                ELSE IF f.err = "ENOTDIR" THEN Ret(Fault(f.s, "panic"), "ok", NULL)
                ELSE ramfs_link(Use(Use(f.s, r.vn), o.vn), o.vn, r.vn, to.name)
        BY <3>2, <4>1 DEF Then, rest, With
      <4>3. /\ Fails(f, w) \/ Gives(f, w)
            /\ f.err = "ENOENT" => r.vn \in DirsOf(w)
        BY <3>4, <3>6, LookupPutResult
      <4> HIDE DEF f
      <4>4. CASE Gives(f, w)
        <5>1. f.err = "ok" /\ vput(f.s, f.vn) = w
          BY ZenonT(40), <3>4, <4>4, Found
        <5>2. q = Ret(w, "EEXIST", NULL)
          BY <4>2, <5>1
        <5> QED BY SMTT(30), <3>4, <5>2, Fields DEF Fine
      <4>5. CASE Fails(f, w)
        <5>1. f.s = w /\ f.err \in {"ENOENT", "ENOTDIR"}
          BY Zenon, <3>4, <4>5, Found DEF Errors
        <5>2. CASE f.err = "ENOTDIR"
          <6>1. q = Ret(Fault(w, "panic"), "ok", NULL)
            BY <4>2, <5>1, <5>2
          <6> QED BY SMTT(30), <3>4, <6>1, Fields, FaultFine
        <5>3. CASE f.err = "ENOENT"
          <6>1. Use(Use(w, r.vn), o.vn) = w
            BY ZenonT(40), <3>4, <4>1, UseGood
          <6>2. q = ramfs_link(w, o.vn, r.vn, to.name)
            BY ZenonT(40), <4>2, <5>1, <5>3, <6>1
          <6> QED BY SMTT(30), <3>4, <4>3, <5>3, <6>2, RamfsLink
        <5> QED BY Zenon, <5>1, <5>2, <5>3
      <4> QED BY SMTT(30), <4>3, <4>4, <4>5
    <3> QED BY <3>3, <3>5, <3>6
  <2> QED BY ZenonT(40), <1>3, <2>2, <2>3
<1> QED BY <1>2, <1>3, OpenNamev DEF o

(* do_rename.                                                               *)
LEMMA RenameFine ==
    ASSUME Facts, NEW s, Good(s), NEW dir \in Used(s), NEW from \in Path, NEW to \in Path,
           Named(to.name), Named(from.name)
    PROVE  Fine(s, do_rename(s, dir, from, to).s)
<1> DEFINE t == do_link(s, dir, from, to).s
<1>1. do_rename(s, dir, from, to) = do_unlink(t, dir, from)
  BY DEF do_rename
<1>2. Fine(s, t)
  BY LinkFine
<1> HIDE DEF t
<1>3. CASE t.fault = "panic"
  <2>1. do_unlink(t, dir, from).s = t
    BY <1>3, UnlinkStopped DEF Stopped
  <2> QED BY <1>1, <1>2, <2>1
<1>4. CASE Keeps(s, t)
  <2>1. Good(t) /\ dir \in Used(t)
    BY <1>4, KeepsMore DEF Keeps
  <2>2. Fine(t, do_unlink(t, dir, from).s)
    BY <2>1, UnlinkFine
  <2> QED BY SMTT(30), <1>1, <1>4, <2>2, KeepsMore
<1> QED BY <1>2, <1>3, <1>4 DEF Fine

(* do_stat.                                                                 *)
LEMMA StatFine ==
    ASSUME Facts, NEW s, Good(s), NEW dir \in Used(s), NEW p \in Path
    PROVE  Fine(s, do_stat(s, dir, p).s)
<1> DEFINE o == open_namev(s, dir, p)
           q == do_stat(s, dir, p)
<1>1. q = Then(o, LAMBDA r : Ret(vput(r.s, r.vn), "ok", NULL))
  BY DEF do_stat
<1> HIDE DEF o
<1>2. CASE Panics(o)
  <2>1. Stopped(o.s)
    BY <1>2 DEF Panics, Stopped
  <2>2. q = o
    BY <1>1, <2>1 DEF Then
  <2> QED BY <1>2, <2>2 DEF Panics, Fine
<1>3. ASSUME NEW t, Above(s, t), Fails(o, t) \/ Gives(o, t)
      PROVE  Fine(s, q.s)
  <2>1. Good(t) /\ Keeps(s, t)
    BY <1>3, KeepsMore DEF Above
  <2>2. CASE Fails(o, t)
    <3>1. o.s = t /\ o.err # "ok"
      BY <2>1, <2>2, Found
    <3>2. q = o
      BY <1>1, <3>1 DEF Then
    <3> HIDE DEF q
    <3> QED BY <2>1, <3>1, <3>2 DEF Fine
  <2>3. CASE Gives(o, t)
    <3>1. o.err = "ok" /\ ~Stopped(o.s) /\ vput(o.s, o.vn) = t
      BY <2>1, <2>3, Found
    <3>2. q = Ret(t, "ok", NULL)
      BY <1>1, <3>1 DEF Then
    <3> QED BY <2>1, <3>2, Fields DEF Fine
  <2> QED BY Zenon, <1>3, <2>2, <2>3
<1> QED BY <1>2, <1>3, OpenNamev DEF o

-----------------------------------------------------------------------------
(* The calls that move a reference: chdir, open, close.                     *)

(* The new working directory gets a reference, and the old one gives one    *)
(* back.                                                                    *)
Moves(s, t, dir, v) ==
    /\ Good(t) /\ v \in Used(s) \cap Used(t)
    /\ \A j \in Ino : t.vn_refcount[j] >= s.vn_refcount[j] + (IF j = v THEN 1 ELSE 0)
                                                         - (IF j = dir THEN 1 ELSE 0)

(* How do_chdir moves it.                                                   *)
LEMMA PutOld ==
    ASSUME NEW s, Good(s), NEW t, Keeps(s, t), NEW v \in Used(s), NEW dir \in Used(s),
           s.vn_refcount[dir] > 1
    PROVE  Moves(s, vput(Plus(t, v), dir), dir, v)
<1> DEFINE u == Plus(t, v)
<1>1. Good(t) /\ dir \in Used(t) /\ v \in Used(t) /\ dir \in Ino /\ v \in Ino
  BY Zenon, KeepsMore DEF Keeps, Used
<1>2. /\ Good(u) /\ Used(u) = Used(t)
      /\ u.vn_refcount = [t.vn_refcount EXCEPT ![v] = @ + 1]
  BY Zenon, <1>1, PlusGood
<1>3. /\ s.vn_refcount \in [Ino -> Nat] /\ t.vn_refcount \in [Ino -> Nat]
      /\ \A j \in Ino : t.vn_refcount[j] >= s.vn_refcount[j]
  BY <1>1 DEF Good, State, Keeps
<1> HIDE DEF u
<1>4. u.vn_refcount[dir] > 1
  BY SMTT(30), <1>1, <1>2, <1>3
<1>5. /\ Good(Minus(u, dir)) /\ vput(u, dir) = Minus(u, dir) /\ Used(Minus(u, dir)) = Used(u)
      /\ Minus(u, dir).vn_refcount = [u.vn_refcount EXCEPT ![dir] = @ - 1]
  BY ZenonT(40), <1>1, <1>2, <1>4, MinusGood
<1>6. \A j \in Ino : Minus(u, dir).vn_refcount[j] >=
            s.vn_refcount[j] + (IF j = v THEN 1 ELSE 0) - (IF j = dir THEN 1 ELSE 0)
  BY SMTT(30), <1>1, <1>2, <1>3, <1>5
<1>7. Moves(s, Minus(u, dir), dir, v)
  BY Zenon, <1>1, <1>2, <1>5, <1>6 DEF Moves
<1> QED BY Zenon, <1>5, <1>7 DEF u

(* do_chdir.                                                                *)
LEMMA ChdirMoves ==
    ASSUME Facts, NEW s, Good(s), NEW dir \in Used(s), s.vn_refcount[dir] > 1, NEW p \in Path
    PROVE  LET r == do_chdir(s, dir, p) IN
           \/ r.err # "ok" /\ Keeps(s, r.s)
           \/ r.err = "ok" /\ Moves(s, r.s, dir, r.vn)
<1> DEFINE q == do_chdir(s, dir, p)
<1>0. Keeps(s, s) /\ s.vn_refcount \in [Ino -> Nat] /\ dir \in Ino
  BY Zenon, AbovePlus, KeepsMore DEF Good, State, Used
<1>1. CASE p.base = "self" /\ p.name = "."
  <2>1. q = Ret(s, "ok", dir)
    BY <1>1 DEF do_chdir
  <2>2. Moves(s, s, dir, dir)
    <3>1. \A j \in Ino : s.vn_refcount[j] >= s.vn_refcount[j] + (IF j = dir THEN 1 ELSE 0)
                                                       - (IF j = dir THEN 1 ELSE 0)
      BY SMT, <1>0
    <3> QED BY Zenon, <3>1 DEF Moves
  <2> HIDE DEF q
  <2> QED BY <2>1, <2>2, Fields DEF q
<1>2. CASE p.base = "self" /\ p.name # "."
  <2> DEFINE f == lookup(s, dir, p.name)
  <2>1. q = Then(f, LAMBDA found : Ret(vput(found.s, dir), "ok", found.vn))
    BY Zenon, <1>2 DEF do_chdir
  <2>2. Fails(f, s) \/ Gives(f, s)
    BY Zenon, LookupResult
  <2> HIDE DEF f, q
  <2>3. CASE Fails(f, s)
    <3>1. f.s = s /\ f.err # "ok"
      BY <2>3, Found
    <3>2. q = f
      BY Zenon, <2>1, <3>1 DEF Then
    <3> QED BY <1>0, <3>1, <3>2 DEF q
  <2>4. CASE Gives(f, s)
    <3>1. f.err = "ok" /\ ~Stopped(f.s) /\ f.s = Plus(s, f.vn) /\ f.vn \in Used(s)
      BY <2>4, Found
    <3>2. q = Ret(vput(Plus(s, f.vn), dir), "ok", f.vn)
      BY Zenon, <2>1, <3>1 DEF Then
    <3>3. Moves(s, vput(Plus(s, f.vn), dir), dir, f.vn)
      BY ZenonT(40), <1>0, <3>1, PutOld
    <3>4. q.err = "ok" /\ Moves(s, q.s, dir, q.vn)
      <4>1. q.s = vput(Plus(s, f.vn), dir) /\ q.err = "ok" /\ q.vn = f.vn
        <5> DEFINE x == Ret(vput(Plus(s, f.vn), dir), "ok", f.vn)
        <5>1. x.s = vput(Plus(s, f.vn), dir) /\ x.err = "ok" /\ x.vn = f.vn
          BY SMT, Fields
        <5>2. q = x
          BY Zenon, <3>2
        <5> HIDE DEF x
        <5> QED BY Zenon, <5>1, <5>2
      <4> QED BY Zenon, <3>3, <4>1
    <3> QED BY Zenon, <3>4 DEF q
  <2> QED BY <2>2, <2>3, <2>4
<1>3. CASE p.base # "self"
  <2> DEFINE r == dir_namev(s, dir, p)
             f == LookupPut(r, p.name)
  <2>1. q = Then(r, LAMBDA x : Then(LookupPut(x, p.name), LAMBDA found :
              IF found.s.inode[found.vn].type # "dir"
              THEN Ret(vput(found.s, found.vn), "ENOTDIR", NULL)
              ELSE Ret(vput(found.s, dir), "ok", found.vn)))
    BY <1>3 DEF do_chdir
  <2>2. PICK t : Above(s, t) /\ (Fails(r, t) \/ Gives(r, t))
    BY Zenon, DirNamev
  <2>3. Good(t) /\ Keeps(s, t) /\ Used(t) = Used(s)
    BY <2>2, KeepsMore, AboveUsed DEF Above
  <2> HIDE DEF r, q
  <2>4. CASE Fails(r, t)
    <3>1. r.s = t /\ r.err # "ok"
      BY Zenon, <2>3, <2>4, Found
    <3>2. q = r
      BY Zenon, <2>1, <3>1 DEF Then
    <3> QED BY Zenon, <2>3, <3>1, <3>2 DEF q
  <2>5. CASE Gives(r, t)
    <3>1. r.err = "ok" /\ ~Stopped(r.s)
      BY Zenon, <2>3, <2>5, Found
    <3>2. q = Then(f, LAMBDA found :
              IF found.s.inode[found.vn].type # "dir"
              THEN Ret(vput(found.s, found.vn), "ENOTDIR", NULL)
              ELSE Ret(vput(found.s, dir), "ok", found.vn))
      BY Zenon, <2>1, <3>1 DEF Then
    <3>3. Fails(f, t) \/ Gives(f, t)
      BY ZenonT(40), <2>3, <2>5, LookupPutResult
    <3> HIDE DEF f
    <3>4. CASE Fails(f, t)
      <4>1. f.s = t /\ f.err # "ok"
        BY ZenonT(40), <2>3, <3>4, Found
      <4>2. q = f
        BY Zenon, <3>2, <4>1 DEF Then
      <4> QED BY ZenonT(40), <2>3, <4>1, <4>2 DEF q
    <3>5. CASE Gives(f, t)
      <4>1. /\ f.err = "ok" /\ ~Stopped(f.s) /\ f.s = Plus(t, f.vn) /\ f.vn \in Used(t)
            /\ vput(f.s, f.vn) = t
        BY Zenon, <2>3, <3>5, Found
      <4>2. q = Ret(t, "ENOTDIR", NULL) \/ q = Ret(vput(Plus(t, f.vn), dir), "ok", f.vn)
        BY SMTT(30), <3>2, <4>1 DEF Then
      <4>3. Moves(s, vput(Plus(t, f.vn), dir), dir, f.vn)
        BY Zenon, <2>3, <4>1, PutOld
      <4>4. \/ q.err # "ok" /\ Keeps(s, q.s)
            \/ q.err = "ok" /\ Moves(s, q.s, dir, q.vn)
        BY SMTT(30), <2>3, <4>2, <4>3, Fields
      <4> QED BY SMTT(30), <4>4 DEF q
    <3> QED BY SMTT(30), <3>3, <3>4, <3>5
  <2> QED BY <2>2, <2>4, <2>5
<1> QED BY SMTT(30), <1>1, <1>2, <1>3

(* The file that was opened gets a reference, and is not the only one to    *)
(* have one.                                                                *)
Opens(s, t, v) ==
    /\ Good(t) /\ v \in Used(t) /\ t.vn_refcount[v] > 1
    /\ \A j \in Ino : t.vn_refcount[j] >= s.vn_refcount[j] + (IF j = v THEN 1 ELSE 0)

(* It takes one more reference.                                             *)
LEMMA PlusOpens ==
    ASSUME NEW s, Good(s), NEW t, Keeps(s, t), NEW v \in Used(t)
    PROVE  Opens(s, Plus(t, v), v)
<1>1. Good(t) /\ v \in Ino
  BY Zenon DEF Keeps, Used
<1>2. /\ Good(Plus(t, v)) /\ Used(Plus(t, v)) = Used(t)
      /\ Plus(t, v).vn_refcount = [t.vn_refcount EXCEPT ![v] = @ + 1]
  BY Zenon, <1>1, PlusGood
<1>3. /\ s.vn_refcount \in [Ino -> Nat] /\ t.vn_refcount \in [Ino -> Nat]
      /\ \A j \in Ino : t.vn_refcount[j] >= s.vn_refcount[j]
      /\ t.vn_refcount[v] > 0
  BY <1>1 DEF Good, State, Keeps, Resident
<1>4. Plus(t, v).vn_refcount[v] > 1
  BY <1>1, <1>2, <1>3
<1>5. \A j \in Ino : Plus(t, v).vn_refcount[j] >= s.vn_refcount[j] + (IF j = v THEN 1 ELSE 0)
  BY SMTT(30), <1>1, <1>2, <1>3
<1> QED BY <1>2, <1>4, <1>5 DEF Opens

(* open_namev with O_CREAT, where the result is no vnode before, or one in  *)
(* use while dir_namev succeeds: a full file system is then left with one   *)
(* more reference to it, which do_open gives back.                          *)
LEMMA CreateNamev ==
    ASSUME Facts, NEW s, Good(s), NEW dir \in Used(s), NEW p \in Path, Named(p.name),
           NEW res, res \in Ino => res \in Used(s) /\ dir_namev(s, dir, p).err = "ok"
    PROVE  LET r == create_namev(s, dir, p, res) IN
           \/ Panics(r)
           \/ r.err # "ok" /\ Keeps(s, r.s) /\ r.vn \notin Ino
           \/ r.err # "ok" /\ \E t : Keeps(s, t) /\ r.vn \in Used(t) /\ r.s = Plus(t, r.vn)
           \/ r.err = "ok" /\ Opens(s, r.s, r.vn)
<1> DEFINE r == dir_namev(s, dir, p)
           q == create_namev(s, dir, p, res)
           u == Use(vput(r.s, r.vn), r.vn)
           c == ramfs_make(u, r.vn, p.name, "data")
           vn == IF c.err = "ok" THEN c.vn ELSE res
<1>1. q = IF r.err # "ok" THEN Ret(r.s, r.err, res)
          ELSE IF Stopped(u) THEN Ret(u, "ok", NULL)
          ELSE IF u.inode[r.vn].type # "dir" THEN Ret(u, "ENOTDIR", NULL)
          ELSE Ret(vref(c.s, vn), c.err, vn)
  BY Zenon DEF create_namev, With
<1>2. PICK t : Above(s, t) /\ (Fails(r, t) \/ Gives(r, t))
  BY Zenon, DirNamev
<1>3. Good(t) /\ Keeps(s, t)
  BY Zenon, <1>2, KeepsMore DEF Above
<1>30. res \in Ino => res \in Used(s) /\ r.err = "ok"
  OBVIOUS
<1> HIDE DEF r, q, u, c, vn
<1>4. CASE Fails(r, t)
  <2>1. r.s = t /\ r.err # "ok" /\ res \notin Ino
    BY ZenonT(40), <1>3, <1>30, <1>4, Found
  <2>2. q = Ret(t, r.err, res)
    BY <1>1, <2>1
  <2>3. q.err # "ok" /\ q.s = t /\ q.vn = res
    BY SMTT(30), <2>1, <2>2, Fields
  <2> QED BY Zenon, <1>3, <2>1, <2>3 DEF q
<1>5. CASE Gives(r, t)
  <2>1. r.err = "ok" /\ vput(r.s, r.vn) = t /\ r.vn \in Used(t) /\ ~Stopped(t)
    BY <1>3, <1>5, Found, GoodRuns
  <2>2. u = t
    BY Zenon, <1>3, <2>1, UseGood DEF u
  <2>3. CASE t.inode[r.vn].type # "dir"
    <3>1. q = Ret(t, "ENOTDIR", NULL)
      BY <1>1, <2>1, <2>2, <2>3
    <3>2. q.err # "ok" /\ q.s = t /\ q.vn \notin Ino
      BY SMTT(30), <3>1, Fields DEF NULL, Ino
    <3> QED BY Zenon, <1>3, <3>2 DEF q
  <2>4. CASE t.inode[r.vn].type = "dir"
    <3>1. q = Ret(vref(c.s, vn), c.err, vn)
      BY Zenon, <1>1, <2>1, <2>2, <2>4
    <3>2. q.s = vref(c.s, vn) /\ q.err = c.err /\ q.vn = vn
      BY SMTT(30), <3>1, Fields
    <3>3. r.vn \in DirsOf(t)
      BY <2>1, <2>4 DEF DirsOf, Used
    <3>4. c = ramfs_make(t, r.vn, p.name, "data")
      BY <2>2 DEF c
    <3>5. Panics(c) \/ c = Ret(t, "ENOSPC", NULL) \/ MakesFile(t, c)
      BY SMTT(30), <1>3, <3>3, <3>4, RamfsMake
    <3>6. CASE Panics(c)
      <4>1. vref(c.s, vn) = c.s
        BY Zenon, <3>6, StoppedStays DEF Panics, Stopped
      <4>2. Panics(q)
        BY Zenon, <3>2, <3>6, <4>1 DEF Panics
      <4> QED BY Zenon, <4>2 DEF q
    <3>7. CASE c = Ret(t, "ENOSPC", NULL)
      <4>1. c.s = t /\ vn = res /\ c.err # "ok"
        BY SMTT(30), <3>7, Fields DEF vn
      <4>2. CASE res \notin Ino
        <5>1. Panics(q)
          BY SMTT(30), <1>3, <3>2, <4>1, <4>2, NoVnodePanics DEF Panics
        <5> QED BY <5>1 DEF q
      <4>3. CASE res \in Ino
        <5>1. res \in Used(t)
          BY Zenon, <1>3, <1>30, <4>3, KeepsMore
        <5>2. vref(t, res) = Plus(t, res)
          BY Zenon, <1>3, <5>1, PlusGood
        <5>3. q.err # "ok" /\ q.vn = res /\ q.s = Plus(t, q.vn)
          BY Zenon, <3>2, <4>1, <5>2
        <5> QED BY Zenon, <1>3, <5>1, <5>3 DEF q
      <4> QED BY Zenon, <4>2, <4>3
    <3>8. CASE MakesFile(t, c)
      <4>1. PICK g, i : c = Ret(g, "ok", i) /\ Keeps(t, g) /\ i \in Used(g)
        BY <3>8 DEF MakesFile
      <4>2. c.s = g /\ c.err = "ok" /\ vn = i
        BY <4>1, Fields DEF vn
      <4>3. vref(g, i) = Plus(g, i)
        BY Zenon, <4>1, PlusGood DEF Keeps
      <4>4. Keeps(s, g)
        BY <1>3, <4>1, KeepsMore
      <4>5. Opens(s, Plus(g, i), i)
        BY <4>1, <4>4, PlusOpens
      <4>6. q.err = "ok" /\ Opens(s, q.s, q.vn)
        BY Zenon, <3>2, <4>2, <4>3, <4>5
      <4> QED BY <4>6 DEF q
    <3> QED BY Zenon, <3>5, <3>6, <3>7, <3>8
  <2> QED BY Zenon, <2>3, <2>4
<1> QED BY SMTT(30), <1>2, <1>4, <1>5

(* do_open.                                                                 *)
LEMMA OpenOpens ==
    ASSUME Facts, NEW s, Good(s), NEW dir \in Used(s), NEW p \in Path, Named(p.name),
           NEW flag \in {"read", "write", "creat"}, NEW garbage,
           garbage \in Ino => garbage \in Used(s),
           PutUnset(s, dir, p, flag, garbage) = {}
    PROVE  LET r == do_open(s, dir, p, flag, garbage) IN
           \/ Panics(r)
           \/ r.err # "ok" /\ Keeps(s, r.s)
           \/ r.err = "ok" /\ Opens(s, r.s, r.vn)
<1> DEFINE r == IF flag = "creat" THEN create_namev(s, dir, p, garbage)
                                  ELSE open_namev(s, dir, p)
           q == do_open(s, dir, p, flag, garbage)
<1>1. q = IF Stopped(r.s) THEN r
          ELSE IF r.err # "ok"
               THEN Ret(IF r.vn = NULL THEN r.s ELSE vput(r.s, r.vn), r.err, NULL)
          ELSE IF r.s.inode[r.vn].type = "dir" /\ flag = "write"
               THEN Ret(vput(r.s, r.vn), "EISDIR", NULL)
          ELSE r
  BY ZenonT(40) DEF do_open, With
<1>2. \/ Panics(r)
      \/ r.err # "ok" /\ Keeps(s, r.s) /\ r.vn \notin Ino
      \/ r.err # "ok" /\ \E t : Keeps(s, t) /\ r.vn \in Used(t) /\ r.s = Plus(t, r.vn)
      \/ flag = "creat" /\ r.err = "ok" /\ Opens(s, r.s, r.vn)
      \/ \E t : Keeps(s, t) /\ Gives(r, t)
  <2>1. CASE flag = "creat"
    <3>1. garbage \in Ino => garbage \in Used(s) /\ dir_namev(s, dir, p).err = "ok"
      BY <2>1 DEF PutUnset
    <3> QED BY Zenon, <2>1, <3>1, CreateNamev
  <2>2. CASE flag # "creat"
    <3>1. r = open_namev(s, dir, p)
      BY <2>2
    <3> HIDE DEF r
    <3>2. CASE Panics(r)
      BY <3>2
    <3>3. ASSUME NEW t, Above(s, t), Fails(r, t) \/ Gives(r, t)
          PROVE  \/ r.err # "ok" /\ Keeps(s, r.s) /\ r.vn \notin Ino
                 \/ \E x : Keeps(s, x) /\ Gives(r, x)
      <4>1. Good(t) /\ Keeps(s, t)
        BY Zenon, <3>3, KeepsMore DEF Above
      <4>2. CASE Fails(r, t)
        <5>1. r.s = t /\ r.err # "ok" /\ r.vn \notin Ino
          BY <4>1, <4>2, Found DEF NULL, Ino
        <5> QED BY Zenon, <4>1, <5>1
      <4>3. CASE Gives(r, t)
        BY <4>1, <4>3
      <4> QED BY Zenon, <3>3, <4>2, <4>3
    <3> QED BY <3>1, <3>2, <3>3, OpenNamev
  <2> QED BY Zenon, <2>1, <2>2
<1> HIDE DEF r, q
<1>3. CASE Panics(r)
  <2>1. q = r
    BY Zenon, <1>1, <1>3 DEF Panics, Stopped
  <2> QED BY Zenon, <1>3, <2>1 DEF q
<1>4. CASE r.err # "ok" /\ Keeps(s, r.s) /\ r.vn \notin Ino
  <2>1. Good(r.s) /\ ~Stopped(r.s)
    BY ZenonT(40), <1>4, GoodRuns DEF Keeps
  <2>2. CASE r.vn = NULL
    <3>1. q = Ret(r.s, r.err, NULL)
      BY ZenonT(40), <1>1, <1>4, <2>1, <2>2
    <3>2. q.s = r.s /\ q.err = r.err
      BY <3>1, Fields
    <3> QED BY ZenonT(40), <1>4, <3>2 DEF q
  <2>3. CASE r.vn # NULL
    <3>1. q = Ret(vput(r.s, r.vn), r.err, NULL)
      BY Zenon, <1>1, <1>4, <2>1, <2>3
    <3>2. q.s = vput(r.s, r.vn)
      BY SMTT(30), <3>1, Fields
    <3>3. Panics(q)
      BY SMTT(30), <1>4, <2>1, <3>2, NoVnodePanics DEF Panics
    <3> QED BY Zenon, <3>3 DEF q
  <2> QED BY SMTT(30), <2>2, <2>3
<1>40. ASSUME r.err # "ok", NEW t, Keeps(s, t), r.vn \in Used(t), r.s = Plus(t, r.vn)
       PROVE  q.err # "ok" /\ Keeps(s, q.s)
  <2>1. Good(t) /\ ~Stopped(r.s) /\ vput(r.s, r.vn) = t
    BY Zenon, <1>40, PlusGood, GoodRuns, PutPlus DEF Keeps
  <2>2. r.vn # NULL
    BY <1>40 DEF Used, Ino, NULL
  <2>3. q = Ret(t, r.err, NULL)
    BY Zenon, <1>1, <1>40, <2>1, <2>2
  <2> QED BY SMTT(30), <1>40, <2>3, Fields
<1>5. CASE flag = "creat" /\ r.err = "ok" /\ Opens(s, r.s, r.vn)
  <2>1. ~Stopped(r.s)
    BY Zenon, <1>5, GoodRuns DEF Opens
  <2>2. q = r
    BY <1>1, <1>5, <2>1
  <2> QED BY Zenon, <1>5, <2>2 DEF q
<1>6. ASSUME NEW t, Keeps(s, t), Gives(r, t)
      PROVE  \/ q.err # "ok" /\ Keeps(s, q.s)
             \/ q.err = "ok" /\ Opens(s, q.s, q.vn)
  <2>1. /\ r.err = "ok" /\ ~Stopped(r.s) /\ r.s = Plus(t, r.vn) /\ r.vn \in Used(t)
        /\ vput(r.s, r.vn) = t
    BY Zenon, <1>6, Found DEF Keeps
  <2>2. q = Ret(t, "EISDIR", NULL) \/ q = r
    BY Zenon, <1>1, <2>1
  <2>3. CASE q = Ret(t, "EISDIR", NULL)
    BY SMTT(30), <1>6, <2>3, Fields
  <2>4. CASE q = r
    <3>1. Opens(s, Plus(t, r.vn), r.vn)
      BY <1>6, <2>1, PlusOpens
    <3> QED BY Zenon, <2>1, <2>4, <3>1
  <2> QED BY Zenon, <2>2, <2>3, <2>4
<1> QED BY ZenonT(40), <1>2, <1>3, <1>4, <1>40, <1>5, <1>6 DEF q

-----------------------------------------------------------------------------
(* The inductive invariant.                                                 *)

(* A running system that is sound, and one that has stopped from there.     *)
LEMMA SoundStates ==
    ASSUME NEW s, Good(s), NEW o, NEW c, NEW d \in BOOLEAN, ~d => Owned(s, o, c)
    PROVE  /\ Sound(s, o, c, d)
           /\ \A f \in {"panic", "busy"} : Sound([s EXCEPT !.fault = f], o, c, d)
<1>1. s \in State /\ s.fault = "none"
  BY DEF Good
<1>2. Running(s) = s
  BY <1>1 DEF Running, State
<1>3. Sound(s, o, c, d)
  BY <1>1, <1>2 DEF Sound
<1>4. ASSUME NEW f \in {"panic", "busy"} PROVE Sound([s EXCEPT !.fault = f], o, c, d)
  <2> DEFINE t == [s EXCEPT !.fault = f]
  <2>0. t \in State /\ t.fault = f /\ t.inode = s.inode /\ t.vn_refcount = s.vn_refcount
    BY Zenon, <1>1 DEF State
  <2>01. Running(t) = s
    <3>1. Running(t) = [s EXCEPT !.fault = "none"]
      BY Zenon DEF Running
    <3> QED BY <1>2, <3>1 DEF Running
  <2>1. /\ t \in State /\ t.fault = f /\ t.inode = s.inode /\ t.vn_refcount = s.vn_refcount
        /\ Running(t) = s
    BY Zenon, <2>0, <2>01
  <2> HIDE DEF t
  <2>2. ~d => Owned(t, o, c)
    BY <2>1 DEF Owned, Used
  <2> QED BY <2>1, <2>2 DEF Sound, t
<1> QED BY <1>3, <1>4

(* A running system is well formed.                                         *)
LEMMA SoundGood ==
    ASSUME NEW s, NEW o, NEW c, Sound(s, o, c, FALSE), ~Stopped(s)
    PROVE  Good(s) /\ Owned(s, o, c)
<1>1. s \in State /\ Good(Running(s)) /\ Owned(s, o, c) /\ s.fault = "none"
  BY DEF Sound, Stopped
<1>2. Running(s) = s
  BY <1>1 DEF Running, State
<1> QED BY <1>1, <1>2

(* What Step makes of the outcome of a call.                                *)
After(s, t) == IF Stopped(t) THEN [s EXCEPT !.fault = t.fault] ELSE t

(* The calls that keep all references.                                      *)
LEMMA FineSound ==
    ASSUME NEW s, Good(s), NEW o, NEW c, Owned(s, o, c), NEW t, Fine(s, t)
    PROVE  Sound(After(s, t), o, c, FALSE)
<1>1. CASE t.fault = "panic"
  <2>1. After(s, t) = [s EXCEPT !.fault = "panic"]
    BY <1>1 DEF After, Stopped
  <2> QED BY ZenonT(120), <2>1, SoundStates
<1>2. CASE Keeps(s, t)
  <2>1. Good(t) /\ ~Stopped(t) /\ Used(s) \subseteq Used(t)
    BY Zenon, <1>2, GoodRuns, KeepsMore DEF Keeps
  <2>2. /\ o \in [Ino -> Nat] /\ s.vn_refcount \in [Ino -> Nat] /\ t.vn_refcount \in [Ino -> Nat]
        /\ \A j \in Ino : t.vn_refcount[j] >= s.vn_refcount[j]
        /\ c \in Used(s) /\ \A v \in Ino : o[v] > 0 => v \in Used(s)
    BY <1>2, <2>1 DEF Owned, Good, State, Keeps
  <2>3. ASSUME NEW v \in Used(t)
        PROVE  t.vn_refcount[v] >= 1 + o[v] + (IF c = v THEN 1 ELSE 0)
    <3>0. v \in Ino /\ t.vn_refcount[v] > 0
      BY Zenon, <2>1 DEF Used, Good, Resident
    <3>1. CASE v \in Used(s)
      <4>1. s.vn_refcount[v] >= 1 + o[v] + (IF c = v THEN 1 ELSE 0)
        BY Zenon, <3>1 DEF Owned
      <4> QED BY SMTT(30), <2>2, <3>0, <4>1
    <3>2. CASE v \notin Used(s)
      <4>1. o[v] = 0 /\ c # v
        BY SMTT(30), <2>2, <3>0, <3>2
      <4> QED BY SMTT(30), <2>2, <3>0, <4>1
    <3> QED BY Zenon, <3>1, <3>2
  <2>4. Owned(t, o, c)
    BY <2>1, <2>2, <2>3 DEF Owned
  <2>5. After(s, t) = t
    BY <2>1 DEF After
  <2> QED BY Zenon, <2>1, <2>4, <2>5, SoundStates
<1> QED BY Zenon, <1>1, <1>2 DEF Fine

(* do_chdir.                                                                *)
LEMMA MovesSound ==
    ASSUME NEW s, Good(s), NEW o, NEW c, Owned(s, o, c), NEW t, NEW v, Moves(s, t, c, v)
    PROVE  Sound(t, o, v, FALSE) /\ ~Stopped(t)
<1>1. Good(t) /\ ~Stopped(t) /\ v \in Used(t) /\ v \in Used(s) /\ v \in Ino
  BY Zenon, GoodRuns DEF Moves, Used
<1>2. /\ o \in [Ino -> Nat] /\ s.vn_refcount \in [Ino -> Nat] /\ t.vn_refcount \in [Ino -> Nat]
      /\ \A j \in Ino : t.vn_refcount[j] >= s.vn_refcount[j] + (IF j = v THEN 1 ELSE 0)
                                                         - (IF j = c THEN 1 ELSE 0)
      /\ c \in Used(s) /\ c \in Ino /\ \A j \in Ino : o[j] > 0 => j \in Used(s)
  BY Zenon, <1>1 DEF Owned, Good, State, Moves, Used
<1>3. ASSUME NEW j \in Used(s)
      PROVE  s.vn_refcount[j] >= 1 + o[j] + (IF c = j THEN 1 ELSE 0) /\ j \in Ino
  BY Zenon DEF Owned, Used
<1>4. \A j \in Used(s) : t.vn_refcount[j] >= 1 + o[j] + (IF v = j THEN 1 ELSE 0)
  BY SMTT(30), <1>2, <1>3
<1>5. ASSUME NEW j \in Used(s) PROVE j \in Used(t)
  <2>1. t.vn_refcount[j] > 0 /\ j \in Ino
    BY SMTT(30), <1>2, <1>3, <1>4
  <2> QED BY Zenon, <1>1, <2>1 DEF Good, Resident
<1>6. ASSUME NEW j \in Used(t)
      PROVE  t.vn_refcount[j] >= 1 + o[j] + (IF v = j THEN 1 ELSE 0)
  <2>0. j \in Ino /\ t.vn_refcount[j] > 0
    BY Zenon, <1>1 DEF Used, Good, Resident
  <2>1. CASE j \in Used(s)
    BY Zenon, <1>4, <2>1
  <2>2. CASE j \notin Used(s)
    <3>1. o[j] = 0 /\ s.vn_refcount[j] = 0 /\ c # j
      BY SMTT(30), <1>2, <2>0, <2>2 DEF Good, Resident
    <3>2. j # v
      BY Zenon, <1>1, <2>2
    <3> QED BY SMTT(30), <1>2, <2>0, <3>1, <3>2
  <2> QED BY Zenon, <2>1, <2>2
<1>7. Owned(t, o, v)
  BY <1>1, <1>2, <1>5, <1>6 DEF Owned
<1> QED BY ZenonT(40), <1>1, <1>7, SoundStates

(* do_open.                                                                 *)
LEMMA OpensSound ==
    ASSUME NEW s, Good(s), NEW o, NEW c, Owned(s, o, c), NEW t, NEW v, Opens(s, t, v)
    PROVE  Sound(t, [o EXCEPT ![v] = @ + 1], c, FALSE) /\ ~Stopped(t)
<1> DEFINE w == [o EXCEPT ![v] = @ + 1]
<1>1. Good(t) /\ ~Stopped(t) /\ v \in Used(t) /\ v \in Ino
  BY SMTT(30), GoodRuns DEF Opens, Used
<1>2. /\ o \in [Ino -> Nat] /\ s.vn_refcount \in [Ino -> Nat] /\ t.vn_refcount \in [Ino -> Nat]
      /\ \A j \in Ino : t.vn_refcount[j] >= s.vn_refcount[j] + (IF j = v THEN 1 ELSE 0)
      /\ t.vn_refcount[v] > 1
      /\ c \in Used(s) /\ \A j \in Ino : o[j] > 0 => j \in Used(s)
  BY Zenon, <1>1 DEF Owned, Good, State, Opens
<1>3. w \in [Ino -> Nat] /\ \A j \in Ino : w[j] = o[j] + (IF j = v THEN 1 ELSE 0)
  BY SMTT(30), <1>1, <1>2
<1> HIDE DEF w
<1>4. ASSUME NEW j \in Used(s) PROVE j \in Used(t)
  <2>1. j \in Ino /\ s.vn_refcount[j] > 0
    BY Zenon DEF Used, Good, Resident
  <2>2. t.vn_refcount[j] > 0
    BY SMTT(30), <1>2, <2>1
  <2> QED BY Zenon, <1>1, <2>1, <2>2 DEF Good, Resident
<1>5. ASSUME NEW j \in Used(t)
      PROVE  t.vn_refcount[j] >= 1 + w[j] + (IF c = j THEN 1 ELSE 0)
  <2>0. j \in Ino /\ t.vn_refcount[j] > 0
    BY Zenon, <1>1 DEF Used, Good, Resident
  <2>1. CASE j \in Used(s)
    <3>1. s.vn_refcount[j] >= 1 + o[j] + (IF c = j THEN 1 ELSE 0)
      BY Zenon, <2>1 DEF Owned
    <3> QED BY SMTT(30), <1>2, <1>3, <2>0, <3>1
  <2>2. CASE j \notin Used(s)
    <3>1. o[j] = 0 /\ c # j
      BY SMTT(30), <1>2, <2>0, <2>2
    <3> QED BY SMTT(30), <1>2, <1>3, <2>0, <3>1
  <2> QED BY Zenon, <2>1, <2>2
<1>6. \A j \in Ino : w[j] > 0 => j \in Used(t)
  BY SMTT(30), <1>1, <1>2, <1>3, <1>4
<1>7. Owned(t, w, c)
  BY <1>2, <1>3, <1>4, <1>5, <1>6 DEF Owned
<1> QED BY ZenonT(40), <1>1, <1>7, SoundStates DEF w

(* Closing a file.                                                          *)
LEMMA CloseSound ==
    ASSUME NEW s, Good(s), NEW o, NEW c, Owned(s, o, c), NEW v \in Ino, o[v] > 0
    PROVE  Sound(vput(s, v), [o EXCEPT ![v] = @ - 1], c, FALSE) /\ ~Stopped(vput(s, v))
<1> DEFINE w == [o EXCEPT ![v] = @ - 1]
           t == vput(s, v)
<1>1. /\ o \in [Ino -> Nat] /\ s.vn_refcount \in [Ino -> Nat] /\ v \in Used(s)
      /\ c \in Used(s) /\ \A j \in Ino : o[j] > 0 => j \in Used(s)
  BY Zenon DEF Owned, Good, State
<1>2. ASSUME NEW j \in Used(s)
      PROVE  s.vn_refcount[j] >= 1 + o[j] + (IF c = j THEN 1 ELSE 0) /\ j \in Ino
  BY Zenon DEF Owned, Used
<1>3. s.vn_refcount[v] > 1
  <2>1. s.vn_refcount[v] >= 1 + o[v] + (IF c = v THEN 1 ELSE 0)
    BY Zenon, <1>1, <1>2
  <2> QED BY SMTT(30), <1>1, <2>1
<1>4. Good(t) /\ Used(t) = Used(s) /\ t.vn_refcount = [s.vn_refcount EXCEPT ![v] = @ - 1]
  BY SMTT(30), <1>1, <1>3, MinusGood
<1>5. w \in [Ino -> Nat] /\ \A j \in Ino : w[j] = o[j] - (IF j = v THEN 1 ELSE 0)
  BY SMTT(30), <1>1
<1> HIDE DEF w, t
<1>6. ASSUME NEW j \in Used(t)
      PROVE  t.vn_refcount[j] >= 1 + w[j] + (IF c = j THEN 1 ELSE 0)
  <2>1. j \in Ino /\ s.vn_refcount[j] >= 1 + o[j] + (IF c = j THEN 1 ELSE 0)
    BY Zenon, <1>2, <1>4
  <2> QED BY SMTT(30), <1>1, <1>4, <1>5, <2>1
<1>7. \A j \in Ino : w[j] > 0 => j \in Used(t)
  BY SMTT(30), <1>1, <1>4, <1>5
<1>8. Owned(t, w, c)
  BY Zenon, <1>1, <1>4, <1>5, <1>6, <1>7 DEF Owned
<1>9. ~Stopped(t)
  BY <1>4, GoodRuns
<1> QED BY ZenonT(40), <1>4, <1>8, <1>9, SoundStates DEF w, t

(* vfs_shutdown.                                                            *)
LEMMA ShutdownSound ==
    ASSUME NEW s, Good(s), NEW o, NEW c, Owned(s, o, c)
    PROVE  LET t == vput(s, c) IN
           Sound(IF Stopped(t) THEN t
                 ELSE IF vfs_is_in_use(t) THEN Fault(t, "busy") ELSE ramfs_umount(t),
                 o, c, TRUE)
<1> DEFINE t == vput(s, c)
           u == vput(t, Root)
<1>1. o \in [Ino -> Nat] /\ s.vn_refcount \in [Ino -> Nat] /\ c \in Used(s) /\ c \in Ino
  BY DEF Owned, Good, State, Used
<1>2. s.vn_refcount[c] > 1
  <2>1. s.vn_refcount[c] >= 1 + o[c] + 1
    BY SMTT(30), <1>1 DEF Owned
  <2> QED BY SMTT(30), <1>1, <2>1
<1>3. Good(t) /\ ~Stopped(t)
  BY ZenonT(40), <1>1, <1>2, MinusGood, GoodRuns
<1> HIDE DEF t
<1>4. t \in State /\ t.fault = "none" /\ Root \in Used(t)
  BY <1>3 DEF Good, DirsOf, Used
<1>5. Sound(Fault(t, "busy"), o, c, TRUE)
  <2>1. Fault(t, "busy") = [t EXCEPT !.fault = "busy"]
    BY <1>4 DEF Fault
  <2>2. \A d \in BOOLEAN : d => Sound([t EXCEPT !.fault = "busy"], o, c, d)
    BY ZenonT(40), <1>3, SoundStates
  <2> QED BY Zenon, <2>1, <2>2
<1>6. Sound(ramfs_umount(t), o, c, TRUE)
  <2>1. Use(t, Root) = t /\ Root \in Ino
    BY <1>3, <1>4, UseGood
  <2>2. u = IF t.vn_refcount[Root] > 1 THEN [t EXCEPT !.vn_refcount[Root] = @ - 1]
            ELSE [t EXCEPT !.vn_refcount[Root] = 0,
                       !.inode[Root] = IF @.rf_linkcount = 1 THEN FreeInode
                                       ELSE [@ EXCEPT !.rf_linkcount = @ - 1]]
    BY <1>3, <2>1 DEF vput, Live
  <2>3. u.fault = "none" /\ "inode" \in DOMAIN u /\ "fault" \in DOMAIN u
    BY <1>4, <2>2 DEF State
  <2> HIDE DEF u
  <2>4. ramfs_umount(t) = [u EXCEPT !.inode = [i \in Ino |-> FreeInode]]
    BY DEF ramfs_umount, u
  <2>5. ramfs_umount(t).fault = "none" /\ ramfs_umount(t).inode = [i \in Ino |-> FreeInode]
    BY <2>3, <2>4
  <2> QED BY <2>5 DEF Sound
<1> QED BY ZenonT(40), <1>3, <1>5, <1>6 DEF t

(* The path names do not end in a slash.                                    *)
PlainPaths == \A p \in Path : p.name # ""

(* Every name is then one.                                                  *)
LEMMA PathsNamed ==
    ASSUME PlainPaths, NEW p \in Path
    PROVE  Named(p.name)
<1>1. p.name \in STRING
  BY Zenon, ConstantsOK DEF IsPath
<1> QED BY Zenon, <1>1 DEF PlainPaths, Named

(* The system begins with a sound file system.                              *)
LEMMA InitSound ==
    ASSUME Facts, Init
    PROVE  IInv
<1> DEFINE free == [type |-> "free", rf_linkcount |-> 0, ent |-> <<>>]
           root == [type |-> "dir", rf_linkcount |-> 2, ent |-> NewDir(0, 0)]
           n == [i \in Ino |-> IF i = Root THEN root ELSE free]
           v == [i \in Ino |-> IF i = Root THEN 2 ELSE 0]
<1>1. 0 = Root /\ Root \in Ino
  BY ConstantsOK DEF Ino, Root
<1>2. /\ NewDir(0, 0) \in [Slot -> Entry]
      /\ NewDir(0, 0)[1] = [rd_ino |-> 0, rd_name |-> "."]
      /\ NewDir(0, 0)[2] = [rd_ino |-> 0, rd_name |-> ".."]
      /\ \A k \in Slot : /\ NewDir(0, 0)[k].rd_ino \in {0, 0, Root}
                         /\ NewDir(0, 0)[k].rd_name \in Special
  BY ZenonT(40), <1>1, NewDirSlots
<1>3. fs = [inode |-> n, vn_refcount |-> v, fault |-> "none"]
  BY DEF Init, FreeInode
<1>4. root \in InodeT /\ free \in InodeT
  <2>1. NewDir(0, 0) \in [Slot -> Entry]
    BY Zenon, <1>2
  <2> QED BY <2>1 DEF InodeT, Type
<1>5. /\ root.type = "dir" /\ root.rf_linkcount = 2 /\ root.ent = NewDir(0, 0)
      /\ free.type = "free"
  OBVIOUS
<1> HIDE DEF root, free
<1>6. n \in [Ino -> InodeT] /\ v \in [Ino -> Nat] /\ n[Root] = root /\ v[Root] = 2
      /\ \A i \in Ino : i # Root => n[i] = free /\ v[i] = 0
  BY Zenon, <1>1, <1>4
<1> HIDE DEF n, v
<1>7. fs \in State /\ fs.inode = n /\ fs.vn_refcount = v /\ fs.fault = "none"
  BY Zenon, <1>3, <1>6 DEF State, InodeT
<1>8. Used(fs) = {Root} /\ DirsOf(fs) = {Root}
  BY ZenonT(40), <1>1, <1>5, <1>6, <1>7 DEF Used, DirsOf
<1>9. Resident(fs)
  BY <1>1, <1>6, <1>7, <1>8 DEF Resident
<1>10. Directory(fs, Root)
  <2> DEFINE a == NewDir(0, 0)
  <2>1. fs.inode[Root].ent = a
    BY Zenon, <1>5, <1>6, <1>7
  <2>2. a[2].rd_name = ".." /\ a[2].rd_ino = Root
    <3>1. a[2] = [rd_ino |-> 0, rd_name |-> ".."]
      BY Zenon, <1>2
    <3> QED BY <1>1, <3>1
  <2>3. a[1] = [rd_ino |-> Root, rd_name |-> "."] /\ a \in [Slot -> Entry]
    BY Zenon, <1>1, <1>2
  <2>4. \A k \in Slot : a[k].rd_ino \in Used(fs)
    BY Zenon, <1>1, <1>2, <1>8
  <2>5. \A k, l \in Slot : a[k].rd_name = a[l].rd_name /\ a[k].rd_name # "" => k = l
    BY ZenonT(40), <1>1, NewDirSlots
  <2> HIDE DEF a
  <2>6. a[2].rd_ino \in DirsOf(fs)
    BY <1>8, <2>2
  <2> QED BY ZenonT(40), <2>1, <2>2, <2>3, <2>4, <2>5, <2>6 DEF Directory
<1>11. NamesOf(fs, Root) = {}
  <2> SUFFICES ASSUME NEW x \in NamesOf(fs, Root) PROVE FALSE
    OBVIOUS
  <2>1. x \in DirsOf(fs) \X Slot /\ fs.inode[x[1]].ent[x[2]].rd_name \notin Special
    BY Zenon DEF NamesOf, Special
  <2>2. x[1] = Root /\ x[2] \in Slot
    BY Zenon, <1>8, <2>1
  <2>3. fs.inode[Root].ent = NewDir(0, 0)
    BY <1>5, <1>6, <1>7
  <2>4. NewDir(0, 0)[x[2]].rd_name \in Special
    BY ZenonT(40), <1>2, <2>2
  <2> QED BY <2>1, <2>2, <2>3, <2>4
<1>12. Counted(fs)
  <2>1. Cardinality(NamesOf(fs, Root)) = 0
    BY Zenon, <1>11 DEF Facts, SizesCounted
  <2>2. fs.inode[Root].rf_linkcount = 2
    BY <1>5, <1>6, <1>7
  <2> QED BY SMTT(30), <1>8, <2>1, <2>2 DEF Counted
<1>13. Good(fs)
  BY ZenonT(40), <1>7, <1>8, <1>9, <1>10, <1>12 DEF Good
<1>14. opened = [i \in Ino |-> 0] /\ cwd = Root /\ down = FALSE
  BY DEF Init
<1>15. Owned(fs, opened, cwd)
  BY SMTT(30), <1>1, <1>6, <1>7, <1>8, <1>14 DEF Owned
<1>16. stray \in [Ino -> Nat]
  BY DEF Init
<1>17. Sound(fs, opened, cwd, down)
  BY ZenonT(40), <1>13, <1>14, <1>15, SoundStates
<1> QED BY <1>16, <1>17 DEF IInv

(* Every step keeps it sound.                                               *)
LEMMA NextSound ==
    ASSUME Facts, PlainPaths, IInv, [Next]_vars
    PROVE  IInv'
<1>01. stray' \in [Ino -> Nat] /\ (NoStray' => NoStray)
  <2>1. CASE UNCHANGED stray
    BY Zenon, <2>1 DEF IInv, NoStray
  <2>2. CASE Open
    <3>1. PICK unset : stray' = [v \in Ino |-> stray[v] + (IF v \in unset THEN 1 ELSE 0)]
      BY ZenonT(120), <2>2 DEF Open, With
    <3> QED BY <3>1 DEF IInv, NoStray
  <2> QED BY ZenonT(40), <2>1, <2>2
        DEF Next, Call, Mknod, Mkdir, Rmdir, Unlink, Link, Rename, Stat, Chdir, Close,
            vfs_shutdown, vars, With
<1> SUFFICES ASSUME NoStray' PROVE Sound(fs', opened', cwd', down')
  BY Zenon, <1>01 DEF IInv
<1>02. NoStray /\ Sound(fs, opened, cwd, down)
  BY Zenon, <1>01 DEF IInv
<1>0. ASSUME ~down, ~Stopped(fs)
      PROVE  Good(fs) /\ Owned(fs, opened, cwd) /\ cwd \in Used(fs)
  <2>1. Sound(fs, opened, cwd, FALSE)
    BY Zenon, <1>0, <1>02 DEF Sound
  <2> QED BY ZenonT(40), <1>0, <2>1, SoundGood DEF Owned
<1>1. ASSUME NEW s, NEW o, NEW c, Sound(s, o, c, FALSE), ~down, UNCHANGED down
      PROVE  Sound(s, o, c, down')
  BY <1>1 DEF Sound
<1>2. ASSUME NEW t, Call(t), Good(fs) => Fine(fs, t)
      PROVE  Sound(fs', opened', cwd', down')
  <2>1. ~down /\ ~Stopped(fs) /\ fs' = After(fs, t) /\ UNCHANGED <<down, cwd, opened>>
    BY <1>2 DEF Call, Step, After
  <2>2. Sound(After(fs, t), opened, cwd, FALSE)
    BY Zenon, <1>0, <1>2, <2>1, FineSound
  <2> QED BY Zenon, <1>1, <1>2, <2>1, <2>2
<1>3. \A p \in Path : Named(p.name)
  BY PathsNamed
<1>4. ASSUME NEW t, Call(t) PROVE ~down /\ ~Stopped(fs)
  BY <1>4 DEF Call, Step
<1>5. CASE Mknod
  <2>1. PICK p \in Path, lucky \in BOOLEAN : Call(do_mknod(fs, cwd, p, lucky).s)
    BY <1>5 DEF Mknod
  <2>2. ASSUME Good(fs) PROVE Fine(fs, do_mknod(fs, cwd, p, lucky).s)
    <3>1. CASE lucky
      BY ZenonT(40), <1>0, <1>3, <1>4, <2>1, <2>2, <3>1, MakeFine DEF do_mknod
    <3>2. CASE ~lucky
      <4>1. do_mknod(fs, cwd, p, lucky) = Ret(Fault(fs, "panic"), "ok", NULL)
        BY <3>2 DEF do_mknod
      <4> QED BY <2>2, <4>1, Fields, FaultFine
    <3> QED BY <3>1, <3>2
  <2> QED BY ZenonT(40), <1>2, <1>5, <2>1, <2>2 DEF Mknod
<1>6. CASE Mkdir
  <2>1. PICK p \in Path : Call(do_mkdir(fs, cwd, p).s)
    BY <1>6 DEF Mkdir
  <2>2. Fine(fs, do_mkdir(fs, cwd, p).s)
    BY ZenonT(40), <1>0, <1>3, <1>4, <2>1, MakeFine DEF do_mkdir
  <2> QED BY ZenonT(40), <1>2, <1>6, <2>1, <2>2 DEF Mkdir
<1>7. CASE Rmdir
  <2>1. PICK p \in Path : Call(do_rmdir(fs, cwd, p).s)
    BY <1>7 DEF Rmdir
  <2>2. Fine(fs, do_rmdir(fs, cwd, p).s)
    BY ZenonT(40), <1>0, <1>3, <1>4, <2>1, RmdirFine
  <2> QED BY <1>2, <1>7, <2>1, <2>2 DEF Rmdir
<1>8. CASE Unlink
  <2>1. PICK p \in Path : Call(do_unlink(fs, cwd, p).s)
    BY <1>8 DEF Unlink
  <2>2. Fine(fs, do_unlink(fs, cwd, p).s)
    BY ZenonT(40), <1>0, <1>3, <1>4, <2>1, UnlinkFine
  <2> QED BY <1>2, <1>8, <2>1, <2>2 DEF Unlink
<1>9. CASE Link
  <2>1. PICK p \in Path, q \in Path : Call(do_link(fs, cwd, p, q).s)
    BY <1>9 DEF Link
  <2>2. Fine(fs, do_link(fs, cwd, p, q).s)
    BY ZenonT(40), <1>0, <1>3, <1>4, <2>1, LinkFine
  <2> QED BY Zenon, <1>2, <1>9, <2>1, <2>2 DEF Link
<1>10. CASE Rename
  <2>1. PICK p \in Path, q \in Path : Call(do_rename(fs, cwd, p, q).s)
    BY <1>10 DEF Rename
  <2>2. Fine(fs, do_rename(fs, cwd, p, q).s)
    BY ZenonT(40), <1>0, <1>3, <1>4, <2>1, RenameFine
  <2> QED BY <1>2, <1>10, <2>1, <2>2 DEF Rename
<1>11. CASE Stat
  <2>1. PICK p \in Path : Call(do_stat(fs, cwd, p).s)
    BY <1>11 DEF Stat
  <2>2. Fine(fs, do_stat(fs, cwd, p).s)
    BY ZenonT(40), <1>0, <1>3, <1>4, <2>1, StatFine
  <2> QED BY <1>2, <1>11, <2>1, <2>2 DEF Stat
<1>12. CASE Chdir
  <2>1. PICK p \in Path :
          LET r == do_chdir(fs, cwd, p) IN
          /\ Step(r.s)
          /\ cwd' = IF Stopped(r.s) \/ r.err # "ok" THEN cwd ELSE r.vn
          /\ UNCHANGED <<opened, stray>>
    BY <1>12 DEF Chdir, With
  <2> DEFINE r == do_chdir(fs, cwd, p)
  <2>2. ~down /\ ~Stopped(fs) /\ fs' = After(fs, r.s) /\ UNCHANGED down
    BY <2>1 DEF Step, After
  <2>3. Good(fs) /\ Owned(fs, opened, cwd) /\ cwd \in Used(fs)
    BY <1>0, <2>2
  <2>4. fs.vn_refcount[cwd] > 1
    <3>1. fs.vn_refcount[cwd] >= 1 + opened[cwd] + 1 /\ opened[cwd] \in Nat /\ fs.vn_refcount[cwd] \in Nat
      BY SMTT(30), <2>3 DEF Owned, Used, Good, State
    <3> QED BY SMTT(30), <3>1
  <2>5. \/ r.err # "ok" /\ Keeps(fs, r.s)
        \/ r.err = "ok" /\ Moves(fs, r.s, cwd, r.vn)
    BY Zenon, <2>3, <2>4, ChdirMoves
  <2> HIDE DEF r
  <2>6. CASE r.err # "ok" /\ Keeps(fs, r.s)
    <3>1. cwd' = cwd /\ opened' = opened
      BY <2>1, <2>6 DEF r
    <3>2. Sound(After(fs, r.s), opened, cwd, FALSE)
      BY Zenon, <2>3, <2>6, FineSound DEF Fine
    <3> QED BY ZenonT(40), <1>1, <2>2, <3>1, <3>2
  <2>7. CASE r.err = "ok" /\ Moves(fs, r.s, cwd, r.vn)
    <3>1. Sound(r.s, opened, r.vn, FALSE) /\ ~Stopped(r.s)
      BY ZenonT(40), <2>3, <2>7, MovesSound
    <3>2. cwd' = r.vn /\ opened' = opened /\ fs' = r.s
      BY Zenon, <2>1, <2>2, <2>7, <3>1 DEF r, After
    <3> QED BY Zenon, <1>1, <2>2, <3>1, <3>2
  <2> QED BY Zenon, <2>5, <2>6, <2>7
<1>13. CASE Open
  <2>1. PICK p \in Path, flag \in {"read", "write", "creat"}, garbage \in Garbage :
          LET r == do_open(fs, cwd, p, flag, garbage)
              unset == PutUnset(fs, cwd, p, flag, garbage)
          IN
          /\ garbage \in Ino => fs.vn_refcount[garbage] > 0
          /\ stray' = [v \in Ino |-> stray[v] + (IF v \in unset THEN 1 ELSE 0)]
          /\ Step(r.s)
          /\ opened' = IF Stopped(r.s) \/ r.err # "ok" THEN opened
                         ELSE [opened EXCEPT ![r.vn] = @ + 1]
          /\ UNCHANGED cwd
    BY ZenonT(120), <1>13 DEF Open, With
  <2> DEFINE r == do_open(fs, cwd, p, flag, garbage)
  <2>2. ~down /\ ~Stopped(fs) /\ fs' = After(fs, r.s) /\ UNCHANGED down
    BY <2>1 DEF Step, After
  <2>3. Good(fs) /\ Owned(fs, opened, cwd) /\ cwd \in Used(fs)
    BY <1>0, <2>2
  <2>4. garbage \in Ino => garbage \in Used(fs)
    BY Zenon, <2>1, <2>3 DEF Good, Resident
  <2>40. PutUnset(fs, cwd, p, flag, garbage) = {}
    <3> DEFINE unset == PutUnset(fs, cwd, p, flag, garbage)
    <3>1. unset \subseteq Ino
      BY DEF PutUnset
    <3>2. stray' = [v \in Ino |-> stray[v] + (IF v \in unset THEN 1 ELSE 0)]
      BY Zenon, <2>1
    <3> HIDE DEF unset
    <3>3. ASSUME NEW v \in unset PROVE FALSE
      <4>1. stray'[v] = stray[v] + 1 /\ stray'[v] = 0 /\ stray[v] = 0
        BY <1>02, <3>1, <3>2, <3>3 DEF NoStray
      <4> QED BY <4>1
    <3> QED BY Zenon, <3>3 DEF unset
  <2>5. \/ Panics(r)
        \/ r.err # "ok" /\ Keeps(fs, r.s)
        \/ r.err = "ok" /\ Opens(fs, r.s, r.vn)
    BY Zenon, <1>3, <2>3, <2>4, <2>40, OpenOpens
  <2>50. /\ opened' = IF Stopped(r.s) \/ r.err # "ok" THEN opened
                         ELSE [opened EXCEPT ![r.vn] = @ + 1]
         /\ cwd' = cwd
    BY <2>1
  <2> HIDE DEF r
  <2>6. CASE Panics(r) \/ (r.err # "ok" /\ Keeps(fs, r.s))
    <3>1. cwd' = cwd /\ opened' = opened
      BY <2>50, <2>6 DEF Panics, Stopped
    <3>2. Sound(After(fs, r.s), opened, cwd, FALSE)
      BY Zenon, <2>3, <2>6, FineSound DEF Fine, Panics
    <3> QED BY ZenonT(40), <1>1, <2>2, <3>1, <3>2
  <2>7. CASE r.err = "ok" /\ Opens(fs, r.s, r.vn)
    <3>1. Sound(r.s, [opened EXCEPT ![r.vn] = @ + 1], cwd, FALSE) /\ ~Stopped(r.s)
      BY Zenon, <2>3, <2>7, OpensSound
    <3>2. cwd' = cwd /\ opened' = [opened EXCEPT ![r.vn] = @ + 1] /\ fs' = r.s
      BY <2>2, <2>50, <2>7, <3>1 DEF After
    <3> QED BY Zenon, <1>1, <2>2, <3>1, <3>2
  <2> QED BY <2>5, <2>6, <2>7
<1>14. CASE Close
  <2>1. PICK v \in Ino : /\ opened[v] > 0 /\ Step(vput(fs, v))
                         /\ opened' = [opened EXCEPT ![v] = @ - 1] /\ cwd' = cwd
    BY Zenon, <1>14 DEF Close
  <2>2. ~down /\ ~Stopped(fs) /\ fs' = After(fs, vput(fs, v)) /\ UNCHANGED down
    BY <2>1 DEF Step, After
  <2>3. /\ Sound(vput(fs, v), [opened EXCEPT ![v] = @ - 1], cwd, FALSE)
        /\ ~Stopped(vput(fs, v))
    BY Zenon, <1>0, <2>1, <2>2, CloseSound
  <2>4. fs' = vput(fs, v)
    BY <2>2, <2>3 DEF After
  <2> QED BY Zenon, <1>1, <2>1, <2>2, <2>3, <2>4
<1>15. CASE vfs_shutdown
  <2>1. /\ ~down /\ ~Stopped(fs) /\ down' = TRUE /\ cwd' = cwd /\ opened' = opened
        /\ fs' = LET s == vput(fs, cwd) IN
                 IF Stopped(s) THEN s
                 ELSE IF vfs_is_in_use(s) THEN Fault(s, "busy") ELSE ramfs_umount(s)
    BY SMTT(30), <1>15 DEF vfs_shutdown
  <2>2. Sound(fs', opened, cwd, TRUE)
    BY ZenonT(40), <1>0, <2>1, ShutdownSound
  <2> QED BY Zenon, <2>1, <2>2
<1>16. CASE UNCHANGED vars
  BY Zenon, <1>02, <1>16 DEF vars
<1> QED BY ZenonT(40), <1>5, <1>6, <1>7, <1>8, <1>9, <1>10, <1>11, <1>12, <1>13, <1>14, <1>15, <1>16 DEF Next

(* What the invariant says of a file system that is sound.                  *)
LEMMA SoundShows ==
    ASSUME IInv, NoStray
    PROVE  LinkCounts /\ DirectoriesSound /\ NoStaleVnode /\ RefsCover
<1> SUFFICES LinkCounts /\ DirectoriesSound /\ RefsCover /\ ~Dangling
  <2>1. fs.fault # "stale"
    BY DEF IInv, Sound
  <2> QED BY Zenon, <2>1 DEF NoStaleVnode
<1>1. Sound(fs, opened, cwd, down) /\ \A v \in Ino : stray[v] = 0
  BY Zenon DEF IInv, NoStray
<1>2. CASE fs.inode = [i \in Ino |-> FreeInode] /\ down
  <2>1. \A i \in Ino : fs.inode[i].type = "free"
    <3>1. FreeInode.type = "free"
      BY SMT DEF FreeInode
    <3> QED BY Zenon, <1>2, <3>1
  <2>2. LinkCounts
    BY <2>1 DEF LinkCounts
  <2>3. Dirs = {}
    BY <2>1 DEF Dirs
  <2>4. DirectoriesSound
    BY Zenon, <2>3 DEF DirectoriesSound
  <2>5. RefsCover /\ ~Dangling
    BY Zenon, <1>2 DEF RefsCover, Dangling
  <2> QED BY Zenon, <2>2, <2>4, <2>5
<1>3. CASE fs \in State /\ Good(Running(fs)) /\ (~down => Owned(fs, opened, cwd))
  <2> DEFINE s == Running(fs)
  <2>1. Good(s) /\ s.inode = fs.inode /\ s.vn_refcount = fs.vn_refcount
    BY <1>3 DEF Running, State
  <2> HIDE DEF s
  <2>2. Used(fs) = Used(s) /\ Dirs = DirsOf(s) /\ \A i : Names(i) = NamesOf(s, i)
    BY ZenonT(40), <2>1 DEF Used, Dirs, DirsOf, Names, NamesOf
  <2>3. LinkCounts
    <3> DEFINE links(i) == Cardinality(Names(i)) + (IF fs.vn_refcount[i] > 0 THEN 1 ELSE 0)
                                                 + (IF i = Root THEN 1 ELSE 0)
    <3> SUFFICES ASSUME NEW i \in Ino, fs.inode[i].type # "free"
                 PROVE  fs.inode[i].rf_linkcount = links(i)
      <4>1. \A i \in Ino : fs.inode[i].rf_linkcount \in Int
        BY <1>3 DEF State
      <4> HIDE DEF links
      <4>2. ASSUME NEW i \in Ino, fs.inode[i].rf_linkcount = links(i)
            PROVE  fs.inode[i].rf_linkcount >= links(i)
        BY <4>1, <4>2
      <4> QED BY Zenon, <4>2 DEF LinkCounts, links
    <3>1. i \in Used(s)
      BY Zenon, <2>2 DEF Used
    <3>2. s.inode[i].rf_linkcount = Cardinality(NamesOf(s, i)) + 1 + (IF i = Root THEN 1 ELSE 0)
          /\ s.vn_refcount[i] > 0
      BY <2>1, <3>1 DEF Good, Counted, Resident
    <3> QED BY Zenon, <2>1, <2>2, <3>2
  <2>4. DirectoriesSound
    <3> SUFFICES ASSUME NEW d \in Dirs, NEW k \in Slot, fs.inode[d].ent[k].rd_name # ""
                 PROVE  /\ fs.inode[fs.inode[d].ent[k].rd_ino].type # "free"
                        /\ \A l \in Slot : fs.inode[d].ent[l].rd_name = fs.inode[d].ent[k].rd_name
                                             => k = l
      BY Zenon DEF DirectoriesSound
    <3>1. Directory(s, d)
      BY Zenon, <2>1, <2>2 DEF Good
    <3>2. /\ fs.inode[d].ent[k].rd_ino \in Used(fs)
          /\ \A j, l \in Slot : fs.inode[d].ent[j].rd_name = fs.inode[d].ent[l].rd_name
                                /\ fs.inode[d].ent[j].rd_name # "" => j = l
      BY ZenonT(40), <2>1, <2>2, <3>1 DEF Directory
    <3> QED BY Zenon, <3>2 DEF Used
  <2>5. ASSUME ~down, NEW v \in Ino
        PROVE  fs.vn_refcount[v] >= Owns(v) /\ fs.vn_refcount[v] \in Nat /\ Owns(v) \in Nat
    <3>1. Owned(fs, opened, cwd)
      BY SMTT(30), <1>3, <2>5
    <3>2. opened[v] \in Nat /\ fs.vn_refcount[v] \in Nat /\ Root \in Used(fs)
      BY ZenonT(40), <1>3, <2>1, <2>2, <3>1 DEF Owned, State, Good, DirsOf, Used
    <3>3. CASE v \in Used(fs)
      <4>1. fs.vn_refcount[v] >= 1 + opened[v] + (IF cwd = v THEN 1 ELSE 0)
        BY <3>1, <3>3 DEF Owned
      <4> QED BY <3>2, <4>1 DEF Owns
    <3>4. CASE v \notin Used(fs)
      <4>1. opened[v] = 0 /\ cwd # v /\ v # Root
        BY <3>1, <3>2, <3>4 DEF Owned
      <4> QED BY <3>2, <4>1 DEF Owns
    <3> QED BY <3>3, <3>4
  <2>6. RefsCover
    <3> SUFFICES ASSUME ~down, NEW v \in Ino PROVE fs.vn_refcount[v] + stray[v] >= Owns(v)
      BY DEF RefsCover
    <3> QED BY <1>1, <2>5
  <2>7. ~Dangling
    <3> SUFFICES ASSUME ~down, NEW v \in Ino, fs.vn_refcount[v] = 0 PROVE ~(Owns(v) > 0)
      BY Zenon DEF Dangling
    <3> QED BY <2>5
  <2> QED BY Zenon, <2>3, <2>4, <2>6, <2>7
<1> QED BY Zenon, <1>1, <1>2, <1>3 DEF Sound

(* The file system is always sound.                                         *)
LEMMA AlwaysSound ==
    ASSUME Facts, PlainPaths
    PROVE  Spec => []IInv
<1>1. Init => IInv
  BY InitSound
<1>2. IInv /\ [Next]_vars => IInv'
  BY NextSound
<1> QED BY <1>1, <1>2, PTL DEF Spec

-----------------------------------------------------------------------------
(* The facts about numbers and finite sets, from the library.               *)
INSTANCE FiniteSetTheorems

(* They hold.                                                               *)
LEMMA FactsHold == Facts
<1>1. LeastNumber
  <2> SUFFICES ASSUME NEW S \in SUBSET Nat, S # {} PROVE \E m \in S : \A n \in S : m <= n
    BY DEF LeastNumber
  <2> DEFINE R == OpToRel(<, Nat)
  <2>1. IsWellFoundedOn(R, Nat)
    BY NatLessThanWellFounded
  <2>2. \A m, n \in Nat : n < m => <<n, m>> \in R
    BY DEF OpToRel
  <2> HIDE DEF R
  <2>3. PICK m \in S : \A n \in S : ~ (<<n, m>> \in R)
    BY Zenon, <2>1, WFMin
  <2>4. \A n \in S : m <= n
    <3> TAKE n \in S
    <3>1. m \in Nat /\ n \in Nat /\ ~ (n < m)
      BY ZenonT(40), <2>2, <2>3
    <3> QED BY <3>1
  <2> QED BY ZenonT(40), <2>3, <2>4
<1>2. FiniteSetsClosed
  <2>1. \A a, b \in Int : IsFiniteSet(a..b)
    BY FS_Interval
  <2>2. \A S, T : IsFiniteSet(S) /\ IsFiniteSet(T) => IsFiniteSet(S \X T)
    BY Zenon, FS_Product
  <2>3. \A S, T : IsFiniteSet(T) /\ S \subseteq T => IsFiniteSet(S)
    BY Zenon, FS_Subset
  <2> QED BY ZenonT(40), <2>1, <2>2, <2>3 DEF FiniteSetsClosed
<1>3. SizesCounted
  <2>1. \A S : IsFiniteSet(S) => Cardinality(S) \in Nat
    BY Zenon, FS_CardinalityType
  <2>2. Cardinality({}) = 0 /\ \A e : Cardinality({e}) = 1
    BY Zenon, FS_EmptySet, FS_Singleton
  <2>3. \A S, e : IsFiniteSet(S) /\ e \notin S => Cardinality(S \cup {e}) = Cardinality(S) + 1
    BY Zenon, FS_AddElement
  <2>4. \A S, e : IsFiniteSet(S) /\ e \in S => Cardinality(S \ {e}) = Cardinality(S) - 1
    BY FS_RemoveElement
  <2> QED BY Zenon, <2>1, <2>2, <2>3, <2>4 DEF SizesCounted
<1> QED BY ZenonT(40), <1>1, <1>2, <1>3 DEF Facts

(* ramfs.c, vnode.c: the link count of every inode is the number of its     *)
(* names and vnodes, whatever calls programs make, as long as do_open has   *)
(* not put a vnode left on its stack.                                       *)
THEOREM LinksCounted ==
    ASSUME PlainPaths
    PROVE  Spec => [](NoStray => LinkCounts)
BY FactsHold, AlwaysSound, SoundShows, PTL

(* ramfs.c: as long, every entry leads to an inode that is used, and no     *)
(* directory has a name twice.                                              *)
THEOREM DirectoriesKept ==
    ASSUME PlainPaths
    PROVE  Spec => [](NoStray => DirectoriesSound)
BY FactsHold, AlwaysSound, SoundShows, PTL

(* namev.c, vfs_syscall.c, open.c: nobody uses or holds a vnode that a vput *)
(* has freed, unless do_open has put one left on its stack: that is the     *)
(* only call that takes a vnode from its owners.                            *)
THEOREM VnodesInUse ==
    ASSUME PlainPaths
    PROVE  Spec => []NoStaleVnode
<1>1. IInv => NoStaleVnode
  BY Zenon, SoundShows DEF NoStaleVnode
<1> QED BY <1>1, FactsHold, AlwaysSound, PTL

(* vnode.c: as long, every open file, the working directory and fs_root     *)
(* have a reference of their own.                                           *)
THEOREM ReferencesOwned ==
    ASSUME PlainPaths
    PROVE  Spec => [](NoStray => RefsCover)
BY FactsHold, AlwaysSound, SoundShows, PTL
=============================================================================
