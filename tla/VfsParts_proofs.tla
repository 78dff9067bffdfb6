--------------------------- MODULE VfsParts_proofs ---------------------------
(***************************************************************************)
(* Lemmas about the functions of module Vfs that the system calls are made *)
(* of: vnode.c, ramfs.c and namev.c, for inode tables and directories of   *)
(* any size.                                                               *)
(***************************************************************************)
EXTENDS Vfs, Counting, TLAPS

(* The states of the file system.                                           *)
Type  == {"free", "dir", "data", "chr"}
Special == {"", ".", ".."}
Name  == STRING \cup Special
Entry == [rd_ino : Ino, rd_name : Name]
State == [inode : [Ino -> [type : Type, rf_linkcount : Int,
                           ent : [Slot -> Entry] \cup {<<>>}]],
          vn_refcount : [Ino -> Nat], fault : {"none", "panic", "stale", "busy"}]

Used(s) == {i \in Ino : s.inode[i].type # "free"}

DirsOf(s) == {d \in Ino : s.inode[d].type = "dir"}
NamesOf(s, i) == {e \in DirsOf(s) \X Slot :
                    /\ s.inode[e[1]].ent[e[2]].rd_ino = i
                    /\ s.inode[e[1]].ent[e[2]].rd_name \notin {"", ".", ".."}}

(* The vnode of every inode that is used, and of no other, is in use: the   *)
(* references that the calls leave behind are never given back.             *)
Resident(s) == \A i \in Ino : s.vn_refcount[i] > 0 <=> i \in Used(s)

Counted(s) ==
    \A i \in Used(s) :
        s.inode[i].rf_linkcount =
            Cardinality(NamesOf(s, i)) + 1 + (IF i = Root THEN 1 ELSE 0)

(* A directory begins with "." and "..", which leads to a directory; its    *)
(* slots lead to inodes, the emptied ones too; no name occurs twice.        *)
Directory(s, d) ==
    LET ent == s.inode[d].ent IN
    /\ ent \in [Slot -> Entry]
    /\ ent[1] = [rd_ino |-> d, rd_name |-> "."]
    /\ ent[2].rd_name = ".." /\ ent[2].rd_ino \in DirsOf(s)
    /\ \A k \in Slot : ent[k].rd_ino \in Used(s)
    /\ \A k, l \in Slot : ent[k].rd_name = ent[l].rd_name /\ ent[k].rd_name # "" => k = l

Good(s) ==
    /\ s \in State /\ s.fault = "none"
    /\ Root \in DirsOf(s)
    /\ Resident(s) /\ Counted(s)
    /\ \A d \in DirsOf(s) : Directory(s, d)

-----------------------------------------------------------------------------
(* vnode.c: taking and giving back a reference.                             *)

Refs(s, f)  == [s EXCEPT !.vn_refcount = f]
Plus(s, v)  == Refs(s, [s.vn_refcount EXCEPT ![v] = @ + 1])
Minus(s, v) == Refs(s, [s.vn_refcount EXCEPT ![v] = @ - 1])

(* Other numbers of references, but to the same vnodes, leave the file      *)
(* system well formed.                                                      *)
LEMMA RefsGood ==
    ASSUME NEW s, Good(s), NEW f \in [Ino -> Nat],
           \A i \in Ino : f[i] > 0 <=> s.vn_refcount[i] > 0
    PROVE  /\ Good(Refs(s, f))
           /\ Refs(s, f).inode = s.inode /\ Refs(s, f).vn_refcount = f
           /\ Used(Refs(s, f)) = Used(s) /\ DirsOf(Refs(s, f)) = DirsOf(s)
<1> DEFINE t == Refs(s, f)
<1>1. s \in State /\ s.fault = "none"
  BY DEF Good
<1>2. t \in State
  BY Zenon, <1>1 DEF State, Refs
<1>3. t.inode = s.inode /\ t.fault = "none" /\ t.vn_refcount = f
  BY <1>1 DEF State, Refs
<1> HIDE DEF t
<1>4. Used(t) = Used(s) /\ DirsOf(t) = DirsOf(s) /\ \A i : NamesOf(t, i) = NamesOf(s, i)
  BY <1>3 DEF Used, DirsOf, NamesOf
<1>5. Resident(t)
  BY <1>3, <1>4 DEF Good, Resident
<1>6. Counted(t)
  BY <1>3, <1>4 DEF Good, Counted
<1>7. \A d \in DirsOf(t) : Directory(t, d)
  <2> SUFFICES ASSUME NEW d \in DirsOf(t) PROVE Directory(t, d)
    OBVIOUS
  <2>1. Directory(s, d)
    BY <1>4 DEF Good
  <2> QED BY ZenonT(40), <1>3, <1>4, <2>1 DEF Directory
<1> QED BY <1>2, <1>3, <1>4, <1>5, <1>6, <1>7 DEF Good, t

(* vref, and vget of a vnode that is in use.                                *)
LEMMA PlusGood ==
    ASSUME NEW s, Good(s), NEW v \in Used(s)
    PROVE  /\ Good(Plus(s, v))
           /\ vref(s, v) = Plus(s, v) /\ vget(s, v) = Plus(s, v)
           /\ Plus(s, v).inode = s.inode
           /\ Used(Plus(s, v)) = Used(s) /\ DirsOf(Plus(s, v)) = DirsOf(s)
           /\ Plus(s, v).vn_refcount = [s.vn_refcount EXCEPT ![v] = @ + 1]
<1> DEFINE f == [s.vn_refcount EXCEPT ![v] = @ + 1]
<1>1. s \in State /\ v \in Ino /\ s.fault = "none" /\ s.vn_refcount[v] > 0
  BY DEF Good, Used, Resident
<1>2. f \in [Ino -> Nat] /\ \A i \in Ino : f[i] > 0 <=> s.vn_refcount[i] > 0
  BY <1>1 DEF State
<1>3. vref(s, v) = Plus(s, v)
  <2>1. Use(s, v) = s /\ ~Stopped(s)
    BY <1>1 DEF Use, Stopped, State
  <2> QED BY <2>1 DEF vref, Live, Plus, Refs
<1>4. vget(s, v) = Plus(s, v)
  BY <1>1, <1>3 DEF vget
<1> HIDE DEF f
<1>5. Plus(s, v) = Refs(s, f)
  BY DEF Plus, f
<1> QED BY <1>2, <1>3, <1>4, <1>5, RefsGood DEF f

(* vput of a reference that is not the last one.                            *)
LEMMA MinusGood ==
    ASSUME NEW s, Good(s), NEW v \in Used(s), s.vn_refcount[v] > 1
    PROVE  /\ Good(Minus(s, v))
           /\ vput(s, v) = Minus(s, v)
           /\ Minus(s, v).inode = s.inode
           /\ Used(Minus(s, v)) = Used(s) /\ DirsOf(Minus(s, v)) = DirsOf(s)
           /\ Minus(s, v).vn_refcount = [s.vn_refcount EXCEPT ![v] = @ - 1]
<1> DEFINE f == [s.vn_refcount EXCEPT ![v] = @ - 1]
<1>1. s \in State /\ v \in Ino /\ s.fault = "none" /\ s.vn_refcount[v] > 0
  BY DEF Good, Used, Resident
<1>2. f \in [Ino -> Nat] /\ \A i \in Ino : f[i] > 0 <=> s.vn_refcount[i] > 0
  BY <1>1 DEF State
<1>3. vput(s, v) = Minus(s, v)
  <2>1. Use(s, v) = s /\ ~Stopped(s)
    BY <1>1 DEF Use, Stopped, State
  <2> QED BY <2>1 DEF vput, Live, Minus, Refs
<1> HIDE DEF f
<1>4. Minus(s, v) = Refs(s, f)
  BY DEF Minus, f
<1> QED BY <1>2, <1>3, <1>4, RefsGood DEF f

(* A reference that was just taken can be given back, also after another    *)
(* one was taken.                                                           *)
LEMMA PutPlus ==
    ASSUME NEW s, Good(s), NEW v \in Used(s)
    PROVE  /\ vput(Plus(s, v), v) = s
           /\ \A w \in Used(s) : vput(Plus(Plus(s, v), w), v) = Plus(s, w)
<1>1. s \in State /\ v \in Ino /\ s.vn_refcount[v] > 0
  BY DEF Good, Used, Resident
<1>2. \A x \in Used(s) : /\ Good(Plus(s, x)) /\ Used(Plus(s, x)) = Used(s)
                         /\ Plus(s, x).vn_refcount = [s.vn_refcount EXCEPT ![x] = @ + 1]
  BY PlusGood
<1>3. vput(Plus(s, v), v) = Minus(Plus(s, v), v)
  <2>1. [s.vn_refcount EXCEPT ![v] = @ + 1][v] > 1
    BY <1>1 DEF State
  <2>2. Good(Plus(s, v)) /\ v \in Used(Plus(s, v)) /\ Plus(s, v).vn_refcount[v] > 1
    BY Zenon, <1>2, <2>1
  <2> QED BY Zenon, <2>2, MinusGood
<1>4. Minus(Plus(s, v), v) = s
  <2>1. [[s.vn_refcount EXCEPT ![v] = @ + 1] EXCEPT ![v] = @ - 1] = s.vn_refcount
    <3> DEFINE f == s.vn_refcount
    <3>1. f \in [Ino -> Nat]
      BY <1>1 DEF State
    <3> HIDE DEF f
    <3> DEFINE g == [[f EXCEPT ![v] = f[v] + 1] EXCEPT ![v] = (f[v] + 1) - 1]
    <3>2. DOMAIN g = Ino /\ \A i \in Ino : g[i] = f[i]
      BY <1>1, <3>1
    <3>3. g = f
      BY Zenon, <3>1, <3>2
    <3> QED BY <1>1, <3>1, <3>3 DEF f
  <2>2. Minus(Plus(s, v), v) = Refs(Refs(s, [s.vn_refcount EXCEPT ![v] = @ + 1]), s.vn_refcount)
    BY <1>2, <2>1 DEF Minus, Plus
  <2> QED BY Zenon, <1>1, <2>2 DEF Refs, State
<1>5. ASSUME NEW w \in Used(s) PROVE vput(Plus(Plus(s, v), w), v) = Plus(s, w)
  <2>0. w \in Ino
    BY DEF Used
  <2> DEFINE f == [s.vn_refcount EXCEPT ![v] = @ + 1]
             g == [f EXCEPT ![w] = @ + 1]
             h == [s.vn_refcount EXCEPT ![w] = @ + 1]
             t == Plus(s, v)
             u == Plus(t, w)
  <2>1. g[v] > 1 /\ [g EXCEPT ![v] = @ - 1] = h
    BY <1>1, <2>0 DEF State
  <2>2. Good(t) /\ Used(t) = Used(s) /\ t.vn_refcount = f
    BY <1>2
  <2> HIDE DEF f, g, h, t, u
  <2>3. Good(u) /\ Used(u) = Used(s) /\ u.vn_refcount = g
    BY <2>2, PlusGood DEF u, g
  <2>4. vput(u, v) = Minus(u, v)
    BY SMTT(30), <2>1, <2>3, MinusGood
  <2>5. u = Refs(Refs(s, f), g) /\ Minus(u, v) = Refs(u, h)
    BY Zenon, <2>1, <2>2, <2>3 DEF u, t, Plus, Minus, f, g, h
  <2>6. Refs(Refs(Refs(s, f), g), h) = Refs(s, h)
    BY Zenon, <1>1 DEF Refs, State
  <2> QED BY <2>4, <2>5, <2>6 DEF u, t, h, Plus
<1> QED BY <1>3, <1>4, <1>5

-----------------------------------------------------------------------------
(* ramfs.c: finding a name.                                                 *)

(* A set of numbers has a least one ...                                     *)
LEMMA Least ==
    ASSUME Facts, NEW S \in SUBSET Nat, S # {}
    PROVE  \E m \in S : \A n \in S : m <= n
BY DEF Facts, LeastNumber

(* ... and Min finds it.                                                    *)
LEMMA MinIsLeast ==
    ASSUME Facts, NEW S \in SUBSET Nat, S # {}
    PROVE  Min(S) \in S
<1> QED BY Zenon, Least DEF Min

(* What a function that looks a name up in state s returns: an error, and   *)
(* the state as it was, or an inode with a reference on its vnode.          *)
Errors == {"ENOENT", "ENOTDIR"}
Fails(r, s) == \E e \in Errors : r = Ret(s, e, NULL)
Gives(r, s) == \E v \in Used(s) : r = Ret(Plus(s, v), "ok", v)

(* The parts of a result.                                                   *)
LEMMA Fields ==
    ASSUME NEW s, NEW err, NEW v
    PROVE  Ret(s, err, v).s = s /\ Ret(s, err, v).err = err /\ Ret(s, err, v).vn = v
BY DEF Ret

(* The same for a function that looks a name up.                            *)
LEMMA FoundFields ==
    ASSUME NEW r, NEW s
    PROVE  /\ Fails(r, s) => r.s = s /\ r.err \in Errors /\ r.err # "ok" /\ r.vn = NULL
           /\ Gives(r, s) => r.s = Plus(s, r.vn) /\ r.err = "ok" /\ r.vn \in Used(s)
BY Fields DEF Fails, Gives, Errors

(* In a well-formed state, and after a lookup in it, the machine runs.      *)
LEMMA GoodRuns ==
    ASSUME NEW s, Good(s)
    PROVE  /\ ~Stopped(s)
           /\ \A r : Fails(r, s) \/ Gives(r, s) => Good(r.s) /\ ~Stopped(r.s)
<1>1. \A t : Good(t) => ~Stopped(t)
  BY DEF Good, Stopped
<1>2. ASSUME NEW r, Fails(r, s) \/ Gives(r, s) PROVE Good(r.s)
  <2>1. \A v \in Used(s) : Good(Plus(s, v))
    BY Zenon, PlusGood
  <2>2. r.s = s \/ (r.s = Plus(s, r.vn) /\ r.vn \in Used(s))
    BY Zenon, <1>2, FoundFields
  <2> QED BY <2>1, <2>2
<1> QED BY <1>1, <1>2

(* ramfs_lookup finds the slot that has the name, if one has.               *)
LEMMA RamfsLookup ==
    ASSUME Facts, NEW s, Good(s), NEW dir \in DirsOf(s), NEW name
    PROVE  \/ /\ SlotsOf(s, dir, name) = {}
              /\ ramfs_lookup(s, dir, name) = Ret(s, "ENOENT", NULL)
           \/ \E k \in Slot :
                /\ k = Min(SlotsOf(s, dir, name)) /\ s.inode[dir].ent[k].rd_name = name
                /\ s.inode[dir].ent[k].rd_ino \in Used(s)
                /\ ramfs_lookup(s, dir, name) =
                     Ret(Plus(s, s.inode[dir].ent[k].rd_ino), "ok", s.inode[dir].ent[k].rd_ino)
<1> DEFINE S == SlotsOf(s, dir, name)
<1>1. CASE S = {}
  BY <1>1 DEF ramfs_lookup, FirstOf
<1>2. CASE S # {}
  <2>1. S \in SUBSET Nat
    BY ConstantsOK DEF SlotsOf, Slot
  <2> DEFINE k == Min(S)
             i == s.inode[dir].ent[k].rd_ino
  <2>2. k \in S
    BY Zenon, <1>2, <2>1, MinIsLeast
  <2>3. k \in Slot /\ s.inode[dir].ent[k].rd_name = name
    BY Zenon, <2>2 DEF SlotsOf
  <2> HIDE DEF k
  <2>4. i \in Used(s)
    BY <2>3 DEF Good, Directory
  <2>5. ramfs_lookup(s, dir, name) = Ret(vget(s, i), "ok", i)
    BY <1>2 DEF ramfs_lookup, FirstOf, With, k
  <2>6. vget(s, i) = Plus(s, i)
    BY Zenon, <2>4, PlusGood
  <2> QED BY Zenon, <2>3, <2>4, <2>5, <2>6 DEF k
<1> QED BY <1>1, <1>2

(* namev.c: lookup in any inode that is used.                               *)
LEMMA LookupResult ==
    ASSUME Facts, NEW s, Good(s), NEW dir \in Used(s), NEW name
    PROVE  /\ Fails(lookup(s, dir, name), s) \/ Gives(lookup(s, dir, name), s)
           /\ dir \notin DirsOf(s) => lookup(s, dir, name) = Ret(s, "ENOTDIR", NULL)
           /\ dir \in DirsOf(s) => lookup(s, dir, name) = ramfs_lookup(s, dir, name)
<1>1. Use(s, dir) = s /\ ~Stopped(s) /\ dir \in Ino
  BY DEF Use, Stopped, Good, Resident, Used, State
<1>2. CASE dir \notin DirsOf(s)
  <2>1. lookup(s, dir, name) = Ret(s, "ENOTDIR", NULL)
    BY <1>1, <1>2 DEF lookup, With, DirsOf
  <2> QED BY <1>2, <2>1 DEF Fails, Errors
<1>3. CASE dir \in DirsOf(s)
  <2>1. lookup(s, dir, name) = ramfs_lookup(s, dir, name)
    BY <1>1, <1>3 DEF lookup, With, DirsOf
  <2>2. \/ ramfs_lookup(s, dir, name) = Ret(s, "ENOENT", NULL)
        \/ \E i \in Used(s) : ramfs_lookup(s, dir, name) = Ret(Plus(s, i), "ok", i)
    BY <1>3, RamfsLookup
  <2> QED BY <1>3, <2>1, <2>2 DEF Fails, Gives, Errors
<1> QED BY <1>2, <1>3

-----------------------------------------------------------------------------
(* namev.c: walking a path.                                                 *)

(* What the walk through the directories of a path may come to in state s:  *)
(* an inode or an error, and no reference is kept.                          *)
Walks(s) == {Ret(s, "ok", v) : v \in Used(s)} \cup
            {Ret(s, e, NULL) : e \in Errors}

(* A step down puts the vnode that it found: the state is as it was.        *)
LEMMA DescendResult ==
    ASSUME Facts, NEW s, Good(s), NEW r \in Walks(s), NEW name
    PROVE  Descend(r, name) \in Walks(s)
<1>0. ~Stopped(s)
  BY GoodRuns
<1>1. CASE r.err # "ok"
  BY <1>1 DEF Descend, Then
<1>2. CASE r.err = "ok"
  <2>1. r.s = s /\ r.vn \in Used(s)
    BY <1>2, Fields DEF Walks, Errors
  <2> DEFINE n == lookup(s, r.vn, name)
  <2>2. Descend(r, name) = Then(n, LAMBDA m : Ret(vput(m.s, m.vn), "ok", m.vn))
    BY <1>0, <1>2, <2>1 DEF Descend, Then
  <2>3. Fails(n, s) \/ Gives(n, s)
    BY <2>1, LookupResult
  <2> HIDE DEF n
  <2>4. CASE Fails(n, s)
    <3>1. Descend(r, name) = n
      BY <2>2, <2>4, FoundFields DEF Then
    <3> QED BY <2>4, <3>1 DEF Fails, Walks
  <2>5. CASE Gives(n, s)
    <3>1. ~Stopped(n.s)
      BY <2>5, GoodRuns
    <3>2. Descend(r, name) = Ret(vput(n.s, n.vn), "ok", n.vn)
      BY <2>2, <2>5, <3>1, FoundFields DEF Then
    <3>3. vput(n.s, n.vn) = s /\ n.vn \in Used(s)
      BY <2>5, PutPlus, FoundFields
    <3> QED BY <3>2, <3>3 DEF Walks
  <2> QED BY <2>3, <2>4, <2>5
<1> QED BY <1>1, <1>2

IsWalk(f, d, dirs, k) ==
    /\ f[0] = d
    /\ \A i \in 1..k : f[i] = Descend(f[i - 1], dirs[i])

(* The walk can be taken any number of steps.                               *)
LEMMA WalkExists ==
    ASSUME Facts, NEW s, Good(s), NEW d \in Walks(s), NEW dirs, NEW L \in Nat
    PROVE  \E f \in [0..L -> Walks(s)] : IsWalk(f, d, dirs, L)
<1> DEFINE B == {k \in Nat : ~ \E f \in [0..k -> Walks(s)] : IsWalk(f, d, dirs, k)}
<1> SUFFICES B = {}
  BY Zenon
<1> SUFFICES ASSUME B # {} PROVE FALSE
  OBVIOUS
<1>1. PICK m \in B : \A n \in B : m <= n
  BY Zenon, Least
<1>2. m # 0
  <2>1. [i \in 0..0 |-> d] \in [0..0 -> Walks(s)] /\ IsWalk([i \in 0..0 |-> d], d, dirs, 0)
    BY DEF IsWalk
  <2> QED BY Zenon, <2>1
<1>3. m - 1 \in Nat /\ m - 1 \notin B
  BY <1>1, <1>2
<1>4. PICK f \in [0..(m - 1) -> Walks(s)] : IsWalk(f, d, dirs, m - 1)
  BY <1>3
<1> DEFINE e == Descend(f[m - 1], dirs[m])
           g == [i \in 0..m |-> IF i = m THEN e ELSE f[i]]
<1>5. e \in Walks(s)
  BY <1>3, <1>4, DescendResult
<1> HIDE DEF e
<1>6. g \in [0..m -> Walks(s)]
  BY <1>3, <1>4, <1>5
<1>7. IsWalk(g, d, dirs, m)
  BY <1>2, <1>3, <1>4 DEF IsWalk, e
<1> HIDE DEF g
<1> QED BY <1>1, <1>6, <1>7

(* The walk of dir_namev comes to an inode or an error.                     *)
LEMMA WalkResult ==
    ASSUME Facts, NEW s, Good(s), NEW d \in Walks(s), NEW dirs \in Seq(STRING), dirs # <<>>
    PROVE  Walk(d, dirs) \in Walks(s)
<1> DEFINE L == Len(dirs) - 1
           Body(f) == [n \in 0..L |-> IF n = 0 THEN d ELSE Descend(f[n - 1], dirs[n])]
           at == CHOOSE f : f = Body(f)
<1>1. L \in Nat
  OBVIOUS
<1>2. Walk(d, dirs) = at[L]
  BY DEF Walk
<1> HIDE DEF L
<1>3. PICK f \in [0..L -> Walks(s)] : IsWalk(f, d, dirs, L)
  BY Zenon, <1>1, WalkExists
<1>4. f = Body(f)
  BY <1>1, <1>3 DEF IsWalk
<1>5. at = Body(at)
  BY Zenon, <1>4
<1> HIDE DEF at
<1>6. \A n \in 0..L : at[n] \in Walks(s)
  <2> DEFINE B == {n \in 0..L : at[n] \notin Walks(s)}
  <2> SUFFICES ASSUME B # {} PROVE FALSE
    OBVIOUS
  <2>0. B \in SUBSET Nat
    BY <1>1
  <2>1. PICK m \in B : \A n \in B : m <= n
    BY Zenon, <2>0, Least
  <2>2. m # 0
    <3>1. at[0] = d
      BY <1>1, <1>5
    <3> QED BY <2>1, <3>1
  <2>3. m - 1 \in 0..L /\ at[m - 1] \in Walks(s)
    BY <1>1, <2>1, <2>2
  <2>4. at[m] = Descend(at[m - 1], dirs[m])
    BY <1>1, <1>5, <2>2
  <2> QED BY <2>3, <2>4, DescendResult
<1> QED BY <1>1, <1>2, <1>6

(* A state that differs in references only, of which none is lost.          *)
Above(s, t) ==
    /\ Good(t) /\ t.inode = s.inode
    /\ \A i \in Ino : t.vn_refcount[i] >= s.vn_refcount[i]

(* The same inodes are used there.                                          *)
LEMMA AboveUsed ==
    ASSUME NEW s, NEW t, Above(s, t)
    PROVE  Used(t) = Used(s) /\ DirsOf(t) = DirsOf(s)
BY DEF Above, Used, DirsOf

(* A state, and the state with one reference more, are such states.         *)
LEMMA AbovePlus ==
    ASSUME NEW s, Good(s)
    PROVE  Above(s, s) /\ \A v \in Used(s) : Above(s, Plus(s, v))
<1>1. s.vn_refcount \in [Ino -> Nat]
  BY DEF Good, State
<1>2. Above(s, s)
  BY <1>1 DEF Above
<1>3. ASSUME NEW v \in Used(s) PROVE Above(s, Plus(s, v))
  <2>1. Good(Plus(s, v)) /\ Plus(s, v).inode = s.inode
    BY Zenon, PlusGood
  <2>2. Plus(s, v).vn_refcount = [s.vn_refcount EXCEPT ![v] = @ + 1]
    BY PlusGood
  <2>3. v \in Ino
    BY DEF Used
  <2>4. \A i \in Ino : [s.vn_refcount EXCEPT ![v] = @ + 1][i] >= s.vn_refcount[i]
    BY <1>1, <2>3
  <2> QED BY <2>1, <2>2, <2>4 DEF Above
<1> QED BY <1>2, <1>3

(* One after the other, they are.                                           *)
LEMMA AboveTrans ==
    ASSUME NEW s, NEW t, NEW u, Good(s), Above(s, t), Above(t, u)
    PROVE  Above(s, u)
<1>1. /\ s.vn_refcount \in [Ino -> Nat] /\ t.vn_refcount \in [Ino -> Nat]
      /\ u.vn_refcount \in [Ino -> Nat]
  BY DEF Good, State, Above
<1> QED BY <1>1 DEF Above

(* The directory of a path: an error, or an inode with a reference.  A path *)
(* that begins with "../" leaves a reference behind.                        *)
LEMMA DirNamev ==
    ASSUME Facts, NEW s, Good(s), NEW dir \in Used(s), NEW p \in Path
    PROVE  \E t : Above(s, t) /\ (\/ Fails(dir_namev(s, dir, p), t)
                                  \/ Gives(dir_namev(s, dir, p), t))
<1> DEFINE r == dir_namev(s, dir, p)
<1>0. /\ p.base \in {"root", "cwd", "up", "self"} /\ p.dirs \in Seq(STRING)
      /\ Root \in Used(s)
  BY ConstantsOK DEF IsPath, Good, DirsOf, Used
<1>1. CASE p.base = "self"
  <2>1. r = lookup(s, Root, p.name)
    BY <1>1 DEF dir_namev
  <2> QED BY <1>0, <2>1, LookupResult, AbovePlus
<1>2. CASE p.base # "self"
  <2> DEFINE d == CASE p.base = "root" -> Ret(s, "ok", Root)
                    [] p.base = "cwd"  -> Ret(s, "ok", dir)
                    [] p.base = "up"   -> lookup(s, dir, "..")
             Rest(x) == IF p.dirs = <<>> THEN Ret(vref(x.s, x.vn), "ok", x.vn)
                        ELSE Then(Walk(x, p.dirs), LAMBDA n :
                                  lookup(n.s, n.vn, p.dirs[Len(p.dirs)]))
  <2>1. r = Then(d, Rest)
    BY Zenon, <1>2 DEF dir_namev, Then
  <2>2. \/ Fails(d, s)
        \/ \E t, v : Above(s, t) /\ v \in Used(t) /\ d = Ret(t, "ok", v)
    <3>1. CASE p.base = "root"
      <4>1. d = Ret(s, "ok", Root)
        BY <3>1
      <4> QED BY Zenon, <1>0, <4>1, AbovePlus
    <3>2. CASE p.base = "cwd"
      <4>1. d = Ret(s, "ok", dir)
        BY <3>2
      <4> QED BY Zenon, <4>1, AbovePlus
    <3>3. CASE p.base = "up"
      <4>1. d = lookup(s, dir, "..")
        BY <3>3
      <4> HIDE DEF d
      <4>2. Fails(d, s) \/ Gives(d, s)
        BY <4>1, LookupResult
      <4>3. ASSUME NEW v \in Used(s), d = Ret(Plus(s, v), "ok", v)
            PROVE  Above(s, Plus(s, v)) /\ v \in Used(Plus(s, v))
        BY Zenon, AbovePlus, PlusGood
      <4> QED BY <4>2, <4>3 DEF Gives
    <3> QED BY <1>0, <1>2, <3>1, <3>2, <3>3
  <2> HIDE DEF d
  <2>3. CASE Fails(d, s)
    <3>1. r = d
      BY <2>1, <2>3, FoundFields DEF Then
    <3> QED BY <2>3, <3>1, AbovePlus
  <2>4. ASSUME NEW t, NEW v, Above(s, t), v \in Used(t), d = Ret(t, "ok", v)
        PROVE  Fails(r, t) \/ Gives(r, t)
    <3>1. Good(t) /\ ~Stopped(t) /\ d.s = t /\ d.err = "ok" /\ d.vn = v
      BY <2>4, Fields, GoodRuns DEF Above
    <3>2. r = Rest(d)
      BY <2>1, <3>1 DEF Then
    <3> HIDE DEF r
    <3>3. CASE p.dirs = <<>>
      <4>1. r = Ret(vref(t, v), "ok", v)
        BY <3>1, <3>2, <3>3
      <4>2. vref(t, v) = Plus(t, v)
        BY Zenon, <2>4, <3>1, PlusGood
      <4> QED BY <2>4, <4>1, <4>2 DEF Gives
    <3>4. CASE p.dirs # <<>>
      <4> DEFINE n == Walk(d, p.dirs)
      <4>1. d \in Walks(t)
        BY <2>4 DEF Walks
      <4>2. n \in Walks(t)
        BY <1>0, <3>1, <3>4, <4>1, WalkResult
      <4> HIDE DEF n
      <4>3. r = Then(n, LAMBDA m : lookup(m.s, m.vn, p.dirs[Len(p.dirs)]))
        BY <3>2, <3>4 DEF n
      <4>4. CASE \E e \in Errors : n = Ret(t, e, NULL)
        <5>1. r = n
          BY <4>3, <4>4, Fields DEF Then, Errors
        <5> QED BY <4>4, <5>1 DEF Fails
      <4>5. CASE \E w \in Used(t) : n = Ret(t, "ok", w)
        <5>1. PICK w \in Used(t) : n = Ret(t, "ok", w)
          BY <4>5
        <5>2. r = lookup(t, w, p.dirs[Len(p.dirs)])
          BY <3>1, <4>3, <5>1, Fields DEF Then
        <5> QED BY <3>1, <5>2, LookupResult
      <4> QED BY <4>2, <4>4, <4>5 DEF Walks
    <3> QED BY <3>3, <3>4
  <2> QED BY <2>2, <2>3, <2>4
<1> QED BY <1>1, <1>2

-----------------------------------------------------------------------------
(* Looking up the last component.                                           *)

(* The directory dir has the name, for inode v.                             *)
Finds(s, dir, name, v) ==
    LET k == Min(SlotsOf(s, dir, name)) IN
    /\ dir \in DirsOf(s) /\ k \in Slot
    /\ s.inode[dir].ent[k].rd_name = name /\ s.inode[dir].ent[k].rd_ino = v

(* lookup finds a name exactly if the directory has it.                     *)
LEMMA LookupFinds ==
    ASSUME Facts, NEW s, Good(s), NEW dir \in Used(s), NEW name
    PROVE  LET r == lookup(s, dir, name) IN
           /\ r.err = "ENOENT" => dir \in DirsOf(s) /\ SlotsOf(s, dir, name) = {}
           /\ r.err = "ok" => Finds(s, dir, name, r.vn)
<1> DEFINE r == lookup(s, dir, name)
<1>1. CASE dir \notin DirsOf(s)
  <2>1. r.err = "ENOTDIR"
    <3>1. r = Ret(s, "ENOTDIR", NULL)
      BY Zenon, <1>1, LookupResult
    <3>2. Ret(s, "ENOTDIR", NULL).err = "ENOTDIR"
      BY SMT, Fields
    <3> HIDE DEF r
    <3> QED BY Zenon, <3>1, <3>2
  <2> HIDE DEF r
  <2> QED BY <2>1 DEF r
<1>2. CASE dir \in DirsOf(s)
  <2>1. r = ramfs_lookup(s, dir, name)
    BY <1>2, LookupResult
  <2> HIDE DEF r
  <2>2. CASE SlotsOf(s, dir, name) = {} /\ r = Ret(s, "ENOENT", NULL)
    BY <1>2, <2>2, Fields DEF r
  <2>3. CASE \E k \in Slot :
                /\ k = Min(SlotsOf(s, dir, name)) /\ s.inode[dir].ent[k].rd_name = name
                /\ r = Ret(Plus(s, s.inode[dir].ent[k].rd_ino), "ok", s.inode[dir].ent[k].rd_ino)
    <3>1. PICK k \in Slot :
                /\ k = Min(SlotsOf(s, dir, name)) /\ s.inode[dir].ent[k].rd_name = name
                /\ r = Ret(Plus(s, s.inode[dir].ent[k].rd_ino), "ok", s.inode[dir].ent[k].rd_ino)
      BY <2>3
    <3>2. r.err = "ok" /\ r.vn = s.inode[dir].ent[k].rd_ino
      BY ZenonT(40), <3>1 DEF Ret
    <3>3. Finds(s, dir, name, r.vn)
      BY Zenon, <1>2, <3>1, <3>2 DEF Finds
    <3> QED BY ZenonT(40), <3>2, <3>3 DEF r
  <2> QED BY <1>2, <2>1, <2>2, <2>3, RamfsLookup
<1> QED BY <1>1, <1>2

(* The calls put the directory after they have looked the name up in it.    *)
LEMMA LookupPutResult ==
    ASSUME Facts, NEW s, Good(s), NEW r, Gives(r, s), NEW name
    PROVE  LET q == LookupPut(r, name) IN
           /\ Fails(q, s) \/ Gives(q, s)
           /\ q.err = "ENOENT" => r.vn \in DirsOf(s) /\ SlotsOf(s, r.vn, name) = {}
           /\ q.err = "ok" => Finds(s, r.vn, name, q.vn)
<1> DEFINE q == LookupPut(r, name)
           v == r.vn
           u == Plus(s, v)
           f == lookup(u, v, name)
<1>1. r.s = u /\ v \in Used(s)
  BY FoundFields
<1>2. Good(u) /\ u.inode = s.inode /\ Used(u) = Used(s) /\ DirsOf(u) = DirsOf(s)
  BY Zenon, <1>1, PlusGood
<1>3. q = Ret(vput(f.s, v), f.err, f.vn)
  BY <1>1 DEF LookupPut, With
<1> HIDE DEF q, v, u, f
<1>4. Fails(f, u) \/ Gives(f, u)
  BY <1>1, <1>2, LookupResult DEF f
<1>5. q.err = f.err /\ q.vn = f.vn
  BY <1>3, Fields
<1>6. /\ f.err = "ENOENT" => v \in DirsOf(u) /\ SlotsOf(u, v, name) = {}
      /\ f.err = "ok" => Finds(u, v, name, f.vn)
  BY <1>1, <1>2, LookupFinds DEF f
<1>7. SlotsOf(u, v, name) = SlotsOf(s, v, name) /\ \A x : Finds(u, v, name, x) = Finds(s, v, name, x)
  BY <1>2 DEF SlotsOf, Finds
<1>8. Fails(q, s) \/ Gives(q, s)
  <2>1. CASE Fails(f, u)
    <3>1. PICK e \in Errors : f = Ret(u, e, NULL)
      BY <2>1 DEF Fails
    <3>2. vput(u, v) = s
      BY <1>1, PutPlus DEF u
    <3>3. q = Ret(s, e, NULL)
      BY <1>3, <3>1, <3>2, Fields
    <3> QED BY <3>3 DEF Fails
  <2>2. CASE Gives(f, u)
    <3>1. PICK w \in Used(s) : f = Ret(Plus(u, w), "ok", w)
      BY <1>2, <2>2 DEF Gives
    <3>2. vput(Plus(u, w), v) = Plus(s, w)
      BY <1>1, <3>1, PutPlus DEF u
    <3>3. q = Ret(Plus(s, w), "ok", w)
      BY <1>3, <3>1, <3>2, Fields
    <3> QED BY <3>3 DEF Gives
  <2> QED BY <1>4, <2>1, <2>2
<1> QED BY <1>2, <1>5, <1>6, <1>7, <1>8 DEF q, v

(* Nothing happens any more once the machine has stopped.                   *)
LEMMA StoppedStays ==
    ASSUME NEW s, Stopped(s), NEW v, NEW name
    PROVE  /\ Use(s, v) = s /\ vput(s, v) = s /\ vref(s, v) = s
           /\ lookup(s, v, name) = Ret(s, "ok", NULL)
<1>1. Use(s, v) = s
  BY DEF Use, Fault, Stopped
<1> QED BY <1>1 DEF vput, vref, Live, lookup, With

(* A pointer to no vnode stops it.                                          *)
LEMMA NoVnodePanics ==
    ASSUME NEW s, Good(s), NEW v, v \notin Ino
    PROVE  /\ Use(s, v).fault = "panic" /\ vput(s, v).fault = "panic"
           /\ vref(s, v).fault = "panic"
<1>1. Use(s, v).fault = "panic"
  BY DEF Use, Fault, Good, State
<1>2. Stopped(Use(s, v))
  BY <1>1 DEF Stopped
<1> QED BY <1>1, <1>2 DEF vput, vref, Live

Panics(r) == r.s.fault = "panic"

(* open_namev without O_CREAT: it puts a NULL where dir_namev has failed.   *)
LEMMA OpenNamev ==
    ASSUME Facts, NEW s, Good(s), NEW dir \in Used(s), NEW p \in Path
    PROVE  \/ Panics(open_namev(s, dir, p))
           \/ \E t : Above(s, t) /\ (\/ Fails(open_namev(s, dir, p), t)
                                     \/ Gives(open_namev(s, dir, p), t))
<1>1. CASE p.base = "self"
  <2>1. open_namev(s, dir, p) = lookup(s, dir, p.name)
    BY <1>1 DEF open_namev
  <2> QED BY <2>1, LookupResult, AbovePlus
<1>2. CASE p.base # "self"
  <2> DEFINE r == dir_namev(s, dir, p)
  <2>1. open_namev(s, dir, p) = lookup(vput(r.s, r.vn), r.vn, p.name)
    BY <1>2 DEF open_namev, With
  <2>2. PICK t : Above(s, t) /\ (Fails(r, t) \/ Gives(r, t))
    BY DirNamev
  <2> HIDE DEF r
  <2>3. Good(t)
    BY <2>2 DEF Above
  <2>4. CASE Fails(r, t)
    <3>1. r.s = t /\ r.vn \notin Ino
      BY <2>4, FoundFields DEF NULL, Ino
    <3>2. vput(r.s, r.vn).fault = "panic" /\ Stopped(vput(r.s, r.vn))
      BY <2>3, <3>1, NoVnodePanics DEF Stopped
    <3>3. open_namev(s, dir, p) = Ret(vput(r.s, r.vn), "ok", NULL)
      BY <2>1, <3>2, StoppedStays
    <3> QED BY <3>2, <3>3, Fields DEF Panics
  <2>5. CASE Gives(r, t)
    <3>1. vput(r.s, r.vn) = t /\ r.vn \in Used(t)
      BY <2>3, <2>5, FoundFields, PutPlus
    <3>2. open_namev(s, dir, p) = lookup(t, r.vn, p.name)
      BY <2>1, <3>1
    <3> QED BY <2>2, <2>3, <3>1, <3>2, LookupResult
  <2> QED BY <2>2, <2>4, <2>5
<1> QED BY <1>1, <1>2

-----------------------------------------------------------------------------
(* ramfs.c: entering and removing a name.                                   *)

(* The names of an inode are finitely many.                                 *)
LEMMA NamesFinite ==
    ASSUME Facts, NEW s, NEW i
    PROVE  IsFiniteSet(NamesOf(s, i)) /\ Cardinality(NamesOf(s, i)) \in Nat
<1>1. IsFiniteSet(Ino) /\ IsFiniteSet(Slot)
  BY ConstantsOK DEF Ino, Slot, Facts, FiniteSetsClosed
<1>2. IsFiniteSet(Ino \X Slot)
  BY ZenonT(40), <1>1, Zenon DEF Facts, FiniteSetsClosed
<1>3. NamesOf(s, i) \in SUBSET (Ino \X Slot)
  BY DEF NamesOf, DirsOf
<1>4. IsFiniteSet(NamesOf(s, i))
  BY Zenon, <1>2, <1>3 DEF Facts, FiniteSetsClosed
<1> QED BY <1>4, Zenon DEF Facts, SizesCounted

(* From s to t slot k of directory dir gets entry e for inode v, and the    *)
(* link count of v changes by c.                                            *)
Edit(s, t, dir, k, e, v, c) ==
    /\ t \in State /\ t.fault = "none" /\ t.vn_refcount = s.vn_refcount
    /\ \A j \in Ino :
         /\ t.inode[j].type = s.inode[j].type
         /\ t.inode[j].rf_linkcount = s.inode[j].rf_linkcount + (IF j = v THEN c ELSE 0)
         /\ t.inode[j].ent = IF j = dir THEN [s.inode[j].ent EXCEPT ![k] = e]
                                        ELSE s.inode[j].ent

(* It is a new name of v, or takes a name from it.                          *)
AddsName(s, dir, k, e, v, c) ==
    /\ c = 1 /\ s.inode[dir].ent[k].rd_name = ""
    /\ e.rd_name \notin Special /\ SlotsOf(s, dir, e.rd_name) = {}

DropsName(s, dir, k, e, v, c) ==
    /\ c = -1 /\ s.inode[dir].ent[k].rd_ino = v
    /\ s.inode[dir].ent[k].rd_name \notin Special /\ e.rd_name = ""

(* The file system stays well formed.                                       *)
LEMMA Edited ==
    ASSUME Facts, NEW s, Good(s), NEW t, NEW dir \in DirsOf(s), NEW k \in Slot,
           NEW e \in Entry, NEW v \in Used(s), e.rd_ino = v, NEW c \in Int,
           Edit(s, t, dir, k, e, v, c),
           AddsName(s, dir, k, e, v, c) \/ DropsName(s, dir, k, e, v, c)
    PROVE  Good(t) /\ Used(t) = Used(s) /\ DirsOf(t) = DirsOf(s)
<1>1. Used(t) = Used(s) /\ DirsOf(t) = DirsOf(s)
  <2>1. \A j \in Ino : t.inode[j].type = s.inode[j].type
    BY Zenon DEF Edit
  <2> QED BY <2>1 DEF Used, DirsOf
<1>2. Resident(t) /\ Root \in DirsOf(t)
  BY <1>1 DEF Resident, Good, Edit
<1>3. ASSUME NEW d \in DirsOf(s)
      PROVE  /\ d \in Ino /\ Directory(s, d)
             /\ t.inode[d].ent = IF d = dir THEN [s.inode[d].ent EXCEPT ![k] = e]
                                            ELSE s.inode[d].ent
             /\ s.inode[d].ent \in [Slot -> Entry]
  BY ZenonT(40) DEF Good, Directory, DirsOf, Edit
<1>0. 1 \in Slot /\ 2 \in Slot /\ k # 1 /\ k # 2
  <2>1. 1 \in Slot /\ 2 \in Slot
    BY ConstantsOK DEF Slot
  <2>2. s.inode[dir].ent[1].rd_name = "." /\ s.inode[dir].ent[2].rd_name = ".."
    <3>1. Directory(s, dir)
      BY Zenon, <1>3
    <3>2. /\ s.inode[dir].ent[1] = [rd_ino |-> dir, rd_name |-> "."]
          /\ s.inode[dir].ent[2].rd_name = ".."
      BY Zenon, <3>1 DEF Directory
    <3> QED BY <3>2
  <2> QED BY <2>1, <2>2 DEF AddsName, DropsName, Special
<1>4. \A d \in DirsOf(t) : Directory(t, d)
  <2> SUFFICES ASSUME NEW d \in DirsOf(s) PROVE Directory(t, d)
    BY <1>1
  <2>1. CASE d # dir
    <3>1. t.inode[d].ent = s.inode[d].ent
      BY Zenon, <1>3, <2>1
    <3>2. Directory(s, d)
      BY Zenon, <1>3
    <3> QED BY ZenonT(40), <1>1, <3>1, <3>2 DEF Directory
  <2>2. CASE d = dir
    <3> DEFINE a == s.inode[d].ent
               b == [a EXCEPT ![k] = e]
    <3>1. t.inode[d].ent = b
      BY SMTT(30), <1>3, <2>2
    <3>2. /\ a \in [Slot -> Entry] /\ a[1] = [rd_ino |-> d, rd_name |-> "."]
          /\ a[2].rd_name = ".." /\ a[2].rd_ino \in DirsOf(s)
          /\ \A l \in Slot : a[l].rd_ino \in Used(s)
          /\ \A l, m \in Slot : a[l].rd_name = a[m].rd_name /\ a[l].rd_name # "" => l = m
      BY ZenonT(40), <1>3 DEF Directory
    <3>3. \/ e.rd_name = ""
          \/ \A l \in Slot : a[l].rd_name # e.rd_name
      BY <2>2 DEF SlotsOf, AddsName, DropsName
    <3> HIDE DEF a
    <3>4. /\ b \in [Slot -> Entry] /\ b[k] = e
          /\ \A l \in Slot : l # k => b[l] = a[l]
      BY <3>2
    <3> HIDE DEF b
    <3>6. /\ b[1] = [rd_ino |-> d, rd_name |-> "."]
          /\ b[2].rd_name = ".." /\ b[2].rd_ino \in DirsOf(s)
      BY <1>0, <3>2, <3>4
    <3>7. \A l \in Slot : b[l].rd_ino \in Used(s)
      BY <3>2, <3>4
    <3>8. \A l, m \in Slot : b[l].rd_name = b[m].rd_name /\ b[l].rd_name # "" => l = m
      <4> SUFFICES ASSUME NEW l \in Slot, NEW m \in Slot,
                          b[l].rd_name = b[m].rd_name, b[l].rd_name # "", l # m
                   PROVE  FALSE
        OBVIOUS
      <4>1. CASE l # k /\ m # k
        BY ZenonT(40), <3>2, <3>4, <4>1
      <4>2. CASE l = k \/ m = k
        BY <3>3, <3>4, <4>2
      <4> QED BY <4>1, <4>2
    <3> QED BY ZenonT(40), <1>1, <3>1, <3>4, <3>6, <3>7, <3>8 DEF Directory
  <2> QED BY <2>1, <2>2
<1> DEFINE y == <<dir, k>>
<1>5. ASSUME NEW j, NEW x \in DirsOf(s) \X Slot, x # y
      PROVE  x \in NamesOf(t, j) <=> x \in NamesOf(s, j)
  <2>1. x[1] \in DirsOf(s) /\ x[2] \in Slot /\ (x[1] # dir \/ x[2] # k)
    BY <1>5
  <2>2. t.inode[x[1]].ent[x[2]] = s.inode[x[1]].ent[x[2]]
    BY Zenon, <1>3, <2>1
  <2> QED BY Zenon, <1>1, <2>2 DEF NamesOf
<1>6. /\ y \in DirsOf(s) \X Slot /\ y[1] = dir /\ y[2] = k
      /\ t.inode[dir].ent[k] = e
  BY ZenonT(40), <1>3
<1>7. ASSUME NEW j PROVE NamesOf(t, j) \subseteq DirsOf(s) \X Slot /\ NamesOf(s, j) \subseteq DirsOf(s) \X Slot
  BY Zenon, <1>1 DEF NamesOf
<1> HIDE DEF y
<1>8. ASSUME NEW j
      PROVE  /\ y \in NamesOf(t, j) <=> e.rd_ino = j /\ e.rd_name \notin Special
             /\ y \in NamesOf(s, j) <=> /\ s.inode[dir].ent[k].rd_ino = j
                                        /\ s.inode[dir].ent[k].rd_name \notin Special
  BY Zenon, <1>1, <1>6 DEF NamesOf, Special
<1>9. \A j \in Ino : j # v => NamesOf(t, j) = NamesOf(s, j)
  <2> TAKE j \in Ino
  <2> HAVE j # v
  <2>1. y \notin NamesOf(t, j) /\ y \notin NamesOf(s, j)
    BY ZenonT(40), <1>8 DEF Special, AddsName, DropsName
  <2> QED BY <1>5, <1>7, <2>1
<1>10. Cardinality(NamesOf(t, v)) = Cardinality(NamesOf(s, v)) + c
  <2>1. CASE c = 1
    <3>1. y \in NamesOf(t, v) /\ y \notin NamesOf(s, v)
      <4>1. AddsName(s, dir, k, e, v, c)
        BY <2>1 DEF DropsName
      <4>2. e.rd_name \notin Special /\ s.inode[dir].ent[k].rd_name \in Special
        BY <4>1 DEF AddsName, Special
      <4> QED BY <1>8, <4>2
    <3>2. NamesOf(t, v) = NamesOf(s, v) \cup {y}
      <4>1. \A x : x \in NamesOf(t, v) <=> x \in NamesOf(s, v) \/ x = y
        BY <1>5, <1>7, <3>1
      <4> QED BY <4>1
    <3> QED BY ZenonT(40), <2>1, <3>1, <3>2, NamesFinite DEF Facts, SizesCounted
  <2>2. CASE c = -1
    <3>1. y \notin NamesOf(t, v) /\ y \in NamesOf(s, v)
      <4>1. DropsName(s, dir, k, e, v, c)
        BY SMTT(30), <2>2 DEF AddsName
      <4>2. /\ e.rd_name \in Special /\ s.inode[dir].ent[k].rd_name \notin Special
            /\ s.inode[dir].ent[k].rd_ino = v
        BY <4>1 DEF DropsName, Special
      <4> QED BY Zenon, <1>8, <4>2
    <3>2. NamesOf(t, v) = NamesOf(s, v) \ {y}
      <4>1. \A x : x \in NamesOf(t, v) <=> x \in NamesOf(s, v) /\ x # y
        BY <1>5, <1>7, <3>1
      <4> QED BY <4>1
    <3>3. Cardinality(NamesOf(t, v)) = Cardinality(NamesOf(s, v)) - 1
      BY ZenonT(40), <3>1, <3>2, NamesFinite DEF Facts, SizesCounted
    <3> QED BY Zenon, <2>2, <3>3, NamesFinite
  <2> QED BY <2>1, <2>2 DEF AddsName, DropsName
<1>11. Counted(t)
  <2> SUFFICES ASSUME NEW j \in Used(s)
               PROVE  t.inode[j].rf_linkcount =
                        Cardinality(NamesOf(t, j)) + 1 + (IF j = Root THEN 1 ELSE 0)
    BY <1>1 DEF Counted
  <2>1. /\ s.inode[j].rf_linkcount =
                        Cardinality(NamesOf(s, j)) + 1 + (IF j = Root THEN 1 ELSE 0)
        /\ j \in Ino
        /\ t.inode[j].rf_linkcount = s.inode[j].rf_linkcount + (IF j = v THEN c ELSE 0)
    BY ZenonT(40) DEF Good, Counted, Used, Edit
  <2>2. Cardinality(NamesOf(t, j)) = Cardinality(NamesOf(s, j)) + (IF j = v THEN c ELSE 0)
    BY <1>9, <1>10, <2>1, NamesFinite
  <2>3. Cardinality(NamesOf(s, j)) \in Nat
    BY NamesFinite
  <2> QED BY SMTT(30), <2>1, <2>2, <2>3
<1> QED BY <1>1, <1>2, <1>4, <1>11 DEF Good, Edit

InodeT == [type : Type, rf_linkcount : Int, ent : [Slot -> Entry] \cup {<<>>}]

(* The inode table after such a change.                                     *)
EditTable(f, dir, k, e, v, c) ==
    LET g == [f EXCEPT ![dir] = [f[dir] EXCEPT !.ent = [f[dir].ent EXCEPT ![k] = e]]] IN
    [g EXCEPT ![v] = [g[v] EXCEPT !.rf_linkcount = g[v].rf_linkcount + c]]

(* What the change does to the inode table.                                 *)
TableEdit(f, h, dir, k, e, v, c) ==
    /\ h \in [Ino -> InodeT]
    /\ \A j \in Ino :
         /\ h[j].type = f[j].type
         /\ h[j].rf_linkcount = f[j].rf_linkcount + (IF j = v THEN c ELSE 0)
         /\ h[j].ent = IF j = dir THEN [f[j].ent EXCEPT ![k] = e] ELSE f[j].ent

(* EditTable is such a change.                                              *)
LEMMA EditTableFields ==
    ASSUME NEW f \in [Ino -> InodeT], NEW dir \in Ino, f[dir].ent \in [Slot -> Entry],
           NEW k \in Slot, NEW e \in Entry, NEW v \in Ino, NEW c \in Int
    PROVE  TableEdit(f, EditTable(f, dir, k, e, v, c), dir, k, e, v, c)
<1> DEFINE a == [f[dir].ent EXCEPT ![k] = e]
           x == [f[dir] EXCEPT !.ent = a]
           g == [f EXCEPT ![dir] = x]
           y == [g[v] EXCEPT !.rf_linkcount = g[v].rf_linkcount + c]
           h == [g EXCEPT ![v] = y]
<1>0. h = EditTable(f, dir, k, e, v, c)
  BY DEF EditTable
<1>1. a \in [Slot -> Entry]
  OBVIOUS
<1> HIDE DEF a
<1>2. x \in InodeT /\ x.type = f[dir].type /\ x.rf_linkcount = f[dir].rf_linkcount /\ x.ent = a
  BY <1>1 DEF InodeT
<1> HIDE DEF x
<1>3. g \in [Ino -> InodeT] /\ g[dir] = x /\ \A j \in Ino : j # dir => g[j] = f[j]
  BY <1>2
<1> HIDE DEF g
<1>4. /\ y \in InodeT /\ y.type = g[v].type /\ y.ent = g[v].ent
      /\ y.rf_linkcount = g[v].rf_linkcount + c
  <2> DEFINE n == g[v].rf_linkcount + c
  <2>1. g[v] \in InodeT /\ n \in Int
    BY <1>3 DEF InodeT
  <2> HIDE DEF n
  <2>2. y = [g[v] EXCEPT !.rf_linkcount = n]
    BY DEF n
  <2> HIDE DEF y
  <2>3. y \in InodeT /\ y.type = g[v].type /\ y.ent = g[v].ent /\ y.rf_linkcount = n
    BY Zenon, <2>1, <2>2 DEF InodeT
  <2> QED BY <2>3 DEF n
<1> HIDE DEF y
<1>5. h \in [Ino -> InodeT] /\ h[v] = y /\ \A j \in Ino : j # v => h[j] = g[j]
  BY Zenon, <1>3, <1>4
<1> HIDE DEF h
<1>6. ASSUME NEW j \in Ino
      PROVE  /\ h[j].type = f[j].type
             /\ h[j].rf_linkcount = f[j].rf_linkcount + (IF j = v THEN c ELSE 0)
             /\ h[j].ent = IF j = dir THEN [f[j].ent EXCEPT ![k] = e] ELSE f[j].ent
  <2>1. /\ g[j].type = f[j].type /\ g[j].rf_linkcount = f[j].rf_linkcount
        /\ g[j].ent = IF j = dir THEN a ELSE f[j].ent
    BY <1>2, <1>3
  <2>2. /\ h[j].type = g[j].type /\ h[j].ent = g[j].ent
        /\ h[j].rf_linkcount = IF j = v THEN g[j].rf_linkcount + c ELSE g[j].rf_linkcount
    BY <1>4, <1>5
  <2>3. f[j].rf_linkcount \in Int
    BY DEF InodeT
  <2> QED BY <2>1, <2>2, <2>3 DEF a
<1>7. TableEdit(f, h, dir, k, e, v, c)
  BY Zenon, <1>5, <1>6 DEF TableEdit
<1> QED BY <1>0, <1>7

Put(s, dir, k, e) == [s EXCEPT !.inode[dir].ent[k] = e]

(* The states of the two changes that ramfs.c makes are such changes.       *)
LEMMA EditStates ==
    ASSUME NEW s, Good(s), NEW dir \in DirsOf(s), NEW k \in Slot, NEW v \in Used(s),
           NEW name \in Name
    PROVE  LET e == [rd_ino |-> v, rd_name |-> name]
               linked == [Put(s, dir, k, e) EXCEPT !.inode[v].rf_linkcount = @ + 1]
               renamed == [s EXCEPT !.inode[dir].ent[k].rd_name = name,
                                    !.inode[v].rf_linkcount = @ - 1]
           IN  /\ e \in Entry
               /\ Edit(s, linked, dir, k, e, v, 1)
               /\ s.inode[dir].ent[k].rd_ino = v => Edit(s, renamed, dir, k, e, v, -1)
<1> DEFINE e == [rd_ino |-> v, rd_name |-> name]
           linked == [Put(s, dir, k, e) EXCEPT !.inode[v].rf_linkcount = @ + 1]
           renamed == [s EXCEPT !.inode[dir].ent[k].rd_name = name,
                                !.inode[v].rf_linkcount = @ - 1]
<1>1. /\ s \in State /\ s.fault = "none" /\ s.inode \in [Ino -> InodeT] /\ dir \in Ino /\ v \in Ino
      /\ s.inode[dir].ent \in [Slot -> Entry]
  BY ZenonT(40) DEF Good, State, InodeT, DirsOf, Used, Directory
<1>2. e \in Entry
  BY <1>1 DEF Entry
<1>3. ASSUME NEW h \in [Ino -> InodeT], NEW t, t = [s EXCEPT !.inode = h]
      PROVE  t \in State /\ t.fault = "none" /\ t.vn_refcount = s.vn_refcount /\ t.inode = h
  BY Zenon, <1>1, <1>3 DEF State, InodeT
<1>4. linked = [s EXCEPT !.inode = EditTable(s.inode, dir, k, e, v, 1)]
  BY ZenonT(40), <1>1 DEF State, InodeT, EditTable, Put
<1>5. ASSUME s.inode[dir].ent[k].rd_ino = v
      PROVE  renamed = [s EXCEPT !.inode = EditTable(s.inode, dir, k, e, v, -1)]
  <2>1. e = [s.inode[dir].ent[k] EXCEPT !.rd_name = name]
    BY <1>1, <1>5 DEF Entry
  <2>2. renamed = [s EXCEPT !.inode = EditTable(s.inode, dir, k,
                        [s.inode[dir].ent[k] EXCEPT !.rd_name = name], v, -1)]
    BY ZenonT(40), <1>1 DEF State, InodeT, EditTable
  <2> HIDE DEF e, renamed
  <2> QED BY <2>1, <2>2
<1> HIDE DEF linked, renamed, e
<1>6. ASSUME NEW c \in Int, NEW t, t = [s EXCEPT !.inode = EditTable(s.inode, dir, k, e, v, c)]
      PROVE  Edit(s, t, dir, k, e, v, c)
  <2> DEFINE h == EditTable(s.inode, dir, k, e, v, c)
  <2>1. TableEdit(s.inode, h, dir, k, e, v, c)
    BY <1>1, <1>2, EditTableFields
  <2> HIDE DEF h
  <2>2. t = [s EXCEPT !.inode = h]
    BY <1>6 DEF h
  <2>3. t \in State /\ t.fault = "none" /\ t.vn_refcount = s.vn_refcount /\ t.inode = h
    BY Zenon, <1>3, <2>1, <2>2 DEF TableEdit
  <2> QED BY Zenon, <2>1, <2>3 DEF Edit, TableEdit
<1>7. Edit(s, linked, dir, k, e, v, 1)
  BY <1>4, <1>6
<1>8. ASSUME s.inode[dir].ent[k].rd_ino = v PROVE Edit(s, renamed, dir, k, e, v, -1)
  BY <1>5, <1>6, <1>8
<1> QED BY Zenon, <1>2, <1>7, <1>8 DEF linked, renamed, e

(* A well-formed state in which no reference of s is lost; or, where a call *)
(* leads, such a state or an assertion that fails.                          *)
Keeps(s, t) == Good(t) /\ \A i \in Ino : t.vn_refcount[i] >= s.vn_refcount[i]
Fine(s, t)  == t.fault = "panic" \/ Keeps(s, t)

(* A name that is not empty.                                                *)
Named(name) == name \in STRING /\ name # ""

(* How they combine.                                                        *)
LEMMA KeepsMore ==
    ASSUME NEW s, Good(s), NEW t
    PROVE  /\ Above(s, t) => Keeps(s, t)
           /\ Keeps(s, t) => Used(s) \subseteq Used(t)
           /\ Keeps(s, t) => \A u : Keeps(t, u) => Keeps(s, u)
           /\ Keeps(s, t) => \A u : Fine(t, u) => Fine(s, u)
<1>1. \A u : Good(u) => u.vn_refcount \in [Ino -> Nat]
  BY DEF Good, State
<1>2. ASSUME Keeps(s, t), NEW u, Keeps(t, u) PROVE Keeps(s, u)
  BY SMTT(30), <1>1, <1>2 DEF Keeps
<1>3. ASSUME Keeps(s, t) PROVE Used(s) \subseteq Used(t)
  <2> SUFFICES ASSUME NEW i \in Used(s) PROVE i \in Used(t)
    OBVIOUS
  <2>1. i \in Ino /\ s.vn_refcount[i] > 0
    BY DEF Used, Good, Resident
  <2>2. t.vn_refcount[i] > 0 /\ Good(t)
    BY <1>1, <1>3, <2>1 DEF Keeps
  <2> QED BY <2>1, <2>2 DEF Good, Resident
<1> QED BY <1>2, <1>3 DEF Fine, Keeps, Above

(* Enter fails an assertion, finds no room, or fills an empty slot under a  *)
(* new name.                                                                *)
LEMMA EnterResult ==
    ASSUME Facts, NEW s, Good(s), NEW dir \in DirsOf(s), NEW name, NEW i
    PROVE  LET r == Enter(s, dir, name, i) IN
           \/ Panics(r)
           \/ r = Ret(s, "ENOSPC", NULL)
           \/ /\ SlotsOf(s, dir, name) = {} /\ i # NULL
              /\ \E k \in Slot :
                    /\ s.inode[dir].ent[k].rd_name = ""
                    /\ r = Ret(Put(s, dir, k, [rd_ino |-> i, rd_name |-> name]), "ok", i)
<1>1. ~Stopped(s) /\ Fault(s, "panic").fault = "panic"
  BY DEF Good, State, Stopped, Fault
<1>2. CASE ramfs_lookup(s, dir, name).err = "ok"
  <2>1. Enter(s, dir, name, i) = Ret(Fault(s, "panic"), "ok", NULL)
    BY Zenon, <1>1, <1>2 DEF Enter
  <2>2. Panics(Enter(s, dir, name, i))
    BY <1>1, <2>1, Fields DEF Panics
  <2> QED BY Zenon, <2>2
<1>3. CASE /\ ramfs_lookup(s, dir, name).err # "ok"
           /\ SlotsOf(s, dir, "") = {} \/ i = NULL
  BY Zenon, <1>1, <1>3 DEF Enter
<1>4. CASE /\ ramfs_lookup(s, dir, name).err # "ok"
           /\ SlotsOf(s, dir, "") # {} /\ i # NULL
  <2> DEFINE k == Min(SlotsOf(s, dir, ""))
  <2>1. Enter(s, dir, name, i) =
          Ret(Put(s, dir, k, [rd_ino |-> i, rd_name |-> name]), "ok", i)
    BY Zenon, <1>1, <1>4 DEF Enter, Put
  <2>0. \A n : SlotsOf(s, dir, n) \in SUBSET Nat
    BY ConstantsOK DEF SlotsOf, Slot
  <2>2. SlotsOf(s, dir, "") \in SUBSET Nat
    BY Zenon, <2>0
  <2>3. k \in SlotsOf(s, dir, "")
    BY Zenon, <1>4, <2>2, MinIsLeast
  <2> HIDE DEF k
  <2>4. k \in Slot /\ s.inode[dir].ent[k].rd_name = ""
    BY Zenon, <2>3 DEF SlotsOf
  <2>6. ramfs_lookup(s, dir, name).err # "ok"
    BY ZenonT(40), <1>4
  <2>5. SlotsOf(s, dir, name) = {}
    BY SMTT(30), <2>6, RamfsLookup, Fields
  <2> QED BY Zenon, <1>4, <2>1, <2>4, <2>5
<1> QED BY Zenon, <1>2, <1>3, <1>4

(* A directory has the names "." and "..".                                  *)
LEMMA Dots ==
    ASSUME NEW s, Good(s), NEW dir \in DirsOf(s)
    PROVE  /\ 1 \in Slot /\ 2 \in Slot
           /\ s.inode[dir].ent[1].rd_name = "." /\ s.inode[dir].ent[2].rd_name = ".."
<1>1. Directory(s, dir)
  BY DEF Good
<1>2. s.inode[dir].ent[1] = [rd_ino |-> dir, rd_name |-> "."] /\ s.inode[dir].ent[2].rd_name = ".."
  BY Zenon, <1>1 DEF Directory
<1> QED BY <1>2, ConstantsOK DEF Slot

(* A name that no slot has is not special, unless it is empty.              *)
LEMMA NewName ==
    ASSUME NEW s, Good(s), NEW dir \in DirsOf(s), NEW name, SlotsOf(s, dir, name) = {},
           Named(name)
    PROVE  name \notin Special
BY Zenon, Dots DEF SlotsOf, Special, Named

(* ramfs_link keeps the file system well formed.                            *)
LEMMA RamfsLink ==
    ASSUME Facts, NEW s, Good(s), NEW dir \in DirsOf(s), NEW v \in Used(s),
           NEW name, Named(name)
    PROVE  Fine(s, ramfs_link(s, v, dir, name).s)
<1> DEFINE r == Enter(s, dir, name, v)
           e == [rd_ino |-> v, rd_name |-> name]
<1>1. CASE Panics(r)
  <2>1. Stopped(r.s)
    BY <1>1 DEF Panics, Stopped
  <2>2. ramfs_link(s, v, dir, name) = r
    BY Zenon, <2>1 DEF ramfs_link, Then
  <2> QED BY <1>1, <2>2 DEF Fine, Panics
<1>2. CASE r = Ret(s, "ENOSPC", NULL)
  <2>1. r.s = s /\ r.err # "ok"
    BY <1>2, Fields
  <2>2. ramfs_link(s, v, dir, name) = r
    BY <2>1 DEF ramfs_link, Then
  <2>3. Keeps(s, s)
    BY Zenon, AbovePlus, KeepsMore
  <2> QED BY <2>1, <2>2, <2>3 DEF Fine
<1>3. CASE /\ SlotsOf(s, dir, name) = {}
           /\ \E k \in Slot :
                    /\ s.inode[dir].ent[k].rd_name = ""
                    /\ r = Ret(Put(s, dir, k, e), "ok", v)
  <2>1. PICK k \in Slot : /\ s.inode[dir].ent[k].rd_name = ""
                          /\ r = Ret(Put(s, dir, k, e), "ok", v)
    BY Zenon, <1>3
  <2> DEFINE t == Put(s, dir, k, e)
             u == [t EXCEPT !.inode[v].rf_linkcount = @ + 1]
  <2>2. r.s = t /\ r.err = "ok"
    <3> HIDE DEF r, e
    <3>1. r = Ret(t, "ok", v)
      BY Zenon, <2>1
    <3> HIDE DEF t
    <3> QED BY <3>1, Fields
  <2>3. ~Stopped(r.s)
    BY <2>2 DEF Good, State, Stopped, Put
  <2>4. ramfs_link(s, v, dir, name) = Ret(u, "ok", NULL)
    BY SMTT(30), <2>2, <2>3 DEF ramfs_link, Then
  <2>5. Edit(s, u, dir, k, e, v, 1) /\ e \in Entry
    <3>1. name \in Name
      BY Zenon DEF Named, Name
    <3> QED BY Zenon, <3>1, EditStates
  <2>6. e.rd_ino = v /\ e.rd_name = name
    OBVIOUS
  <2> HIDE DEF u, t, e, r
  <2>7. AddsName(s, dir, k, e, v, 1)
    <3>1. SlotsOf(s, dir, name) = {} /\ s.inode[dir].ent[k].rd_name = ""
      BY Zenon, <1>3, <2>1
    <3>2. name \notin Special
      BY Zenon, <3>1, NewName
    <3> QED BY Zenon, <2>6, <3>1, <3>2 DEF AddsName
  <2>8. Good(u)
    <3>1. 1 \in Int
      OBVIOUS
    <3> QED BY Zenon, <2>5, <2>6, <2>7, <3>1, Edited
  <2>9. u.vn_refcount = s.vn_refcount /\ s.vn_refcount \in [Ino -> Nat]
    BY <2>5 DEF Edit, Good, State
  <2>10. Keeps(s, u)
    BY SMTT(30), <2>8, <2>9 DEF Keeps
  <2> QED BY <2>4, <2>10, Fields DEF Fine
<1> QED BY ZenonT(40), <1>1, <1>2, <1>3, EnterResult

(* A name goes with a reference that is not the last.                       *)
LEMMA RemoveGood ==
    ASSUME Facts, NEW s, Good(s), NEW dir, NEW v \in Used(s), NEW name, name \notin Special,
           Finds(s, dir, name, v), s.vn_refcount[v] > 1
    PROVE  LET t == RemoveEntry(s, dir, name, v) IN
           Good(t) /\ t.vn_refcount = [s.vn_refcount EXCEPT ![v] = @ - 1]
<1> DEFINE k == Min(SlotsOf(s, dir, name))
<1>1. /\ dir \in DirsOf(s) /\ k \in Slot
      /\ s.inode[dir].ent[k].rd_name = name /\ s.inode[dir].ent[k].rd_ino = v
  BY DEF Finds
<1> DEFINE z == ""
           u == [s EXCEPT !.inode[dir].ent[k].rd_name = z, !.inode[v].rf_linkcount = @ - 1]
           e == [rd_ino |-> v, rd_name |-> z]
<1>2. RemoveEntry(s, dir, name, v) = vput(u, v)
  BY Zenon DEF RemoveEntry
<1>0. z \in Name
  BY ZenonT(40) DEF Name, Special
<1> HIDE DEF k, z
<1>3. Edit(s, u, dir, k, e, v, -1) /\ e \in Entry
  BY ZenonT(40), <1>0, <1>1, EditStates
<1>4. e.rd_ino = v /\ e.rd_name = z
  OBVIOUS
<1> HIDE DEF u, e
<1>5. DropsName(s, dir, k, e, v, -1)
  BY ZenonT(40), <1>1, <1>4 DEF DropsName, z
<1>6. Good(u) /\ Used(u) = Used(s)
  <2>1. -1 \in Int
    BY SMT
  <2> QED BY Zenon, <1>1, <1>3, <1>4, <1>5, <2>1, Edited
<1>7. u.vn_refcount = s.vn_refcount
  BY Zenon, <1>3 DEF Edit
<1>8. Good(Minus(u, v)) /\ vput(u, v) = Minus(u, v)
      /\ Minus(u, v).vn_refcount = [u.vn_refcount EXCEPT ![v] = @ - 1]
  BY <1>6, <1>7, MinusGood
<1> QED BY ZenonT(40), <1>2, <1>7, <1>8

-----------------------------------------------------------------------------
(* ramfs.c: making a file.                                                  *)

Content(type, i, dir) == IF type = "dir" THEN NewDir(i, dir) ELSE <<>>

(* From s to g the free inode i becomes a file of the type, with a vnode,   *)
(* and slot k of directory dir gets the entry e for it.                     *)
Creation(s, g, dir, k, e, i, type) ==
    /\ g \in State /\ g.fault = "none"
    /\ g.vn_refcount = [s.vn_refcount EXCEPT ![i] = 1]
    /\ g.inode[i].type = type /\ g.inode[i].rf_linkcount = 2
    /\ g.inode[i].ent = Content(type, i, dir)
    /\ \A j \in Ino : j # i =>
         /\ g.inode[j].type = s.inode[j].type
         /\ g.inode[j].rf_linkcount = s.inode[j].rf_linkcount
         /\ g.inode[j].ent = IF j = dir THEN [s.inode[j].ent EXCEPT ![k] = e]
                                        ELSE s.inode[j].ent

(* The slot is empty, and the name is new and not special.                  *)
NewEntry(s, dir, k, e, i, type) ==
    /\ Good(s) /\ dir \in DirsOf(s) /\ k \in Slot /\ type \in {"dir", "data", "chr"}
    /\ i \in Ino \ Used(s) /\ e \in Entry /\ e.rd_ino = i
    /\ s.inode[dir].ent[k].rd_name = ""
    /\ e.rd_name \notin Special /\ SlotsOf(s, dir, e.rd_name) = {}

(* The slots of a new directory.                                            *)
LEMMA NewDirSlots ==
    ASSUME NEW i \in Ino, NEW dir \in Ino
    PROVE  LET a == NewDir(i, dir) IN
           /\ a \in [Slot -> Entry]
           /\ a[1] = [rd_ino |-> i, rd_name |-> "."]
           /\ a[2] = [rd_ino |-> dir, rd_name |-> ".."]
           /\ \A k \in Slot : /\ a[k].rd_ino \in {i, dir, Root}
                              /\ a[k].rd_name \in Special
           /\ \A k, l \in Slot : a[k].rd_name = a[l].rd_name /\ a[k].rd_name # "" => k = l
<1> DEFINE a == NewDir(i, dir)
           z == ""
           none == [rd_ino |-> 0, rd_name |-> z]
<1>0. 1 \in Slot /\ 2 \in Slot
  BY ConstantsOK DEF Slot
<1>1. NoEntry = none
  BY Zenon DEF NoEntry
<1>2. z \in Special /\ "." \in Special /\ ".." \in Special /\ z \in Name /\ "." \in Name /\ ".." \in Name
  BY Zenon DEF Special, Name
<1>3. 0 \in Ino /\ 0 = Root
  BY ConstantsOK DEF Ino, Root
<1>4. a = [k \in Slot |-> CASE k = 1 -> [rd_ino |-> i, rd_name |-> "."]
                      [] k = 2 -> [rd_ino |-> dir, rd_name |-> ".."]
                      [] OTHER -> NoEntry]
  BY DEF NewDir
<1> HIDE DEF a, z
<1>5. /\ DOMAIN a = Slot
      /\ a[1] = [rd_ino |-> i, rd_name |-> "."]
      /\ a[2] = [rd_ino |-> dir, rd_name |-> ".."]
      /\ \A k \in Slot : k # 1 /\ k # 2 => a[k] = none
  BY <1>0, <1>1, <1>4
<1>6. \A k \in Slot : a[k] \in Entry /\ a[k].rd_ino \in {i, dir, Root} /\ a[k].rd_name \in Special
  BY <1>2, <1>3, <1>5 DEF Entry
<1>7. a \in [Slot -> Entry]
  BY <1>4, <1>5, <1>6
<1>8. \A k, l \in Slot : a[k].rd_name = a[l].rd_name /\ a[k].rd_name # z => k = l
  BY SMTT(30), <1>5
<1> QED BY Zenon, <1>5, <1>6, <1>7, <1>8 DEF a, z

(* The file system stays well formed.                                       *)
LEMMA Created ==
    ASSUME Facts, NEW s, NEW g, NEW dir, NEW k, NEW e, NEW i, NEW type,
           NewEntry(s, dir, k, e, i, type), Creation(s, g, dir, k, e, i, type)
    PROVE  Keeps(s, g) /\ Used(g) = Used(s) \cup {i}
<1> Good(s) /\ dir \in DirsOf(s) /\ k \in Slot /\ type \in {"dir", "data", "chr"}
  BY Zenon DEF NewEntry
<1>0. i \in Ino /\ i \notin Used(s) /\ e \in Entry /\ e.rd_ino = i /\ e.rd_name \notin Special
  BY Zenon DEF NewEntry
<1>1. /\ g.inode[i].type = type
      /\ \A j \in Ino : j # i => g.inode[j].type = s.inode[j].type
  BY ZenonT(40) DEF Creation
<1>2. Used(g) = Used(s) \cup {i}
  BY Zenon, <1>0, <1>1 DEF Used
<1>3. DirsOf(s) \subseteq DirsOf(g) /\ DirsOf(g) \subseteq DirsOf(s) \cup {i}
      /\ (i \in DirsOf(g) => type = "dir") /\ DirsOf(s) \subseteq Used(s)
  BY <1>0, <1>1 DEF Used, DirsOf
<1>4. s.vn_refcount \in [Ino -> Nat] /\ g.vn_refcount = [s.vn_refcount EXCEPT ![i] = 1]
  BY Zenon DEF Good, State, Creation
<1>5. Resident(g)
  BY <1>0, <1>2, <1>4 DEF Resident, Good
<1>6. ASSUME NEW d \in DirsOf(s)
      PROVE  /\ d \in Ino /\ d # i /\ Directory(s, d)
             /\ g.inode[d].ent = IF d = dir THEN [s.inode[d].ent EXCEPT ![k] = e]
                                            ELSE s.inode[d].ent
             /\ s.inode[d].ent \in [Slot -> Entry]
  <2>1. d \in Ino /\ d # i /\ Directory(s, d)
    BY <1>0, <1>3 DEF Good, DirsOf
  <2>2. s.inode[d].ent \in [Slot -> Entry]
    BY ZenonT(40), <2>1 DEF Directory
  <2> QED BY ZenonT(40), <2>1, <2>2 DEF Creation
<1>7. i \in DirsOf(g) => g.inode[i].ent = NewDir(i, dir)
  BY Zenon, <1>3 DEF Creation, Content
<1>8. dir \in Ino /\ dir \in Used(s) /\ Root \in Used(s) /\ Root # i
  BY <1>0, <1>3 DEF Good, DirsOf
<1>9. \A d \in DirsOf(g) : Directory(g, d)
  <2> SUFFICES ASSUME NEW d \in DirsOf(g) PROVE Directory(g, d)
    OBVIOUS
  <2>1. CASE d \in DirsOf(s) /\ d # dir
    <3>1. g.inode[d].ent = s.inode[d].ent /\ Directory(s, d)
      BY Zenon, <1>6, <2>1
    <3> QED BY ZenonT(40), <1>2, <1>3, <3>1 DEF Directory
  <2>2. CASE d = dir
    <3> DEFINE a == s.inode[d].ent
               b == [a EXCEPT ![k] = e]
    <3>1. g.inode[d].ent = b /\ Directory(s, d)
      BY <1>6, <2>2
    <3>2. /\ a \in [Slot -> Entry] /\ a[1] = [rd_ino |-> d, rd_name |-> "."]
          /\ a[2].rd_name = ".." /\ a[2].rd_ino \in DirsOf(s)
          /\ \A l \in Slot : a[l].rd_ino \in Used(s)
          /\ \A l, m \in Slot : a[l].rd_name = a[m].rd_name /\ a[l].rd_name # "" => l = m
      BY Zenon, <3>1 DEF Directory
    <3>3. \A l \in Slot : a[l].rd_name # e.rd_name
      BY Zenon, <2>2 DEF SlotsOf, NewEntry
    <3>4. k # 1 /\ k # 2 /\ 1 \in Slot /\ 2 \in Slot
      <4>1. s.inode[dir].ent[k].rd_name = ""
        BY Zenon DEF NewEntry
      <4> QED BY Zenon, <4>1, Dots
    <3> HIDE DEF a
    <3>41. a \in [Slot -> Entry]
      BY Zenon, <3>2
    <3>5. /\ b \in [Slot -> Entry] /\ b[k] = e
          /\ \A l \in Slot : l # k => b[l] = a[l]
      BY <1>0, <3>41
    <3> HIDE DEF b
    <3>6. /\ b[1] = [rd_ino |-> d, rd_name |-> "."]
          /\ b[2].rd_name = ".." /\ b[2].rd_ino \in DirsOf(g)
      BY Zenon, <1>3, <3>2, <3>4, <3>5
    <3>7. \A l \in Slot : b[l].rd_ino \in Used(g)
      BY Zenon, <1>0, <1>2, <3>2, <3>5
    <3>8. \A l, m \in Slot : b[l].rd_name = b[m].rd_name /\ b[l].rd_name # "" => l = m
      <4> SUFFICES ASSUME NEW l \in Slot, NEW m \in Slot,
                          b[l].rd_name = b[m].rd_name, b[l].rd_name # ""
                   PROVE  l = m
        BY Zenon
      <4>1. CASE l # k /\ m # k
        <5>1. b[m] = a[m] /\ b[l] = a[l]
          BY <3>5, <4>1
        <5>2. \A x, y \in Slot : a[x].rd_name = a[y].rd_name /\ a[x].rd_name # "" => x = y
          BY Zenon, <3>2
        <5> QED BY ZenonT(40), <5>1, <5>2
      <4>2. CASE l = k /\ m # k
        <5>1. b[m] = a[m] /\ b[l] = e
          BY <3>5, <4>2
        <5> QED BY ZenonT(40), <3>3, <5>1
      <4>3. CASE l # k /\ m = k
        <5>1. b[l] = a[l] /\ b[m] = e
          BY <3>5, <4>3
        <5> QED BY ZenonT(40), <3>3, <5>1
      <4>4. CASE l = k /\ m = k
        BY Zenon, <4>4
      <4> QED BY Zenon, <4>1, <4>2, <4>3, <4>4
    <3> QED BY Zenon, <3>1, <3>5, <3>6, <3>7, <3>8 DEF Directory
  <2>3. CASE d = i
    <3> DEFINE a == NewDir(i, dir)
    <3>1. g.inode[d].ent = a
      BY <1>7, <2>3
    <3>2. /\ a \in [Slot -> Entry]
          /\ a[1] = [rd_ino |-> i, rd_name |-> "."]
          /\ a[2] = [rd_ino |-> dir, rd_name |-> ".."]
          /\ \A l \in Slot : a[l].rd_ino \in {i, dir, Root}
          /\ \A l, m \in Slot : a[l].rd_name = a[m].rd_name /\ a[l].rd_name # "" => l = m
      BY ZenonT(40), <1>0, <1>8, NewDirSlots
    <3>3. a[2].rd_name = ".." /\ a[2].rd_ino = dir
      <4>1. a[2] = [rd_ino |-> dir, rd_name |-> ".."]
        BY Zenon, <3>2
      <4> QED BY <4>1
    <3> HIDE DEF a
    <3>4. \A l \in Slot : a[l].rd_ino \in Used(g)
      BY ZenonT(40), <1>2, <1>8, <3>2
    <3>5. a[2].rd_ino \in DirsOf(g)
      BY <1>3, <3>3
    <3> QED BY ZenonT(40), <2>3, <3>1, <3>2, <3>3, <3>4, <3>5 DEF Directory
  <2> QED BY <1>3, <2>1, <2>2, <2>3
<1> DEFINE y == <<dir, k>>
<1>10. ASSUME NEW j, NEW x \in DirsOf(s) \X Slot, x # y
       PROVE  x \in NamesOf(g, j) <=> x \in NamesOf(s, j)
  <2>1. x[1] \in DirsOf(s) /\ x[2] \in Slot /\ (x[1] # dir \/ x[2] # k)
    BY SMTT(30), <1>10
  <2>2. g.inode[x[1]].ent[x[2]] = s.inode[x[1]].ent[x[2]]
    BY Zenon, <1>6, <2>1
  <2>3. x \in DirsOf(g) \X Slot
    BY <1>3
  <2> QED BY Zenon, <2>2, <2>3 DEF NamesOf
<1>11. ASSUME NEW j, NEW x \in NamesOf(g, j) PROVE x \in DirsOf(s) \X Slot
  <2>1. /\ x \in DirsOf(g) \X Slot
        /\ g.inode[x[1]].ent[x[2]].rd_name \notin Special
    BY ZenonT(40) DEF NamesOf, Special
  <2>2. x[1] \in DirsOf(g) /\ x[2] \in Slot /\ x = <<x[1], x[2]>>
    BY <2>1
  <2>3. x[1] # i
    <3> SUFFICES ASSUME x[1] = i PROVE FALSE
      OBVIOUS
    <3>1. g.inode[i].ent = NewDir(i, dir)
      BY <1>7, <2>2
    <3>2. NewDir(i, dir)[x[2]].rd_name \in Special
      BY ZenonT(40), <1>0, <1>8, <2>2, NewDirSlots
    <3> QED BY <2>1, <3>1, <3>2
  <2> QED BY <1>3, <2>2, <2>3
<1>12. /\ y \in DirsOf(s) \X Slot /\ y[1] = dir /\ y[2] = k
       /\ g.inode[dir].ent[k] = e /\ y \in DirsOf(g) \X Slot
  BY Zenon, <1>3, <1>6
<1> HIDE DEF y
<1>13. ASSUME NEW j
       PROVE  y \notin NamesOf(s, j) /\ (y \in NamesOf(g, j) <=> j = i)
  <2>1. s.inode[dir].ent[k].rd_name = ""
    BY Zenon DEF NewEntry
  <2>2. y \notin NamesOf(s, j)
    BY Zenon, <1>12, <2>1 DEF NamesOf
  <2>3. y \in NamesOf(g, j) <=> j = i
    BY Zenon, <1>0, <1>12 DEF NamesOf, Special
  <2> QED BY <2>2, <2>3
<1>14. ASSUME NEW j PROVE NamesOf(s, j) \subseteq DirsOf(s) \X Slot
  BY Zenon DEF NamesOf
<1>15. ASSUME NEW j, j # i PROVE NamesOf(g, j) = NamesOf(s, j)
  <2>1. y \notin NamesOf(g, j) /\ y \notin NamesOf(s, j)
    BY <1>13, <1>15
  <2>2. \A x : x \in NamesOf(g, j) <=> x \in NamesOf(s, j)
    BY ZenonT(40), <1>10, <1>11, <1>14, <2>1
  <2> QED BY <2>2
<1>16. NamesOf(s, i) = {}
  <2> SUFFICES ASSUME NEW x \in NamesOf(s, i) PROVE FALSE
    OBVIOUS
  <2>1. x \in DirsOf(s) \X Slot /\ s.inode[x[1]].ent[x[2]].rd_ino = i
    BY ZenonT(40) DEF NamesOf
  <2>2. x[1] \in DirsOf(s) /\ x[2] \in Slot
    BY <2>1
  <2>3. Directory(s, x[1])
    BY Zenon, <1>6, <2>2
  <2>4. s.inode[x[1]].ent[x[2]].rd_ino \in Used(s)
    BY Zenon, <2>2, <2>3 DEF Directory
  <2> QED BY <1>0, <2>1, <2>4
<1>17. NamesOf(g, i) = {y}
  <2>1. \A x : x \in NamesOf(g, i) <=> x = y
    BY <1>10, <1>11, <1>13, <1>16
  <2> QED BY <2>1
<1>18. Cardinality(NamesOf(g, i)) = 1
  BY ZenonT(40), <1>17 DEF Facts, SizesCounted
<1>19. Counted(g)
  <2> SUFFICES ASSUME NEW j \in Used(g)
               PROVE  g.inode[j].rf_linkcount =
                        Cardinality(NamesOf(g, j)) + 1 + (IF j = Root THEN 1 ELSE 0)
    BY Zenon DEF Counted
  <2>1. CASE j = i
    <3>1. g.inode[i].rf_linkcount = 2
      BY ZenonT(40) DEF Creation
    <3> QED BY <1>8, <1>18, <2>1, <3>1
  <2>2. CASE j # i
    <3>1. j \in Used(s) /\ j \in Ino
      BY <1>2, <2>2 DEF Used
    <3>2. g.inode[j].rf_linkcount = s.inode[j].rf_linkcount
      BY ZenonT(40), <2>2, <3>1 DEF Creation
    <3>3. s.inode[j].rf_linkcount =
             Cardinality(NamesOf(s, j)) + 1 + (IF j = Root THEN 1 ELSE 0)
      BY <3>1 DEF Good, Counted
    <3> QED BY ZenonT(40), <1>15, <2>2, <3>2, <3>3
  <2> QED BY ZenonT(40), <2>1, <2>2
<1>20. g \in State /\ g.fault = "none"
  BY Zenon DEF Creation
<1>21. Good(g)
  <2>1. Root \in DirsOf(g)
    BY ZenonT(40), <1>3 DEF Good
  <2> QED BY ZenonT(40), <1>5, <1>9, <1>19, <1>20, <2>1 DEF Good
<1>22. \A j \in Ino : g.vn_refcount[j] >= s.vn_refcount[j]
  <2>1. s.vn_refcount \in [Ino -> Nat] /\ i \in Ino /\ i \notin Used(s)
    BY Zenon, <1>0 DEF Good, State
  <2>2. ~(s.vn_refcount[i] > 0)
    BY Zenon, <2>1 DEF Good, Resident
  <2> QED BY SMTT(30), <1>4, <2>1, <2>2
<1> QED BY <1>2, <1>21, <1>22 DEF Keeps

Inode(type, n, ent) == [type |-> type, rf_linkcount |-> n, ent |-> ent]

(* The state when ramfs_make has written the inode, and once vget has read  *)
(* its vnode in.                                                            *)
Made(s, dir, k, e, i, type) ==
    [Put(s, dir, k, e) EXCEPT !.inode[i] = Inode(type, 1, Content(type, i, dir))]

(* The vnode of the new file is got; until then the inode has one link.     *)
MadeBy(t, s, dir, k, e, i, type) ==
    /\ Creation(s, vget(t, i), dir, k, e, i, type)
    /\ t.fault = "none" /\ t.vn_refcount = s.vn_refcount
    /\ t.inode[dir].type = "dir"
    /\ t.inode[dir].ent = [s.inode[dir].ent EXCEPT ![k] = e]

(* What Made makes.                                                         *)
LEMMA MadeState ==
    ASSUME NEW s, NEW dir, NEW k, NEW e, NEW i, NEW type,
           NewEntry(s, dir, k, e, i, type)
    PROVE  MadeBy(Made(s, dir, k, e, i, type), s, dir, k, e, i, type)
<1> DEFINE c == Content(type, i, dir)
           x == Inode(type, 1, c)
           w == Inode(type, 2, c)
           f == s.inode
           h == [f EXCEPT ![dir] = [f[dir] EXCEPT !.ent = [f[dir].ent EXCEPT ![k] = e]]]
           t == Made(s, dir, k, e, i, type)
<1> Good(s) /\ dir \in DirsOf(s) /\ k \in Slot /\ type \in {"dir", "data", "chr"}
  BY Zenon DEF NewEntry
<1>0. i \in Ino /\ i \notin Used(s) /\ e \in Entry /\ e.rd_ino = i
  BY Zenon DEF NewEntry
<1>1. /\ s \in State /\ s.fault = "none" /\ f \in [Ino -> InodeT] /\ dir \in Ino
      /\ dir \in Used(s) /\ s.vn_refcount \in [Ino -> Nat]
  BY SMTT(30) DEF Good, State, InodeT, DirsOf, Used
<1>2. f[dir].ent \in [Slot -> Entry] /\ f[dir].type = "dir" /\ dir # i
  BY Zenon, <1>0, <1>1 DEF Good, Directory, DirsOf
<1>3. c \in [Slot -> Entry] \cup {<<>>}
  <2>1. NewDir(i, dir) \in [Slot -> Entry]
    BY Zenon, <1>0, <1>1, NewDirSlots
  <2> QED BY <2>1 DEF Content
<1> HIDE DEF c
<1>4. /\ x \in InodeT /\ w \in InodeT /\ w = [x EXCEPT !.rf_linkcount = 2]
      /\ x.rf_linkcount = 1 /\ x.type = type /\ w.type = type /\ w.ent = c /\ w.rf_linkcount = 2
  BY SMTT(30), <1>3 DEF Inode, InodeT, Type
<1>5. h \in [Ino -> InodeT] /\ \A j \in Ino : 
         /\ h[j].type = f[j].type /\ h[j].rf_linkcount = f[j].rf_linkcount
         /\ h[j].ent = IF j = dir THEN [f[j].ent EXCEPT ![k] = e] ELSE f[j].ent
  <2> DEFINE a == [f[dir].ent EXCEPT ![k] = e]
             b == [f[dir] EXCEPT !.ent = a]
  <2>1. a \in [Slot -> Entry]
    BY <1>0, <1>2
  <2> HIDE DEF a
  <2>2. f[dir] \in InodeT
    BY <1>1
  <2>3. b \in InodeT /\ b.type = f[dir].type /\ b.rf_linkcount = f[dir].rf_linkcount /\ b.ent = a
    BY <2>1, <2>2 DEF InodeT
  <2> HIDE DEF b, f
  <2>4. h = [f EXCEPT ![dir] = b]
    BY Zenon DEF b, a
  <2> HIDE DEF h
  <2>5. h \in [Ino -> InodeT] /\ h[dir] = b /\ \A j \in Ino : j # dir => h[j] = f[j]
    BY <1>1, <2>3, <2>4
  <2> QED BY Zenon, <2>3, <2>5 DEF a
<1>6. Put(s, dir, k, e) = [s EXCEPT !.inode = h]
  BY <1>1 DEF Put, State
<1> HIDE DEF x, w, f, h
<1>7. t = [s EXCEPT !.inode = [h EXCEPT ![i] = x]]
  <2>1. t = [Put(s, dir, k, e) EXCEPT !.inode[i] = x]
    BY DEF Made, x, c
  <2> QED BY Zenon, <1>1, <1>6, <2>1 DEF State
<1> HIDE DEF t
<1> DEFINE m == [h EXCEPT ![i] = x]
           n == [h EXCEPT ![i] = w]
<1>8. /\ m \in [Ino -> InodeT] /\ m[i] = x /\ n \in [Ino -> InodeT] /\ n[i] = w
      /\ n = [m EXCEPT ![i] = w]
      /\ \A j \in Ino : j # i => m[j] = h[j] /\ n[j] = h[j]
  BY Zenon, <1>0, <1>4, <1>5
<1>9. /\ t \in State /\ t.inode = m /\ t.fault = "none" /\ t.vn_refcount = s.vn_refcount
      /\ t = [inode |-> m, vn_refcount |-> s.vn_refcount, fault |-> "none"]
  <2> HIDE DEF m
  <2> QED BY ZenonT(40), <1>1, <1>7, <1>8 DEF State, InodeT, m
<1> HIDE DEF m, n
<1>10. s.vn_refcount[i] = 0
  BY <1>0, <1>1 DEF Good, Resident
<1> DEFINE u == [s.vn_refcount EXCEPT ![i] = 1]
           g == [inode |-> n, vn_refcount |-> u, fault |-> "none"]
<1>11. vget(t, i) = g
  <2>1. vget(t, i) = [t EXCEPT !.vn_refcount[i] = 1, !.inode[i].rf_linkcount = @ + 1]
    <3>1. ~(t.vn_refcount[i] > 0) /\ ~(t.inode[i].type = "free")
      BY <1>4, <1>8, <1>9, <1>10
    <3> QED BY <3>1 DEF vget
  <2>2. t.inode[i].rf_linkcount + 1 = 2 /\ t.inode[i] = x
    BY <1>4, <1>8, <1>9
  <2>3. vget(t, i) = [t EXCEPT !.vn_refcount = u, !.inode = n]
    BY ZenonT(40), <1>4, <1>8, <1>9, <2>1, <2>2
  <2> HIDE DEF u
  <2> QED BY Zenon, <1>9, <2>3
<1>12. g \in State
  BY <1>0, <1>1, <1>8 DEF State, InodeT
<1>13. Creation(s, g, dir, k, e, i, type)
  <2>1. g.fault = "none" /\ g.vn_refcount = u /\ g.inode = n
    OBVIOUS
  <2> HIDE DEF g
  <2>2. \A j \in Ino : j # i => /\ n[j].type = f[j].type /\ n[j].rf_linkcount = f[j].rf_linkcount
                                /\ n[j].ent = IF j = dir THEN [f[j].ent EXCEPT ![k] = e] ELSE f[j].ent
    BY ZenonT(40), <1>5, <1>8
  <2>3. n[i].type = type /\ n[i].rf_linkcount = 2 /\ n[i].ent = c
    BY <1>4, <1>8
  <2> QED BY ZenonT(40), <1>12, <2>1, <2>2, <2>3 DEF Creation, f, c
<1>14. t.inode[dir].type = "dir" /\ t.inode[dir].ent = [f[dir].ent EXCEPT ![k] = e]
  BY <1>1, <1>2, <1>5, <1>8, <1>9
<1> QED BY <1>9, <1>11, <1>13, <1>14 DEF t, f, MadeBy

(* The inode that is allocated is free.                                     *)
LEMMA AllocInode ==
    ASSUME Facts, NEW s
    PROVE  ramfs_alloc_inode(s) = NULL \/ ramfs_alloc_inode(s) \in Ino \ Used(s)
<1> DEFINE free == {i \in Ino : s.inode[i].type = "free"}
<1>1. free \in SUBSET Nat
  BY ConstantsOK DEF Ino
<1>2. free # {} => Min(free) \in free
  BY <1>1, MinIsLeast
<1>3. ramfs_alloc_inode(s) = IF free = {} THEN NULL ELSE Min(free)
  BY DEF ramfs_alloc_inode
<1>4. free = Ino \ Used(s)
  BY DEF Used
<1> HIDE DEF free
<1> QED BY <1>2, <1>3, <1>4

(* What ramfs_make returns for a file, and for a directory or device, whose *)
(* vnode the caller looks up.                                               *)
MakesFile(s, r) ==
    \E g, i : r = Ret(g, "ok", i) /\ Keeps(s, g) /\ i \in Used(g) \ Used(s)
MakesNode(s, r, dir, name) ==
    \E g, i : r = Ret(g, "ok", i) /\ ~Stopped(g) /\ Keeps(s, lookup(g, dir, name).s)

(* It fails an assertion, finds no room, or makes the file.                 *)
LEMMA RamfsMake ==
    ASSUME Facts, NEW s, Good(s), NEW dir \in DirsOf(s), NEW name, Named(name),
           NEW type \in {"dir", "data", "chr"}
    PROVE  LET r == ramfs_make(s, dir, name, type) IN
           \/ Panics(r)
           \/ r = Ret(s, "ENOSPC", NULL)
           \/ type = "data" /\ MakesFile(s, r)
           \/ type # "data" /\ MakesNode(s, r, dir, name)
<1> DEFINE i == ramfs_alloc_inode(s)
           q == Enter(s, dir, name, i)
           e == [rd_ino |-> i, rd_name |-> name]
           r == ramfs_make(s, dir, name, type)
<1> DEFINE made(x) == [x.s EXCEPT !.inode[x.vn] = Inode(type, 1, Content(type, x.vn, dir))]
<1>0. r = Then(q, LAMBDA x : Ret(IF type = "data" THEN vget(made(x), x.vn) ELSE made(x), "ok", x.vn))
  BY DEF ramfs_make, With, Inode, Content
<1>1. CASE Panics(q)
  <2>1. Stopped(q.s)
    BY <1>1 DEF Panics, Stopped
  <2>2. r = q
    BY <1>0, <2>1 DEF Then
  <2> QED BY <1>1, <2>2
<1>2. CASE q = Ret(s, "ENOSPC", NULL)
  <2>1. q.err # "ok"
    BY <1>2, Fields
  <2>2. r = q
    BY Zenon, <1>0, <2>1 DEF Then
  <2> QED BY <1>2, <2>2
<1>3. CASE /\ SlotsOf(s, dir, name) = {} /\ i # NULL
           /\ \E k \in Slot :
                    /\ s.inode[dir].ent[k].rd_name = ""
                    /\ q = Ret(Put(s, dir, k, e), "ok", i)
  <2>1. PICK k \in Slot : s.inode[dir].ent[k].rd_name = "" /\ q = Ret(Put(s, dir, k, e), "ok", i)
    BY Zenon, <1>3
  <2>2. SlotsOf(s, dir, name) = {} /\ name \notin Special /\ i # NULL
    BY Zenon, <1>3, NewName
  <2>3. i \in Ino \ Used(s)
    BY <2>2, AllocInode
  <2>4. e \in Entry /\ e.rd_ino = i /\ e.rd_name = name
    <3>1. name \in Name
      BY Zenon DEF Named, Name
    <3> QED BY <2>3, <3>1 DEF Entry
  <2> HIDE DEF i, q, e, r, made
  <2>5. NewEntry(s, dir, k, e, i, type)
    BY Zenon, <2>1, <2>2, <2>3, <2>4 DEF NewEntry
  <2>6. q = Ret(Put(s, dir, k, e), "ok", i)
    BY Zenon, <2>1
  <2>7. q.s = Put(s, dir, k, e) /\ q.err = "ok" /\ q.vn = i
    BY <2>6, Fields
  <2>8. ~Stopped(q.s)
    BY <2>7 DEF Good, State, Stopped, Put
  <2> DEFINE t == Made(s, dir, k, e, i, type)
  <2>9. made(q) = t
    BY <2>7 DEF made, Made
  <2>10. r = Ret(IF type = "data" THEN vget(t, i) ELSE t, "ok", i)
    BY SMTT(30), <1>0, <2>7, <2>8, <2>9 DEF Then
  <2>11. /\ Creation(s, vget(t, i), dir, k, e, i, type)
         /\ t.fault = "none" /\ t.vn_refcount = s.vn_refcount
         /\ t.inode[dir].type = "dir"
         /\ t.inode[dir].ent = [s.inode[dir].ent EXCEPT ![k] = e]
    <3>1. MadeBy(t, s, dir, k, e, i, type)
      BY ZenonT(40), <2>5, MadeState
    <3> QED BY Zenon, <3>1 DEF MadeBy
  <2> HIDE DEF t
  <2>12. Keeps(s, vget(t, i)) /\ Used(vget(t, i)) = Used(s) \cup {i}
    BY SMT, <2>5, <2>11, Created
  <2>13. CASE type = "data"
    <3>1. r = Ret(vget(t, i), "ok", i)
      BY <2>10, <2>13
    <3>2. MakesFile(s, r)
      BY <2>3, <2>12, <3>1 DEF MakesFile
    <3> QED BY <2>13, <3>2 DEF r
  <2>14. CASE type # "data"
    <3>1. r = Ret(t, "ok", i)
      BY ZenonT(40), <2>10, <2>14
    <3>2. ~Stopped(t)
      BY SMTT(30), <2>11 DEF Stopped
    <3>3. dir \in Ino /\ s.vn_refcount[dir] > 0 /\ s.inode[dir].ent \in [Slot -> Entry]
      BY ZenonT(40) DEF Good, Directory, DirsOf, Used, Resident
    <3>4. Use(t, dir) = t
      <4>1. dir \in Ino /\ t.vn_refcount[dir] # 0
        <5>1. s.vn_refcount[dir] # 0
          BY <3>3
        <5> QED BY Zenon, <2>11, <3>3, <5>1
      <4> QED BY Zenon, <4>1 DEF Use
    <3>5. lookup(t, dir, name) = ramfs_lookup(t, dir, name)
      BY ZenonT(40), <2>11, <3>2, <3>4 DEF lookup, With
    <3>6. SlotsOf(t, dir, name) = {k} /\ t.inode[dir].ent[k] = e
      <4>1. \A l \in Slot : s.inode[dir].ent[l].rd_name # name
        BY ZenonT(40), <2>2 DEF SlotsOf
      <4>2. \A l \in Slot : t.inode[dir].ent[l] = IF l = k THEN e ELSE s.inode[dir].ent[l]
        BY Zenon, <2>11, <3>3
      <4>3. \A l : l \in SlotsOf(t, dir, name) <=> l = k
        BY Zenon, <2>4, <4>1, <4>2 DEF SlotsOf
      <4> QED BY <4>2, <4>3
    <3>7. Min(SlotsOf(t, dir, name)) = k
      <4>1. {k} \in SUBSET Nat
        BY SMTT(30), ConstantsOK DEF Slot
      <4> QED BY ZenonT(40), <3>6, <4>1, MinIsLeast
    <3>8. ramfs_lookup(t, dir, name) = Ret(vget(t, i), "ok", i)
      BY ZenonT(40), <2>4, <3>6, <3>7 DEF ramfs_lookup, FirstOf, With
    <3>9. Keeps(s, lookup(t, dir, name).s)
      BY <2>12, <3>5, <3>8, Fields
    <3>10. MakesNode(s, r, dir, name)
      BY <3>1, <3>2, <3>9 DEF MakesNode
    <3> QED BY <2>14, <3>10 DEF r
  <2> QED BY <2>13, <2>14
<1> QED BY ZenonT(40), <1>1, <1>2, <1>3, EnterResult
=============================================================================
