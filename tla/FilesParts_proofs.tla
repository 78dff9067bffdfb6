------------------------- MODULE FilesParts_proofs -------------------------
(* Lemmas about module Files, for every size of the descriptor table and    *)
(* every set of objects and vnodes: the functions of file.c, and the calls  *)
(* that read, write, seek, list and close.                                  *)
EXTENDS Files, Counting, TLAPS

Slot  == 0..NFILES - 1
Data  == Seq(Bytes \cup {Hole})
FileT == [f_refcount : Nat, f_pos : Int, f_mode : SUBSET {"read", "write", "append"},
          f_vnode : Vnode \cup {NULL}]
State == [p_files : [Slot -> FileObj \cup {NULL}], file : [FileObj -> FileT],
          vn_refcount : [Vnode -> Nat], mem : [Vnode -> Data], fault : {"none"}]

(* An object that is not allocated is zeroed; only the answer of a block    *)
(* device takes a position below zero.                                      *)
Settled(o) ==
    /\ o.f_refcount = 0 => o = FreeFile
    /\ o.f_pos >= 0 \/ (o.f_vnode \in Vnode /\ Kind[o.f_vnode] = "blk")

(* The invariant, of the kernel while it runs.                              *)
Good(s) ==
    /\ s \in State
    /\ DescriptorsCounted(s) /\ VnodesHeld(s)
    /\ \A f \in FileObj : Settled(s.file[f])
    /\ \A v \in Vnode : Len(s.mem[v]) <= PageSize

(* The state with another object at f, and with other contents of v.        *)
SetFile(s, f, o) == [s EXCEPT !.file = [s.file EXCEPT ![f] = o]]
SetMem(s, v, m)  == [s EXCEPT !.mem = [s.mem EXCEPT ![v] = m]]

(* The length of a file.                                                    *)
LEMMA LenNatural ==
    ASSUME NEW S, NEW m \in Seq(S)
    PROVE  Len(m) \in Nat
OBVIOUS

-----------------------------------------------------------------------------
(* The types of the edited states, and their fields.                        *)
LEMMA EditedFields ==
    ASSUME NEW s \in State, NEW f \in FileObj, NEW o \in FileT
    PROVE  LET t == SetFile(s, f, o) IN
           /\ t \in State /\ t.p_files = s.p_files /\ t.vn_refcount = s.vn_refcount
           /\ t.mem = s.mem /\ t.fault = "none" /\ t.file \in [FileObj -> FileT]
           /\ t.file[f] = o /\ \A g \in FileObj : g # f => t.file[g] = s.file[g]
<1> DEFINE h == [s.file EXCEPT ![f] = o]
<1>1. h \in [FileObj -> FileT] /\ h[f] = o /\ \A g \in FileObj : g # f => h[g] = s.file[g]
  BY DEF State
<1> HIDE DEF h
<1>2. SetFile(s, f, o) = [s EXCEPT !.file = h]
  BY DEF SetFile, h
<1> QED BY <1>1, <1>2 DEF State

(* One element more or less in a set of slots or objects.                   *)
LEMMA OneMore ==
    ASSUME Facts, NEW S, IsFiniteSet(S), NEW e
    PROVE  /\ e \notin S => Cardinality(S \cup {e}) = Cardinality(S) + 1
           /\ e \in S => /\ Cardinality(S \ {e}) = Cardinality(S) - 1
                         /\ Cardinality(S) \in Nat /\ Cardinality(S) >= 1
<1>1. Cardinality(S) \in Nat
  BY Zenon DEF Facts, SizesCounted
<1>2. e \notin S => Cardinality(S \cup {e}) = Cardinality(S) + 1
  BY Zenon DEF Facts, SizesCounted
<1>3. e \in S => Cardinality(S \ {e}) = Cardinality(S) - 1
  BY Zenon DEF Facts, SizesCounted
<1>4. Cardinality(S \ {e}) \in Nat
  <2>1. IsFiniteSet(S \ {e})
    BY DEF Facts, FiniteSetsClosed
  <2> QED BY <2>1, Zenon DEF Facts, SizesCounted
<1> QED BY <1>1, <1>2, <1>3, <1>4

(* The slots of an object are finitely many.                                *)
LEMMA SlotsFinite ==
    ASSUME Facts, NEW s, NEW f
    PROVE  /\ IsFiniteSet(Slots(s, f)) /\ Cardinality(Slots(s, f)) \in Nat
           /\ Slots(s, f) # {} => Cardinality(Slots(s, f)) >= 1
<1>1. IsFiniteSet(Slot)
  BY FilesConstants DEF Slot, Facts, FiniteSetsClosed
<1>2. Slots(s, f) \subseteq Slot
  BY DEF Slots, Slot
<1>3. IsFiniteSet(Slots(s, f))
  BY <1>1, <1>2 DEF Facts, FiniteSetsClosed
<1>4. Cardinality(Slots(s, f)) \in Nat
  BY <1>3, Zenon DEF Facts, SizesCounted
<1>5. ASSUME NEW e, e \in Slots(s, f) PROVE Cardinality(Slots(s, f)) >= 1
  BY Zenon, <1>3, <1>5, OneMore
<1> QED BY <1>3, <1>4, <1>5

(* What a descriptor names: an object that is allocated and has a vnode.    *)
LEMMA Named ==
    ASSUME Facts, NEW s, Good(s), NEW fd, ValidFd(s, fd)
    PROVE  LET f == s.p_files[fd] IN
           /\ fd \in Slot /\ f \in FileObj /\ fd \in Slots(s, f)
           /\ s.file[f] \in FileT /\ s.file[f].f_refcount >= 1
           /\ s.file[f].f_vnode \in Vnode /\ s.file[f].f_vnode # NULL
<1> DEFINE f == s.p_files[fd]
<1>1. fd \in Slot /\ f # NULL
  BY DEF ValidFd, Slot
<1>2. s \in State
  BY DEF Good
<1>3. f \in FileObj
  BY <1>1, <1>2 DEF State
<1>4. fd \in Slots(s, f)
  BY <1>1 DEF Slots, Slot
<1> HIDE DEF f
<1>5. s.file[f] \in FileT
  BY <1>2, <1>3 DEF State
<1>6. /\ Cardinality(Slots(s, f)) <= s.file[f].f_refcount
      /\ s.file[f].f_vnode # NULL
  BY <1>3, <1>4 DEF Good, DescriptorsCounted
<1>7. Cardinality(Slots(s, f)) \in Nat /\ Cardinality(Slots(s, f)) >= 1
  BY <1>4, SlotsFinite
<1>8. s.file[f].f_refcount >= 1 /\ s.file[f].f_vnode \in Vnode
  BY <1>5, <1>6, <1>7 DEF FileT
<1> QED BY <1>1, <1>3, <1>4, <1>5, <1>6, <1>8 DEF f

(* An object that stays allocated, keeps its vnode and counts its slots may *)
(* change.                                                                  *)
LEMMA EditGood ==
    ASSUME NEW s, Good(s), NEW f \in FileObj, NEW o \in FileT,
           s.file[f].f_refcount > 0, o.f_refcount > 0, o.f_vnode = s.file[f].f_vnode,
           Cardinality(Slots(s, f)) <= o.f_refcount, Settled(o)
    PROVE  /\ Good(SetFile(s, f, o))
           /\ \A g : Slots(SetFile(s, f, o), g) = Slots(s, g)
           /\ Live(SetFile(s, f, o)) = Live(s)
<1> DEFINE t == SetFile(s, f, o)
<1>1. s \in State
  BY DEF Good
<1>2. /\ t \in State /\ t.p_files = s.p_files /\ t.vn_refcount = s.vn_refcount
      /\ t.mem = s.mem /\ t.file[f] = o /\ \A g \in FileObj : g # f => t.file[g] = s.file[g]
  BY <1>1, EditedFields
<1> HIDE DEF t
<1>3. \A g : Slots(t, g) = Slots(s, g)
  BY <1>2 DEF Slots
<1>4. \A g : g \in Live(t) <=> g \in Live(s)
  BY <1>2 DEF Live
<1>5. Live(t) = Live(s)
  BY <1>4
<1>7. ASSUME NEW v PROVE Holders(t, v) = Holders(s, v)
  <2>1. \A g \in FileObj : t.file[g].f_vnode = s.file[g].f_vnode
    BY <1>2
  <2>2. Live(s) \subseteq FileObj
    BY DEF Live
  <2> QED BY <1>5, <2>1, <2>2 DEF Holders
<1>8. DescriptorsCounted(t)
  BY <1>2, <1>3 DEF Good, DescriptorsCounted
<1>9. VnodesHeld(t)
  BY <1>2, <1>7 DEF Good, VnodesHeld
<1>10. \A g \in FileObj : Settled(t.file[g])
  BY <1>2 DEF Good
<1> QED BY <1>2, <1>3, <1>5, <1>8, <1>9, <1>10 DEF Good, t

(* The contents of a vnode may change within its page.                      *)
LEMMA MemGood ==
    ASSUME NEW s, Good(s), NEW v \in Vnode, NEW m \in Data, Len(m) <= PageSize
    PROVE  LET t == SetMem(s, v, m) IN
           /\ Good(t) /\ t.file = s.file /\ t.p_files = s.p_files
           /\ t.mem[v] = m /\ \A w \in Vnode : w # v => t.mem[w] = s.mem[w]
<1> DEFINE t == SetMem(s, v, m)
           h == [s.mem EXCEPT ![v] = m]
<1>1. s \in State
  BY DEF Good
<1>2. h \in [Vnode -> Data] /\ h[v] = m /\ \A w \in Vnode : w # v => h[w] = s.mem[w]
  BY <1>1 DEF State
<1> HIDE DEF h
<1>3. t = [s EXCEPT !.mem = h]
  BY DEF SetMem, h
<1> HIDE DEF t
<1>4. /\ t \in State /\ t.file = s.file /\ t.p_files = s.p_files
      /\ t.vn_refcount = s.vn_refcount /\ t.mem = h
  BY Zenon, <1>1, <1>2, <1>3 DEF State
<1>5. DescriptorsCounted(t)
  BY <1>4 DEF Good, DescriptorsCounted, Slots
<1>6. VnodesHeld(t)
  <2>1. \A w : Holders(t, w) = Holders(s, w)
    BY <1>4 DEF Holders, Live
  <2> QED BY <1>4, <2>1 DEF Good, VnodesHeld
<1>7. \A w \in Vnode : Len(t.mem[w]) <= PageSize
  BY <1>2, <1>4 DEF Good
<1> QED BY <1>2, <1>4, <1>5, <1>6, <1>7 DEF Good, t

-----------------------------------------------------------------------------
(* file.c *)

Obj(o, n, p) == [o EXCEPT !.f_refcount = n, !.f_pos = p]

(* The fields of an object after fref, fput or a move.                      *)
LEMMA ObjFields ==
    ASSUME NEW o \in FileT, NEW n \in Nat, NEW p \in Int
    PROVE  /\ Obj(o, n, p) \in FileT
           /\ Obj(o, n, p).f_refcount = n /\ Obj(o, n, p).f_pos = p
           /\ Obj(o, n, p).f_mode = o.f_mode /\ Obj(o, n, p).f_vnode = o.f_vnode
BY Zenon DEF Obj, FileT

(* The state after a call that keeps a reference, and after one that moves. *)
Leak(s, f)     == SetFile(s, f, Obj(s.file[f], s.file[f].f_refcount + 1, s.file[f].f_pos))
Touch(s, f, p) == SetFile(s, f, Obj(s.file[f], s.file[f].f_refcount, p))

(* fref of an object that is in use, and what follows it.                   *)
LEMMA Fref ==
    ASSUME NEW s, Good(s), NEW f \in FileObj, s.file[f].f_vnode # NULL
    PROVE  /\ Sane(s.file[f]) => fref(s, f) = Leak(s, f)
           /\ ~Sane(s.file[f]) => fref(s, f) = Stop(s, "fref")
<1>1. s \in State /\ s.file[f] \in FileT
  BY DEF Good, State
<1>2. [s EXCEPT !.file[f].f_refcount = @ + 1] = Leak(s, f)
  <2>1. [s.file[f] EXCEPT !.f_refcount = @ + 1] = Obj(s.file[f], s.file[f].f_refcount + 1, s.file[f].f_pos)
    BY Zenon, <1>1 DEF Obj, FileT
  <2> QED BY <2>1 DEF Leak, SetFile
<1> QED BY <1>2 DEF fref

(* After fref, with the position moved, fput only takes the reference back. *)
LEMMA Fput ==
    ASSUME NEW s, Good(s), NEW f \in FileObj, s.file[f].f_vnode # NULL,
           s.file[f].f_refcount > 0, NEW p \in Int
    PROVE  LET o == Obj(s.file[f], s.file[f].f_refcount + 1, p)
               u == fput(SetFile(s, f, o), f)
           IN  /\ p >= -1 => u = Touch(s, f, p)
               /\ ~(p >= -1) => u = Stop(SetFile(s, f, o), "fput")
<1> DEFINE o == Obj(s.file[f], s.file[f].f_refcount + 1, p)
           t == SetFile(s, f, o)
<1>1. s \in State /\ s.file[f] \in FileT /\ s.file[f].f_refcount \in Nat
  BY DEF Good, State, FileT
<1>0. s.file[f].f_refcount + 1 \in Nat /\ (s.file[f].f_refcount + 1) - 1 = s.file[f].f_refcount
  BY <1>1
<1>2. /\ o \in FileT /\ o.f_refcount = s.file[f].f_refcount + 1 /\ o.f_pos = p
      /\ o.f_vnode = s.file[f].f_vnode
  BY Zenon, <1>0, <1>1 DEF Obj, FileT
<1>3. [o EXCEPT !.f_refcount = @ - 1] = Obj(s.file[f], s.file[f].f_refcount, p)
  <2>1. [o EXCEPT !.f_refcount = @ - 1] = [o EXCEPT !.f_refcount = s.file[f].f_refcount]
    BY <1>0, <1>2
  <2>2. [o EXCEPT !.f_refcount = s.file[f].f_refcount] = Obj(s.file[f], s.file[f].f_refcount, p)
    BY Zenon, <1>1 DEF Obj, FileT
  <2> QED BY <2>1, <2>2
<1> HIDE DEF o
<1>4. t \in State /\ t.file[f] = o
  BY ZenonT(40), <1>1, <1>2, EditedFields
<1>5. [t EXCEPT !.file[f].f_refcount = @ - 1] = Touch(s, f, p)
  <2>1. [t EXCEPT !.file[f].f_refcount = @ - 1] = SetFile(t, f, [o EXCEPT !.f_refcount = @ - 1])
    BY Zenon, <1>4 DEF SetFile
  <2>2. \A q : SetFile(SetFile(s, f, o), f, q) = SetFile(s, f, q)
    BY Zenon, <1>1 DEF SetFile, State
  <2> QED BY <1>3, <2>1, <2>2 DEF Touch
<1> HIDE DEF t
<1>6. CASE p >= -1
  <2>1. Sane(o) /\ ~(o.f_refcount = 0) /\ ~(o.f_refcount # 1 /\ o.f_vnode = NULL) /\ o.f_refcount > 1
    BY <1>1, <1>2, <1>6 DEF Sane
  <2>2. fput(t, f) = [t EXCEPT !.file[f].f_refcount = @ - 1]
    BY <1>4, <2>1 DEF fput, With
  <2> QED BY Zenon, <1>5, <1>6, <2>2 DEF t, o
<1>7. CASE ~(p >= -1)
  <2>1. ~Sane(o)
    BY <1>2, <1>7 DEF Sane
  <2>2. fput(t, f) = Stop(t, "fput")
    BY <1>4, <2>1 DEF fput, With
  <2> QED BY <1>7, <2>2 DEF t, o
<1> QED BY <1>6, <1>7

(* The state between fref and fput.                                         *)
Held(s, f, p) == SetFile(s, f, Obj(s.file[f], s.file[f].f_refcount + 1, p))

(* While the call holds its reference the kernel is as before, but for that *)
(* reference and the position.                                              *)
LEMMA HeldState ==
    ASSUME NEW s, Good(s), NEW f \in FileObj, s.file[f].f_vnode # NULL,
           s.file[f].f_refcount > 0, NEW p \in Int
    PROVE  LET t == Held(s, f, p) IN
           /\ t \in State /\ ~Stopped(t) /\ t.p_files = s.p_files /\ t.mem = s.mem
           /\ t.file[f].f_refcount = s.file[f].f_refcount + 1 /\ t.file[f].f_pos = p
           /\ t.file[f].f_mode = s.file[f].f_mode /\ t.file[f].f_vnode = s.file[f].f_vnode
           /\ \A q \in Int : [t EXCEPT !.file[f].f_pos = q] = Held(s, f, q)
           /\ \A q \in Int : Touch(t, f, q) = Held(s, f, q)
<1> DEFINE o == Obj(s.file[f], s.file[f].f_refcount + 1, p)
           t == Held(s, f, p)
<1>1. s \in State /\ s.file[f] \in FileT /\ s.file[f].f_refcount \in Nat
  BY DEF Good, State, FileT
<1>2. /\ o \in FileT /\ o.f_refcount = s.file[f].f_refcount + 1 /\ o.f_pos = p
      /\ o.f_vnode = s.file[f].f_vnode /\ o.f_mode = s.file[f].f_mode
  <2>1. s.file[f].f_refcount + 1 \in Nat
    BY <1>1
  <2> QED BY Zenon, <1>1, <2>1 DEF Obj, FileT
<1>3. ASSUME NEW q \in Int
      PROVE  /\ [o EXCEPT !.f_pos = q] = Obj(s.file[f], s.file[f].f_refcount + 1, q)
             /\ Obj(o, o.f_refcount, q) = Obj(s.file[f], s.file[f].f_refcount + 1, q)
  <2> DEFINE a == s.file[f]
             n == s.file[f].f_refcount + 1
  <2>1. a \in FileT /\ o = Obj(a, n, p) /\ o.f_refcount = n
    BY <1>1, <1>2
  <2> HIDE DEF a, n, o
  <2>2. [o EXCEPT !.f_pos = q] = Obj(a, n, q)
    BY Zenon, <2>1 DEF Obj, FileT
  <2>3. Obj(o, n, q) = Obj(a, n, q)
    BY Zenon, <2>1 DEF Obj, FileT
  <2> QED BY <2>1, <2>2, <2>3 DEF a, n
<1> HIDE DEF o
<1>4. t = SetFile(s, f, o)
  BY DEF Held, o
<1>5. /\ t \in State /\ t.p_files = s.p_files /\ t.mem = s.mem /\ t.fault = "none"
      /\ t.file[f] = o
  BY <1>1, <1>2, <1>4, EditedFields
<1> HIDE DEF t
<1>6. ASSUME NEW q \in Int
      PROVE  [t EXCEPT !.file[f].f_pos = q] = Held(s, f, q) /\ Touch(t, f, q) = Held(s, f, q)
  <2>1. [t EXCEPT !.file[f].f_pos = q] = SetFile(t, f, [o EXCEPT !.f_pos = q])
    BY <1>5 DEF SetFile
  <2>2. \A a : SetFile(SetFile(s, f, o), f, a) = SetFile(s, f, a)
    BY Zenon, <1>1 DEF SetFile, State
  <2>3. [t EXCEPT !.file[f].f_pos = q] = Held(s, f, q)
    BY <1>3, <1>4, <2>1, <2>2 DEF Held
  <2>4. Touch(t, f, q) = SetFile(t, f, Obj(o, o.f_refcount, q))
    BY <1>5 DEF Touch
  <2>5. Touch(t, f, q) = Held(s, f, q)
    BY Zenon, <1>3, <1>4, <2>2, <2>4 DEF Held
  <2> QED BY <2>3, <2>5
<1> QED BY <1>2, <1>5, <1>6 DEF Stopped, t

(* The same, of the fields a write of the held file looks at.               *)
LEMMA HeldAt ==
    ASSUME NEW s, Good(s), NEW f \in FileObj, s.file[f].f_vnode # NULL,
           s.file[f].f_refcount > 0, NEW p \in Int
    PROVE  /\ Held(s, f, p) \in State /\ Held(s, f, p).mem = s.mem
           /\ Held(s, f, p).file[f].f_vnode = s.file[f].f_vnode
           /\ Held(s, f, p).file[f].f_pos = p
           /\ \A a \in Int : [Held(s, f, p) EXCEPT !.file[f].f_pos = a] = Held(s, f, a)
BY SMT, HeldState

(* To put the position where it is changes nothing.                         *)
LEMMA TouchSame ==
    ASSUME NEW s \in State, NEW f \in FileObj
    PROVE  /\ Touch(s, f, s.file[f].f_pos) = s
           /\ \A p \in Int : [s EXCEPT !.file[f].f_pos = p] = Touch(s, f, p)
<1>1. s.file[f] \in FileT
  BY DEF State
<1>2. Obj(s.file[f], s.file[f].f_refcount, s.file[f].f_pos) = s.file[f]
  BY Zenon, <1>1 DEF Obj, FileT
<1>3. [s.file EXCEPT ![f] = s.file[f]] = s.file
  BY DEF State
<1>4. [s EXCEPT !.file = s.file] = s
  BY DEF State
<1>5. ASSUME NEW p \in Int PROVE [s EXCEPT !.file[f].f_pos = p] = Touch(s, f, p)
  <2>1. [s.file[f] EXCEPT !.f_pos = p] = Obj(s.file[f], s.file[f].f_refcount, p)
    BY Zenon, <1>1 DEF Obj, FileT
  <2> QED BY <2>1 DEF Touch, SetFile
<1> QED BY <1>2, <1>3, <1>4, <1>5 DEF Touch, SetFile

-----------------------------------------------------------------------------
(* What a call on the descriptor fd may do to the kernel.                   *)
Lands(o, p) == p \in Int /\ (p >= 0 \/ Kind[o.f_vnode] = "blk")

Moves(s, t, f)  == \E p : Lands(s.file[f], p) /\ t = Touch(s, f, p)
Writes(s, t, f) ==
    LET v == s.file[f].f_vnode IN
    \E p, m : /\ Lands(s.file[f], p)
              /\ m \in Data /\ Grows(s.file[f], s.mem[v], m)
              /\ t = Touch(SetMem(s, v, m), f, p)

Answers(s, r, fd) ==
    \/ Stopped(r.s) /\ r.s.mem = s.mem
    \/ r.s = s
    \/ /\ ValidFd(s, fd)
       /\ \/ r.err # "ok" /\ r.s = Leak(s, s.p_files[fd])
          \/ Moves(s, r.s, s.p_files[fd])
          \/ Writes(s, r.s, s.p_files[fd])

(* The fields of what a call returns.                                       *)
LEMMA Fields ==
    ASSUME NEW s, NEW err, NEW val
    PROVE  Ret(s, err, val).s = s /\ Ret(s, err, val).err = err
BY DEF Ret

(* A stop keeps the contents of the files.                                  *)
LEMMA Stops ==
    ASSUME NEW s \in State, NEW why, why # "none"
    PROVE  /\ Stopped(Stop(s, why)) /\ Stop(s, why).mem = s.mem
           /\ Stopped(Halted(s, why).s) /\ Halted(s, why).s.mem = s.mem
<1>1. Stop(s, why).fault = why /\ Stop(s, why).mem = s.mem
  BY DEF Stop, State
<1> QED BY <1>1, Fields DEF Halted, Stopped

(* The checks: a number that is no descriptor.                              *)
LEMMA BadFd ==
    ASSUME NEW s, Good(s), NEW fd, ~ValidFd(s, fd), NEW r, r = FdError(s, fd)
    PROVE  r.err # "ok" /\ ((Stopped(r.s) /\ r.s.mem = s.mem) \/ r.s = s)
<1>1. s \in State
  BY DEF Good
<1>2. CASE fd = NFILES
  BY <1>1, <1>2, Stops, Fields DEF FdError, Halted
<1>3. CASE fd # NFILES
  BY <1>3, Fields DEF FdError
<1> QED BY <1>2, <1>3

(* A call on a descriptor of an object whose position is bad stops in fref. *)
LEMMA FrefStops ==
    ASSUME NEW s, Good(s), NEW f \in FileObj, s.file[f].f_vnode # NULL, ~Sane(s.file[f])
    PROVE  Stopped(fref(s, f)) /\ fref(s, f).mem = s.mem
<1>1. s \in State
  BY DEF Good
<1> QED BY <1>1, Fref, Stops

(* The same reference taken and given back.                                 *)
LEMMA FrefFput ==
    ASSUME NEW s, Good(s), NEW f \in FileObj, s.file[f].f_vnode # NULL,
           s.file[f].f_refcount > 0, Sane(s.file[f])
    PROVE  /\ fref(s, f) = Held(s, f, s.file[f].f_pos) /\ ~Stopped(fref(s, f))
           /\ fput(fref(s, f), f) = s
<1>1. s \in State /\ s.file[f].f_pos \in Int /\ s.file[f].f_pos >= -1
  BY DEF Good, State, FileT, Sane
<1>2. fref(s, f) = Held(s, f, s.file[f].f_pos)
  BY Fref DEF Leak, Held
<1>3. ~Stopped(Held(s, f, s.file[f].f_pos))
  BY <1>1, HeldState
<1>4. fput(Held(s, f, s.file[f].f_pos), f) = Touch(s, f, s.file[f].f_pos)
  BY <1>1, Fput DEF Held
<1> QED BY <1>1, <1>2, <1>3, <1>4, TouchSame

(* Where lseek goes.                                                        *)
LEMMA TargetInt ==
    ASSUME NEW s, Good(s), NEW f \in FileObj, s.file[f].f_vnode # NULL,
           NEW offset \in Int, NEW whence \in Whence \ {"other"}
    PROVE  Target(s, f, offset, whence) \in Int
<1>1. s.file[f].f_pos \in Int /\ s.file[f].f_vnode \in Vnode
  BY DEF Good, State, FileT
<1>2. vn_len(s, s.file[f].f_vnode) \in Nat
  BY <1>1 DEF Good, State, Data, vn_len
<1>3. whence \in {"SEEK_SET", "SEEK_CUR", "SEEK_END"}
  BY Zenon DEF Whence
<1> QED BY <1>1, <1>2, <1>3 DEF Target

(* do_lseek moves the position to where it is asked, never below zero.      *)
LEMMA LseekResult ==
    ASSUME Facts, NEW s, Good(s), NEW fd, ValidFd(s, fd), NEW offset \in Int, NEW whence \in Whence,
           Sane(s.file[s.p_files[fd]])
    PROVE  LET f == s.p_files[fd]
               r == do_lseek(s, fd, offset, whence)
               pos == Target(s, f, offset, whence)
           IN  IF whence = "other" \/ pos < 0 THEN r = Ret(s, "EINVAL", 0)
               ELSE pos \in Int /\ pos >= 0 /\ r = Ret(Touch(s, f, pos), "ok", pos)
<1> DEFINE f == s.p_files[fd]
           r == do_lseek(s, fd, offset, whence)
           pos == Target(s, f, offset, whence)
<1>1. f \in FileObj /\ s.file[f].f_vnode # NULL /\ s.file[f].f_refcount > 0 /\ s.file[f].f_refcount >= 1
  <2>1. f \in FileObj /\ s.file[f].f_vnode # NULL /\ s.file[f].f_refcount >= 1 /\ s.file[f] \in FileT
    BY Named
  <2> QED BY <2>1 DEF FileT
<1>2. ~Stopped(fref(s, f)) /\ fput(fref(s, f), f) = s
  BY <1>1, FrefFput
<1>3. r = IF whence = "other" \/ pos < 0 THEN Ret(s, "EINVAL", 0)
          ELSE Ret([s EXCEPT !.file[f].f_pos = pos], "ok", pos)
  BY <1>2 DEF do_lseek, Checked, With
<1>4. s \in State
  BY DEF Good
<1>5. CASE whence = "other" \/ pos < 0
  BY <1>3, <1>5
<1>6. CASE ~(whence = "other" \/ pos < 0)
  <2> HIDE DEF f
  <2>1. pos \in Int
    BY <1>1, <1>6, TargetInt
  <2> HIDE DEF pos
  <2>2. pos >= 0
    BY <1>6, <2>1
  <2>3. [s EXCEPT !.file[f].f_pos = pos] = Touch(s, f, pos)
    BY <1>1, <1>4, <2>1, TouchSame
  <2> QED BY <1>3, <1>6, <2>1, <2>2, <2>3 DEF f, pos
<1> QED BY ZenonT(40), <1>5, <1>6

(* The result of do_lseek, whatever it is called with.                      *)
LEMMA LseekAnswers ==
    ASSUME Facts, NEW s, Good(s), NEW fd, NEW offset \in Int, NEW whence \in Whence
    PROVE  Answers(s, do_lseek(s, fd, offset, whence), fd)
<1> DEFINE f == s.p_files[fd]
           r == do_lseek(s, fd, offset, whence)
<1>1. CASE ~ValidFd(s, fd)
  <2>1. r = FdError(s, fd)
    BY <1>1 DEF do_lseek, Checked
  <2> QED BY <1>1, <2>1, BadFd DEF Answers
<1>2. CASE ValidFd(s, fd) /\ ~Sane(s.file[f])
  <2>1. f \in FileObj /\ s.file[f].f_vnode # NULL
    BY <1>2, Named
  <2>2. Stopped(fref(s, f)) /\ fref(s, f).mem = s.mem
    BY <1>2, <2>1, FrefStops
  <2>3. r = Ret(fref(s, f), "none", 0)
    BY <1>2, <2>2 DEF do_lseek, Checked, With
  <2> QED BY <2>2, <2>3, Fields DEF Answers
<1>3. CASE ValidFd(s, fd) /\ Sane(s.file[f])
  <2> DEFINE pos == Target(s, f, offset, whence)
  <2>1. r = Ret(s, "EINVAL", 0) \/ (pos \in Int /\ pos >= 0 /\ r = Ret(Touch(s, f, pos), "ok", pos))
    BY <1>3, LseekResult
  <2> HIDE DEF pos, r
  <2>2. r.s = s \/ Moves(s, r.s, f)
    BY <2>1, Fields DEF Moves, Lands
  <2> QED BY Zenon, <1>3, <2>2 DEF Answers, r
<1> QED BY <1>1, <1>2, <1>3

-----------------------------------------------------------------------------
(* A set of numbers has a least one.                                        *)
LEMMA Least ==
    ASSUME Facts, NEW S \in SUBSET Nat, S # {}
    PROVE  \E m \in S : \A n \in S : m <= n
BY DEF Facts, LeastNumber

(* The smaller and the larger of two numbers.                               *)
LEMMA MinMax ==
    ASSUME NEW a \in Int, NEW b \in Int
    PROVE  /\ Min({a, b}) \in {a, b} /\ Min({a, b}) <= a /\ Min({a, b}) <= b
           /\ Max({a, b}) \in {a, b} /\ Max({a, b}) >= a /\ Max({a, b}) >= b
<1>1. (\E x \in {a, b} : \A y \in {a, b} : x =< y) /\ (\E x \in {a, b} : \A y \in {a, b} : x >= y)
  <2>1. CASE a <= b
    BY <2>1
  <2>2. CASE ~(a <= b)
    BY <2>2
  <2> QED BY Zenon, <2>1, <2>2
<1>2. Min({a, b}) \in {a, b} /\ \A y \in {a, b} : Min({a, b}) =< y
  BY Zenon, <1>1 DEF Min
<1>3. Max({a, b}) \in {a, b} /\ \A y \in {a, b} : Max({a, b}) >= y
  BY Zenon, <1>1 DEF Max
<1> QED BY <1>2, <1>3

(* A read answers with a count, but for that of a block device.             *)
LEMMA ReadCounts ==
    ASSUME NEW s, Good(s), NEW v \in Vnode, Kind[v] # "dir", NEW offset \in Int,
           NEW count \in Nat, NEW answer \in Nat
    PROVE  /\ ReadCount(s, v, offset, count, answer) \in Int
           /\ Kind[v] # "blk" => ReadCount(s, v, offset, count, answer) >= 0
<1>1. Kind[v] \in {"data", "chr", "blk"}
  BY FilesConstants
<1>2. CASE Kind[v] = "data"
  <2> DEFINE d == Len(s.mem[v]) - offset
             m == Min({count, d})
  <2>1. d \in Int /\ count \in Int /\ 0 \in Int
    BY DEF Good, State, Data
  <2> HIDE DEF d
  <2>2. m \in {count, d}
    BY Zenon, <2>1, MinMax
  <2>3. m \in Int
    BY <2>1, <2>2
  <2> HIDE DEF m
  <2>4. Max({0, m}) \in {0, m} /\ Max({0, m}) >= 0
    BY Zenon, <2>1, <2>3, MinMax
  <2>5. ramfs_read(s.mem[v], offset, count) = Max({0, m})
    BY DEF ramfs_read, m, d
  <2>6. /\ ramfs_read(s.mem[v], offset, count) \in Int
        /\ ramfs_read(s.mem[v], offset, count) >= 0
    BY <2>1, <2>3, <2>4, <2>5
  <2> QED BY <1>2, <2>6 DEF ReadCount
<1>3. CASE Kind[v] = "chr"
  <2>1. answer \in Int /\ count \in Int
    OBVIOUS
  <2>2. Min({answer, count}) \in {answer, count}
    BY Zenon, <2>1, MinMax
  <2> QED BY <1>3, <2>2 DEF ReadCount
<1>4. CASE Kind[v] = "blk"
  BY <1>4 DEF ReadCount, ENOTSUP
<1> QED BY <1>1, <1>2, <1>3, <1>4

(* do_read.                                                                 *)
LEMMA ReadAnswers ==
    ASSUME Facts, NEW s, Good(s), NEW fd, NEW count \in Nat, NEW answer \in Nat
    PROVE  Answers(s, do_read(s, fd, count, answer), fd)
<1> DEFINE f == s.p_files[fd]
           r == do_read(s, fd, count, answer)
<1>0. s \in State
  BY DEF Good
<1>1. CASE ~ValidFd(s, fd)
  <2>1. r = FdError(s, fd)
    BY <1>1 DEF do_read, Checked
  <2> QED BY <1>1, <2>1, BadFd DEF Answers
<1>2. CASE ValidFd(s, fd) /\ ~Sane(s.file[f])
  <2>1. f \in FileObj /\ s.file[f].f_vnode # NULL
    BY <1>2, Named
  <2>2. Stopped(fref(s, f)) /\ fref(s, f).mem = s.mem
    BY <1>2, <2>1, FrefStops
  <2>3. r = Ret(fref(s, f), "none", 0)
    BY <1>2, <2>2 DEF do_read, Checked, With
  <2> QED BY <2>2, <2>3, Fields DEF Answers
<1>3. CASE ValidFd(s, fd) /\ Sane(s.file[f])
  <2> DEFINE o == s.file[f]
             t == Held(s, f, o.f_pos)
             n == ReadCount(t, o.f_vnode, o.f_pos, count, answer)
  <2>1. /\ f \in FileObj /\ o \in FileT /\ o.f_vnode # NULL /\ o.f_vnode \in Vnode
        /\ o.f_refcount > 0 /\ o.f_pos \in Int /\ Settled(o)
    <3>1. f \in FileObj /\ o \in FileT /\ o.f_vnode # NULL /\ o.f_vnode \in Vnode /\ o.f_refcount >= 1
      BY SMTT(30), <1>3, Named
    <3> QED BY <3>1 DEF FileT, Good
  <2>2. fref(s, f) = t /\ ~Stopped(t)
    BY ZenonT(40), <1>3, <2>1, FrefFput
  <2>3. /\ t.file[f].f_pos = o.f_pos /\ t.file[f].f_mode = o.f_mode
        /\ t.file[f].f_vnode = o.f_vnode /\ t.mem = s.mem
        /\ \A q \in Int : [t EXCEPT !.file[f].f_pos = q] = Held(s, f, q)
    <3> HIDE DEF f
    <3> QED BY <2>1, HeldState
  <2>4. t = Leak(s, f)
    BY SMTT(30) DEF Held, Leak
  <2>5. r = IF Kind[o.f_vnode] = "dir" THEN Ret(t, "EISDIR", 0)
            ELSE IF o.f_mode \in {{"write"}, {"append"}, {"write", "append"}} THEN Ret(t, "EBADF", 0)
            ELSE Ret(fput([t EXCEPT !.file[f].f_pos = o.f_pos + n], f), "ok", n)
    BY Zenon, <1>3, <2>2, <2>3 DEF do_read, Checked, With
  <2>6. CASE r = Ret(t, "EISDIR", 0) \/ r = Ret(t, "EBADF", 0)
    <3>1. r.err # "ok" /\ r.s = Leak(s, f)
      BY <2>4, <2>6, Fields
    <3> QED BY <1>3, <3>1 DEF Answers
  <2>7. CASE /\ Kind[o.f_vnode] # "dir"
             /\ r = Ret(fput([t EXCEPT !.file[f].f_pos = o.f_pos + n], f), "ok", n)
    <3> HIDE DEF t, f, r
    <3>1. n = ReadCount(s, o.f_vnode, o.f_pos, count, answer)
      BY <2>3 DEF ReadCount
    <3>2. n \in Int /\ (Kind[o.f_vnode] # "blk" => n >= 0)
      BY Zenon, <2>1, <2>7, <3>1, ReadCounts
    <3> HIDE DEF n
    <3> DEFINE p == o.f_pos + n
    <3>3. Lands(o, p)
      BY <2>1, <3>2 DEF Lands, Settled
    <3>4. p \in Int
      BY <3>3 DEF Lands
    <3> HIDE DEF p
    <3>5. r.s = fput(Held(s, f, p), f)
      BY SMTT(30), <2>3, <2>7, <3>4, Fields DEF p
    <3>6. CASE p >= -1
      <4>1. r.s = Touch(s, f, p)
        BY <2>1, <3>4, <3>5, <3>6, Fput DEF Held
      <4> QED BY <1>3, <3>3, <4>1 DEF Answers, Moves, f, r
    <3>7. CASE ~(p >= -1)
      <4>1. r.s = Stop(Held(s, f, p), "fput")
        BY <2>1, <3>4, <3>5, <3>7, Fput DEF Held
      <4>2. Held(s, f, p) \in State /\ Held(s, f, p).mem = s.mem
        BY <2>1, <3>4, HeldState
      <4>3. Stopped(r.s) /\ r.s.mem = s.mem
        BY <4>1, <4>2, Stops
      <4> QED BY Zenon, <4>3 DEF Answers, r
    <3> QED BY <3>6, <3>7
  <2> QED BY ZenonT(40), <2>5, <2>6, <2>7
<1> QED BY SMTT(30), <1>1, <1>2, <1>3

(* The next used slot of a directory is not before the position.            *)
LEMMA ReaddirMoves ==
    ASSUME Facts, NEW offset \in Nat
    PROVE  ramfs_readdir(offset) \in Nat
<1> DEFINE S == {i \in DirSlots : i * DirentSize >= offset} \cup {MaxDirent}
           m == Min(S)
<1>1. S \subseteq Nat /\ MaxDirent \in S
  <2>1. DirSlots \subseteq Nat /\ MaxDirent \in Nat
    BY FilesConstants
  <2> QED BY Zenon, <2>1
<1>2. m \in S
  <2>1. \E x \in S : \A y \in S : x =< y
    <3>1. \A T \in SUBSET Nat : T # {} => \E x \in T : \A y \in T : x =< y
      BY Least
    <3> QED BY Zenon, <1>1, <3>1
  <2> QED BY Zenon, <2>1 DEF Min
<1>3. NextSlot(offset) = m * DirentSize
  BY DEF NextSlot
<1>4. m \in Nat /\ m * DirentSize \in Nat /\ (m = MaxDirent \/ m * DirentSize >= offset)
  <2>1. m \in Nat /\ (m = MaxDirent \/ m * DirentSize >= offset)
    BY <1>1, <1>2
  <2> HIDE DEF m
  <2>2. m * DirentSize \in Nat
    BY <2>1, FilesConstants
  <2> QED BY <2>1, <2>2
<1> HIDE DEF m
<1> DEFINE a == m * DirentSize
<1>5. CASE m = MaxDirent
  <2>1. a >= MaxDirent * DirentSize
    BY <1>4, <1>5
  <2> QED BY <1>3, <2>1 DEF ramfs_readdir
<1>6. CASE a >= offset
  <2>1. a \in Nat /\ NextSlot(offset) = a
    BY <1>3, <1>4
  <2> HIDE DEF a
  <2>2. a + DirentSize - offset \in Nat
    BY <1>6, <2>1, FilesConstants
  <2> QED BY <2>1, <2>2 DEF ramfs_readdir
<1> QED BY <1>4, <1>5, <1>6

(* do_getdent.                                                              *)
LEMMA GetdentAnswers ==
    ASSUME Facts, NEW s, Good(s), NEW fd
    PROVE  Answers(s, do_getdent(s, fd), fd)
<1> DEFINE f == s.p_files[fd]
           r == do_getdent(s, fd)
<1>0. s \in State
  BY DEF Good
<1>1. CASE ~ValidFd(s, fd)
  <2>1. r = FdError(s, fd)
    BY <1>1 DEF do_getdent, Checked
  <2> QED BY <1>1, <2>1, BadFd DEF Answers
<1>2. CASE ValidFd(s, fd) /\ ~Sane(s.file[f])
  <2>1. f \in FileObj /\ s.file[f].f_vnode # NULL
    BY <1>2, Named
  <2>2. Stopped(fref(s, f)) /\ fref(s, f).mem = s.mem
    BY <1>2, <2>1, FrefStops
  <2>3. r = Ret(fref(s, f), "none", 0)
    BY <1>2, <2>2 DEF do_getdent, Checked, With
  <2> QED BY <2>2, <2>3, Fields DEF Answers
<1>3. CASE ValidFd(s, fd) /\ Sane(s.file[f])
  <2> DEFINE o == s.file[f]
             n == ramfs_readdir(o.f_pos)
  <2>1. /\ f \in FileObj /\ o.f_vnode # NULL /\ o.f_vnode \in Vnode
        /\ o.f_refcount > 0 /\ o.f_pos \in Int /\ Settled(o)
    <3>1. f \in FileObj /\ o \in FileT /\ o.f_vnode # NULL /\ o.f_vnode \in Vnode /\ o.f_refcount >= 1
      BY Zenon, <1>3, Named
    <3> QED BY SMTT(30), <3>1 DEF FileT, Good
  <2>2. ~Stopped(fref(s, f)) /\ fput(fref(s, f), f) = s
    BY <1>3, <2>1, FrefFput
  <2>3. r = IF Kind[o.f_vnode] # "dir" THEN Ret(s, "ENOTDIR", 0)
            ELSE IF o.f_pos % DirentSize # 0 THEN Halted(s, "ramfs_readdir")
            ELSE Ret([s EXCEPT !.file[f].f_pos = o.f_pos + n], "ok", Min({n, DirentSize}))
    BY <1>3, <2>2 DEF do_getdent, Checked, With
  <2>4. CASE r = Ret(s, "ENOTDIR", 0)
    BY <2>4, Fields DEF Answers
  <2>5. CASE r = Halted(s, "ramfs_readdir")
    <3>1. Stopped(r.s) /\ r.s.mem = s.mem
      BY <1>0, <2>5, Stops
    <3> QED BY <3>1 DEF Answers
  <2>6. CASE /\ Kind[o.f_vnode] = "dir"
             /\ r = Ret([s EXCEPT !.file[f].f_pos = o.f_pos + n], "ok", Min({n, DirentSize}))
    <3> HIDE DEF f, r
    <3>1. o.f_pos \in Nat
      BY <2>1, <2>6 DEF Settled
    <3>2. n \in Nat
      BY <3>1, ReaddirMoves
    <3> HIDE DEF n
    <3>3. o.f_pos + n \in Int /\ o.f_pos + n >= 0
      BY <3>1, <3>2
    <3>4. r.s = Touch(s, f, o.f_pos + n)
      <4>1. [s EXCEPT !.file[f].f_pos = o.f_pos + n] = Touch(s, f, o.f_pos + n)
        BY <1>0, <2>1, <3>3, TouchSame
      <4> QED BY <2>6, <4>1, Fields
    <3>5. Moves(s, r.s, f)
      BY <3>3, <3>4 DEF Moves, Lands
    <3> QED BY <1>3, <3>5 DEF Answers, f, r
  <2> QED BY ZenonT(40), <2>3, <2>4, <2>5, <2>6
<1> QED BY SMTT(30), <1>1, <1>2, <1>3

(* ramfs_write: the file grows at most to its page, and a write at its end  *)
(* keeps what was there.                                                    *)
LEMMA WriteGrows ==
    ASSUME NEW m \in Data, Len(m) <= PageSize, NEW q \in Nat, NEW count \in Nat,
           NEW byte \in Bytes, ramfs_write_count(q, count) >= 0
    PROVE  LET w == ramfs_write(m, q, byte, ramfs_write_count(q, count)) IN
           /\ w \in Data /\ Len(w) \in Len(m)..PageSize
           /\ q = Len(m) => SubSeq(w, 1, Len(m)) = m
<1> DEFINE n == ramfs_write_count(q, count)
           d == PageSize - q
           l == Max({Len(m), q + n})
           w == ramfs_write(m, q, byte, n)
<1>1. d \in Int /\ count \in Int /\ Len(m) \in Nat /\ Len(m) \in Int /\ PageSize \in Nat
  BY FilesConstants DEF Data
<1>2. Min({count, d}) \in {count, d} /\ Min({count, d}) <= d
  <2> HIDE DEF d
  <2> QED BY Zenon, <1>1, MinMax
<1>3. n = Min({count, d})
  BY DEF ramfs_write_count
<1>4. n \in Nat /\ q + n <= PageSize
  BY <1>1, <1>2, <1>3
<1> HIDE DEF n
<1>5. q + n \in Int
  BY <1>4
<1>6. l \in {Len(m), q + n} /\ l >= Len(m)
  BY Zenon, <1>1, <1>5, MinMax
<1>7. l \in Nat /\ l \in Len(m)..PageSize
  BY <1>1, <1>4, <1>6
<1> HIDE DEF l
<1>8. w = [i \in 1..l |-> IF i > q /\ i <= q + n THEN byte
                          ELSE IF i <= Len(m) THEN m[i] ELSE Hole]
  BY DEF ramfs_write, l
<1>9. \A i \in 1..l : (IF i > q /\ i <= q + n THEN byte
                        ELSE IF i <= Len(m) THEN m[i] ELSE Hole) \in Bytes \cup {Hole}
  BY <1>1, <1>7 DEF Data
<1>10. w \in Data /\ Len(w) = l
  BY <1>7, <1>8, <1>9 DEF Data
<1>11. ASSUME q = Len(m) PROVE SubSeq(w, 1, Len(m)) = m
  <2>1. \A i \in 1..Len(m) : w[i] = m[i]
    BY <1>1, <1>4, <1>7, <1>8, <1>11
  <2> HIDE DEF w
  <2>2. SubSeq(w, 1, Len(m)) \in Seq(Bytes \cup {Hole}) /\ Len(SubSeq(w, 1, Len(m))) = Len(m)
    BY <1>1, <1>7, <1>10 DEF Data
  <2>3. \A i \in 1..Len(m) : SubSeq(w, 1, Len(m))[i] = m[i]
    BY SMTT(30), <1>1, <1>7, <1>10, <2>1 DEF Data
  <2> QED BY <2>2, <2>3 DEF Data
<1> QED BY <1>7, <1>10, <1>11 DEF n

(* WriteAt, by the kind of the vnode.                                       *)
WriteCases(w, f, count, byte, v, q, x, n, r) ==
    /\ Kind[v] = "data" /\ n < 0 => r = Halted(w, "memcpy")
    /\ Kind[v] = "data" /\ ~(n < 0) =>
         r = Ret(fput([x EXCEPT !.mem[v] = ramfs_write(@, q, byte, n)], f), "ok", n)
    /\ Kind[v] = "chr" => r = Ret(fput(x, f), "ok", count)
    /\ Kind[v] = "blk" => r = Ret(fput(x, f), "ok", -ENOTSUP)

(* These are all the cases.                                                 *)
LEMMA WriteAtCases ==
    ASSUME NEW w, NEW f, NEW count, NEW byte, NEW v, v = w.file[f].f_vnode,
           NEW q, q = w.file[f].f_pos, NEW x, x = [w EXCEPT !.file[f].f_pos = q + count],
           NEW n \in Int, n = ramfs_write_count(q, count),
           NEW r, r = WriteAt(w, f, count, byte)
    PROVE  WriteCases(w, f, count, byte, v, q, x, n, r)
<1> DEFINE kind == Kind[v]
           e    == IF Kind[v] = "data" THEN n ELSE count
           h    == Halted(w, "memcpy")
           d(i) == Ret(fput([x EXCEPT !.mem[v] = ramfs_write(@, q, byte, i)], f), "ok", i)
           c(i) == Ret(fput(x, f), "ok", i)
<1>1. r = CASE kind = "data" /\ e < 0 -> h
            [] kind = "data" /\ e >= 0 -> d(e)
            [] kind = "chr" -> c(e)
            [] kind = "blk" -> c(-ENOTSUP)
  BY Zenon DEF WriteAt
<1>2. (kind = "data" => e = n) /\ (kind # "data" => e = count)
  OBVIOUS
<1> SUFFICES /\ kind = "data" /\ n < 0 => r = h
             /\ kind = "data" /\ ~(n < 0) => r = d(n)
             /\ kind = "chr" => r = c(count)
             /\ kind = "blk" => r = c(-ENOTSUP)
  BY Zenon DEF WriteCases
<1> HIDE DEF kind, e, h, d, c
<1>3. CASE kind = "data"
  BY <1>1, <1>2, <1>3
<1>4. CASE kind # "data"
  BY <1>1, <1>2, <1>4
<1> QED BY <1>3, <1>4

(* The bytes that ramfs_write has room for.                                 *)
LEMMA WriteCounts ==
    ASSUME NEW q \in Int, NEW count \in Nat
    PROVE  ramfs_write_count(q, count) \in Int
<1> DEFINE d == PageSize - q
<1>1. d \in Int /\ count \in Int
  BY FilesConstants
<1> HIDE DEF d
<1>2. Min({count, d}) \in {count, d}
  BY ZenonT(40), <1>1, MinMax
<1> QED BY <1>1, <1>2 DEF ramfs_write_count, d

(* The contents of a vnode and the object that the call holds are apart.    *)
LEMMA WritesHeld ==
    ASSUME NEW s, Good(s), NEW f \in FileObj, s.file[f].f_vnode # NULL,
           s.file[f].f_refcount > 0, NEW p \in Int, p >= -1,
           NEW v \in Vnode, NEW m \in Data, Len(m) <= PageSize
    PROVE  fput([Held(s, f, p) EXCEPT !.mem[v] = m], f) = Touch(SetMem(s, v, m), f, p)
<1> DEFINE g == SetMem(s, v, m)
           z == Obj(s.file[f], s.file[f].f_refcount + 1, p)
           h == [s.file EXCEPT ![f] = z]
           t == Held(s, f, p)
<1>0. s \in State
  BY DEF Good
<1>1. Good(g) /\ g.file = s.file
  BY MemGood
<1>2. t = [s EXCEPT !.file = h] /\ t.mem = s.mem
  <2>1. t.mem = s.mem
    <3> HIDE DEF t
    <3> QED BY HeldState DEF t
  <2> QED BY <2>1 DEF Held, SetFile
<1> HIDE DEF z, t
<1>3. [t EXCEPT !.mem[v] = m] = SetMem(t, v, m)
  BY Zenon DEF SetMem
<1>4. Held(g, f, p) = [g EXCEPT !.file = h]
  <2> HIDE DEF g
  <2> QED BY <1>1 DEF Held, SetFile, z
<1> HIDE DEF h
<1>5. SetMem([s EXCEPT !.file = h], v, m) = [g EXCEPT !.file = h]
  BY Zenon, <1>0 DEF SetMem, State
<1> HIDE DEF g
<1>6. [t EXCEPT !.mem[v] = m] = Held(g, f, p)
  BY ZenonT(40), <1>2, <1>3, <1>4, <1>5
<1>7. fput(Held(g, f, p), f) = Touch(g, f, p)
  BY Zenon, <1>1, Fput DEF Held
<1> QED BY Zenon, <1>6, <1>7 DEF t, g

(* What do_write has seen to before it writes at q.                         *)
Writable(s, o, q) ==
    /\ o.f_mode # {"read"} /\ Kind[o.f_vnode] # "dir"
    /\ "append" \in o.f_mode => q = Len(s.mem[o.f_vnode])

(* Writing through the object at f while the call holds its reference.      *)
LEMMA WriteAtAnswers ==
    ASSUME Facts, NEW s, Good(s), NEW fd, ValidFd(s, fd), NEW f, f = s.p_files[fd],
           NEW o, o = s.file[f], NEW q, Lands(o, q), Writable(s, o, q), NEW count \in Nat, NEW byte \in Bytes
    PROVE  Answers(s, WriteAt(Held(s, f, q), f, count, byte), fd)
<1> DEFINE v == o.f_vnode
           w == Held(s, f, q)
           p == q + count
           r == WriteAt(w, f, count, byte)
           n == ramfs_write_count(q, count)
           m == ramfs_write(s.mem[v], q, byte, n)
<1> HIDE DEF v, w, p, r, n, m
<1>0. s \in State
  BY Zenon DEF Good
<1>1. /\ f \in FileObj /\ o.f_vnode # NULL /\ v # NULL /\ v \in Vnode /\ o.f_refcount > 0
      /\ q \in Int /\ p \in Int /\ n \in Int
  <2>1. f \in FileObj /\ o \in FileT /\ v # NULL /\ v \in Vnode /\ o.f_refcount >= 1 /\ q \in Int
    BY Zenon, Named DEF Lands, v
  <2>2. n \in Int
    BY Zenon, <2>1, WriteCounts DEF n
  <2>3. o.f_refcount > 0
    BY <2>1 DEF FileT
  <2>4. p \in Int
    BY <2>1 DEF p
  <2> QED BY Zenon, <2>1, <2>2, <2>3, <2>4 DEF v
<1>2. Kind[v] # "dir" /\ ("append" \in o.f_mode => q = Len(s.mem[v]))
  BY Zenon DEF v, Writable
<1>3. Kind[v] \in {"data", "chr", "blk"}
  BY Zenon, <1>1, <1>2, FilesConstants
<1>4. Lands(o, p)
  <2>1. q >= 0 => p >= 0
    BY <1>1 DEF p
  <2> QED BY Zenon, <1>1, <2>1 DEF Lands
<1>5. /\ w \in State /\ w.mem = s.mem /\ w.file[f].f_vnode = v /\ w.file[f].f_pos = q
      /\ [w EXCEPT !.file[f].f_pos = q + count] = Held(s, f, p)
      /\ Held(s, f, p) \in State /\ Held(s, f, p).mem = s.mem
  <2>1. /\ w \in State /\ w.mem = s.mem /\ w.file[f].f_vnode = v /\ w.file[f].f_pos = q
        /\ \A a \in Int : [w EXCEPT !.file[f].f_pos = a] = Held(s, f, a)
    <3>1. /\ Held(s, f, q) \in State /\ Held(s, f, q).mem = s.mem
          /\ Held(s, f, q).file[f].f_vnode = s.file[f].f_vnode /\ Held(s, f, q).file[f].f_pos = q
          /\ \A a \in Int : [Held(s, f, q) EXCEPT !.file[f].f_pos = a] = Held(s, f, a)
      <4>1. f \in FileObj /\ s.file[f].f_vnode # NULL /\ s.file[f].f_refcount > 0 /\ q \in Int
        BY Zenon, <1>1
      <4> QED BY SMT, <4>1, HeldAt
    <3> QED BY ZenonT(40), <3>1 DEF w, v
  <2>2. Held(s, f, p) \in State /\ Held(s, f, p).mem = s.mem
    BY <1>1, HeldState
  <2> QED BY Zenon, <1>1, <2>1, <2>2 DEF p
<1>6. /\ Kind[v] = "data" /\ n < 0 => r = Halted(w, "memcpy")
      /\ Kind[v] = "data" /\ ~(n < 0) =>
           r = Ret(fput([Held(s, f, p) EXCEPT !.mem[v] = ramfs_write(@, q, byte, n)], f), "ok", n)
      /\ Kind[v] = "chr" => r = Ret(fput(Held(s, f, p), f), "ok", count)
      /\ Kind[v] = "blk" => r = Ret(fput(Held(s, f, p), f), "ok", -ENOTSUP)
  <2>1. n = ramfs_write_count(q, count) /\ r = WriteAt(w, f, count, byte)
    BY DEF n, r
  <2>2. v = w.file[f].f_vnode /\ q = w.file[f].f_pos
        /\ Held(s, f, p) = [w EXCEPT !.file[f].f_pos = q + count] /\ n \in Int
    BY Zenon, <1>1, <1>5
  <2>3. WriteCases(w, f, count, byte, v, q, Held(s, f, p), n, r)
    BY Zenon, <2>1, <2>2, WriteAtCases
  <2> QED BY Zenon, <2>3 DEF WriteCases
<1>7. CASE Kind[v] = "data" /\ n < 0
  <2>0. r = Halted(w, "memcpy") /\ w \in State /\ w.mem = s.mem
    BY Zenon, <1>5, <1>6, <1>7
  <2>1. Stopped(r.s) /\ r.s.mem = s.mem
    BY <2>0, Stops
  <2> QED BY Zenon, <2>1 DEF Answers, r, w
<1>8. CASE Kind[v] = "data" /\ ~(n < 0)
  <2>1. q \in Nat /\ p \in Nat /\ p >= -1 /\ n >= 0
    <3>1. q \in Int /\ count \in Nat /\ n \in Int /\ (q >= 0 \/ Kind[v] = "blk")
      BY Zenon, <1>1 DEF Lands, v
    <3>2. q >= 0 /\ ~(n < 0)
      BY Zenon, <1>8, <3>1
    <3>3. q \in Nat /\ q + count \in Nat /\ q + count >= -1 /\ n >= 0
      BY SMT, <3>1, <3>2
    <3> QED BY Zenon, <3>3 DEF p
  <2>2. s.mem[v] \in Data /\ Len(s.mem[v]) <= PageSize /\ Len(s.mem[v]) \in Nat /\ PageSize \in Nat
    BY <1>0, <1>1, FilesConstants DEF Good, State, Data
  <2>3. m \in Data /\ Len(m) \in Len(s.mem[v])..PageSize /\ (q = Len(s.mem[v]) => SubSeq(m, 1, Len(s.mem[v])) = s.mem[v])
    <3>1. s.mem[v] \in Data /\ Len(s.mem[v]) <= PageSize /\ q \in Nat /\ ramfs_write_count(q, count) >= 0
      BY <2>1, <2>2 DEF n
    <3> QED BY Zenon, <3>1, WriteGrows DEF m, n
  <2>4. Len(m) <= PageSize
    BY <2>2, <2>3
  <2>5. Grows(o, s.mem[v], m)
    BY Zenon, <1>2, <2>3 DEF Grows, Writable
  <2>6. [Held(s, f, p) EXCEPT !.mem[v] = ramfs_write(@, q, byte, n)] = [Held(s, f, p) EXCEPT !.mem[v] = m]
    BY Zenon, <1>5 DEF m
  <2>7. r.s = fput([Held(s, f, p) EXCEPT !.mem[v] = m], f)
    BY SMTT(30), <1>6, <1>8, <2>6, Fields
  <2>8. r.s = Touch(SetMem(s, v, m), f, p)
    BY <1>1, <2>1, <2>3, <2>4, <2>7, WritesHeld
  <2>9. Writes(s, r.s, f)
    BY ZenonT(40), <1>4, <2>3, <2>5, <2>8 DEF Writes, v
  <2> QED BY ZenonT(40), <2>9 DEF Answers, r, w
<1>9. CASE Kind[v] \in {"chr", "blk"}
  <2>1. r.s = fput(Held(s, f, p), f)
    BY <1>6, <1>9, Fields
  <2>2. CASE p >= -1
    <3>1. r.s = Touch(s, f, p)
      BY ZenonT(40), <1>1, <2>1, <2>2, Fput DEF Held
    <3> QED BY Zenon, <1>4, <3>1 DEF Answers, Moves, r, w
  <2>3. CASE ~(p >= -1)
    <3>1. r.s = Stop(Held(s, f, p), "fput")
      BY <1>1, <2>1, <2>3, Fput DEF Held
    <3>0. Held(s, f, p) \in State /\ Held(s, f, p).mem = s.mem
      BY ZenonT(40), <1>5
    <3>2. Stopped(r.s) /\ r.s.mem = s.mem
      BY SMTT(30), <3>0, <3>1, Stops
    <3> QED BY Zenon, <3>2 DEF Answers, r, w
  <2> QED BY <2>2, <2>3
<1> QED BY <1>3, <1>7, <1>8, <1>9

(* A leaked reference, or one still held, does no harm.                     *)
LEMMA LeakGood ==
    ASSUME Facts, NEW s, Good(s), NEW f \in FileObj, s.file[f].f_refcount > 0
    PROVE  /\ Good(Leak(s, f)) /\ Leak(s, f).p_files = s.p_files
           /\ \A g : Slots(Leak(s, f), g) = Slots(s, g)
           /\ Live(Leak(s, f)) = Live(s)
           /\ Leak(s, f).mem = s.mem
           /\ \A g \in FileObj : Leak(s, f).file[g].f_pos = s.file[g].f_pos
<1> DEFINE a == s.file[f]
           n == s.file[f].f_refcount + 1
           o == Obj(a, n, a.f_pos)
<1>1. s \in State /\ a \in FileT /\ n \in Nat /\ n > 0 /\ Settled(a)
  BY SMTT(30) DEF Good, State, FileT
<1>2. Cardinality(Slots(s, f)) <= n
  <2>1. Cardinality(Slots(s, f)) <= a.f_refcount /\ Cardinality(Slots(s, f)) \in Nat
    BY SlotsFinite DEF Good, DescriptorsCounted
  <2> QED BY SMTT(30), <1>1, <2>1 DEF FileT
<1> HIDE DEF a, n
<1>3. o \in FileT /\ o.f_refcount = n /\ o.f_vnode = a.f_vnode /\ o.f_pos = a.f_pos
  BY ZenonT(40), <1>1 DEF Obj, FileT
<1>4. Settled(o)
  BY <1>1, <1>3 DEF Settled
<1> HIDE DEF o
<1>5. Leak(s, f) = SetFile(s, f, o)
  BY DEF Leak, o, a, n
<1>6. o.f_refcount > 0 /\ o.f_vnode = s.file[f].f_vnode /\ Cardinality(Slots(s, f)) <= o.f_refcount
  BY Zenon, <1>1, <1>2, <1>3 DEF a
<1>7. /\ Good(SetFile(s, f, o)) /\ \A g : Slots(SetFile(s, f, o), g) = Slots(s, g)
      /\ Live(SetFile(s, f, o)) = Live(s)
  BY Zenon, <1>3, <1>4, <1>6, EditGood
<1>8. /\ SetFile(s, f, o).p_files = s.p_files /\ SetFile(s, f, o).mem = s.mem
      /\ SetFile(s, f, o).file[f] = o
      /\ \A g \in FileObj : g # f => SetFile(s, f, o).file[g] = s.file[g]
  BY <1>1, <1>3, EditedFields
<1>9. \A g \in FileObj : SetFile(s, f, o).file[g].f_pos = s.file[g].f_pos
  BY Zenon, <1>3, <1>8 DEF a
<1> QED BY <1>5, <1>7, <1>8, <1>9

(* do_write.                                                                *)
LEMMA WriteAnswers ==
    ASSUME Facts, NEW s, Good(s), NEW fd, NEW count \in Nat, NEW byte \in Bytes
    PROVE  Answers(s, do_write(s, fd, count, byte), fd)
<1> DEFINE f == s.p_files[fd]
           r == do_write(s, fd, count, byte)
<1>0. s \in State
  BY DEF Good
<1>1. CASE ~ValidFd(s, fd)
  <2>1. r = FdError(s, fd)
    BY Zenon, <1>1 DEF do_write, Checked
  <2> QED BY <1>1, <2>1, BadFd DEF Answers
<1>2. CASE ValidFd(s, fd) /\ ~Sane(s.file[f])
  <2>1. f \in FileObj /\ s.file[f].f_vnode # NULL
    BY SMTT(30), <1>2, Named
  <2>2. Stopped(fref(s, f)) /\ fref(s, f).mem = s.mem
    BY ZenonT(40), <1>2, <2>1, FrefStops
  <2>3. r = Ret(fref(s, f), "none", 0)
    BY <1>2, <2>2 DEF do_write, Checked, With
  <2> QED BY SMTT(30), <2>2, <2>3, Fields DEF Answers
<1>3. CASE ValidFd(s, fd) /\ Sane(s.file[f])
  <2> DEFINE o == s.file[f]
             v == o.f_vnode
             t == Held(s, f, o.f_pos)
             l == Len(s.mem[v])
  <2>1. /\ f \in FileObj /\ v # NULL /\ v \in Vnode
        /\ o.f_refcount > 0 /\ o.f_pos \in Int /\ Settled(o)
    <3>1. f \in FileObj /\ o \in FileT /\ v # NULL /\ v \in Vnode /\ o.f_refcount >= 1
      BY Zenon, <1>3, Named
    <3> QED BY SMTT(30), <3>1 DEF FileT, Good
  <2>2. fref(s, f) = t /\ ~Stopped(t)
    BY Zenon, <1>3, <2>1, FrefFput
  <2>3. /\ t.file[f].f_pos = o.f_pos /\ t.file[f].f_mode = o.f_mode
        /\ t.file[f].f_vnode = v /\ t.mem = s.mem /\ t.p_files = s.p_files
        /\ \A q \in Int : Touch(t, f, q) = Held(s, f, q)
    <3> HIDE DEF f
    <3> QED BY SMTT(30), <2>1, HeldState
  <2>4. t = Leak(s, f)
    BY SMTT(30) DEF Held, Leak
  <2>5. r = IF Kind[v] = "dir" THEN Ret(t, "EISDIR", 0)
            ELSE IF o.f_mode = {"read"} THEN Ret(t, "EBADF", 0)
            ELSE IF "append" \in o.f_mode THEN WriteAt(do_lseek(t, fd, 0, "SEEK_END").s, f, count, byte)
            ELSE WriteAt(t, f, count, byte)
    BY ZenonT(40), <1>3, <2>2, <2>3 DEF do_write, Checked, With
  <2>6. CASE r = Ret(t, "EISDIR", 0) \/ r = Ret(t, "EBADF", 0)
    <3>1. r.err # "ok" /\ r.s = Leak(s, f)
      BY <2>4, <2>6, Fields
    <3> QED BY Zenon, <1>3, <3>1 DEF Answers
  <2>7. CASE /\ Kind[v] # "dir" /\ o.f_mode # {"read"} /\ "append" \notin o.f_mode
             /\ r = WriteAt(t, f, count, byte)
    <3>1. Lands(o, o.f_pos)
      BY <2>1 DEF Lands, Settled
    <3>2. Writable(s, o, o.f_pos)
      BY ZenonT(40), <2>7 DEF Writable
    <3> HIDE DEF f
    <3> QED BY ZenonT(40), <1>3, <2>7, <3>1, <3>2, WriteAtAnswers DEF f
  <2>8. CASE /\ Kind[v] # "dir" /\ o.f_mode # {"read"}
             /\ r = WriteAt(do_lseek(t, fd, 0, "SEEK_END").s, f, count, byte)
    <3>1. l \in Nat /\ l \in Int /\ l >= 0 /\ ~(l < 0) /\ l + 0 = l
      <4>1. s.mem[v] \in Seq(Bytes \cup {Hole})
        BY Zenon, <1>0, <2>1 DEF State, Data
      <4>2. Len(s.mem[v]) \in Nat
        BY Zenon, <4>1, LenNatural
      <4>3. l = Len(s.mem[v])
        BY Zenon
      <4> HIDE DEF l
      <4>4. l \in Nat
        BY Zenon, <4>2, <4>3
      <4> QED BY SMT, <4>4
    <3>2. Good(t)
      BY SMTT(30), <2>1, <2>4, LeakGood
    <3>3. ValidFd(t, fd) /\ Sane(t.file[f]) /\ t.p_files[fd] = f
      BY ZenonT(40), <1>3, <2>3 DEF ValidFd, Sane
    <3>4. Target(t, f, 0, "SEEK_END") = l
      BY Zenon, <2>3, <3>1 DEF Target, vn_len
    <3> HIDE DEF t, f, l
    <3>5. 0 \in Int /\ "SEEK_END" \in Whence /\ "SEEK_END" # "other"
      BY DEF Whence
    <3>6. do_lseek(t, fd, 0, "SEEK_END") = Ret(Touch(t, f, l), "ok", l)
      <4> DEFINE g == t.p_files[fd]
      <4>1. Sane(t.file[g]) /\ ~(Target(t, g, 0, "SEEK_END") < 0)
        BY <3>1, <3>3, <3>4
      <4>2. do_lseek(t, fd, 0, "SEEK_END") =
              Ret(Touch(t, g, Target(t, g, 0, "SEEK_END")), "ok", Target(t, g, 0, "SEEK_END"))
        BY ZenonT(40), <3>2, <3>3, <3>5, <4>1, LseekResult
      <4> QED BY <3>3, <3>4, <4>2
    <3>7. do_lseek(t, fd, 0, "SEEK_END").s = Held(s, f, l)
      BY <2>3, <3>1, <3>6, Fields
    <3>8. Lands(o, l)
      BY SMTT(30), <3>1 DEF Lands
    <3>9. Answers(s, WriteAt(Held(s, f, l), f, count, byte), fd)
      <4>1. Writable(s, o, l)
        BY ZenonT(40), <2>8 DEF Writable, l, f
      <4> QED BY Zenon, <1>3, <3>8, <4>1, WriteAtAnswers DEF f
    <3> QED BY ZenonT(40), <2>8, <3>7, <3>9
  <2> QED BY ZenonT(40), <2>5, <2>6, <2>7, <2>8
<1> QED BY SMTT(30), <1>1, <1>2, <1>3

-----------------------------------------------------------------------------
(* What every call keeps to: the step properties of module Files, with the  *)
(* invariant.                                                               *)
Private(s, t) == \/ Moved(s, t) = {}
                 \/ \E f : Moved(s, t) \subseteq {f} /\ Slots(s, f) # {}

Fine(s, r, fd) ==
    /\ WritesKeepTo(s, r.s, fd)
    /\ \/ Stopped(r.s)
       \/ /\ Good(r.s) /\ Private(s, r.s)
          /\ r.err = "ok" => NoLeak(s, r.s)

(* A position that moves.                                                   *)
LEMMA TouchGood ==
    ASSUME NEW s, Good(s), NEW f \in FileObj, s.file[f].f_refcount > 0,
           s.file[f].f_vnode \in Vnode, NEW p, Lands(s.file[f], p)
    PROVE  LET t == Touch(s, f, p) IN
           /\ Good(t) /\ t.p_files = s.p_files /\ t.mem = s.mem
           /\ \A g \in FileObj : t.file[g].f_refcount = s.file[g].f_refcount
           /\ \A g \in FileObj : g # f => t.file[g].f_pos = s.file[g].f_pos
<1> DEFINE a == s.file[f]
           n == s.file[f].f_refcount
           o == Obj(a, n, p)
           t == SetFile(s, f, o)
<1>1. s \in State /\ a \in FileT /\ n \in Nat /\ n > 0 /\ Settled(a) /\ a.f_refcount = n /\ p \in Int
  BY Zenon DEF Good, State, FileT, Lands
<1>2. Cardinality(Slots(s, f)) <= n
  BY DEF Good, DescriptorsCounted
<1>3. a.f_vnode \in Vnode /\ Lands(a, p)
  OBVIOUS
<1> HIDE DEF a, n
<1>4. o \in FileT /\ o.f_refcount = n /\ o.f_vnode = a.f_vnode /\ o.f_pos = p
  BY Zenon, <1>1 DEF Obj, FileT
<1>5. Settled(o)
  BY SMTT(30), <1>1, <1>3, <1>4 DEF Settled, Lands
<1> HIDE DEF o
<1>6. Touch(s, f, p) = t
  BY SMTT(30) DEF Touch, o, a, n
<1>7. o.f_refcount > 0 /\ o.f_vnode = s.file[f].f_vnode /\ Cardinality(Slots(s, f)) <= o.f_refcount
  BY Zenon, <1>1, <1>2, <1>4 DEF a
<1>8. Good(t)
  BY Zenon, <1>4, <1>5, <1>7, EditGood
<1>9. /\ t.p_files = s.p_files /\ t.mem = s.mem /\ t.file[f] = o
      /\ \A g \in FileObj : g # f => t.file[g] = s.file[g]
  BY SMTT(30), <1>1, <1>4, EditedFields
<1> HIDE DEF t
<1>10. /\ \A g \in FileObj : t.file[g].f_refcount = s.file[g].f_refcount
       /\ \A g \in FileObj : g # f => t.file[g].f_pos = s.file[g].f_pos
  BY <1>1, <1>4, <1>9 DEF a
<1> QED BY Zenon, <1>6, <1>8, <1>9, <1>10

(* A call that changes no slot and no count leaks nothing.                  *)
LEMMA CountsKept ==
    ASSUME NEW s, NEW t, t.p_files = s.p_files,
           \A g \in FileObj : t.file[g].f_refcount = s.file[g].f_refcount
    PROVE  NoLeak(s, t)
BY DEF NoLeak, Excess, Slots

(* A call on a descriptor.                                                  *)
LEMMA AnswersFine ==
    ASSUME Facts, NEW s, Good(s), NEW r, NEW fd, Answers(s, r, fd)
    PROVE  Fine(s, r, fd)
<1> DEFINE f == s.p_files[fd]
           t == r.s
<1>0. s \in State
  BY DEF Good
<1>1. CASE Stopped(t) /\ t.mem = s.mem
  BY <1>1 DEF Fine, WritesKeepTo
<1>2. CASE t = s
  <2>1. NoLeak(s, t)
    BY <1>2, CountsKept
  <2>2. Moved(s, t) = {} /\ WritesKeepTo(s, t, fd)
    BY Zenon, <1>2 DEF Moved, WritesKeepTo
  <2> QED BY <1>2, <2>1, <2>2 DEF Fine, Private
<1>3. CASE ValidFd(s, fd) /\ r.err # "ok" /\ t = Leak(s, f)
  <2>1. f \in FileObj /\ s.file[f].f_refcount > 0
    <3>1. f \in FileObj /\ s.file[f] \in FileT /\ s.file[f].f_refcount >= 1
      BY Zenon, <1>3, Named
    <3> QED BY SMTT(30), <3>1 DEF FileT
  <2>2. Good(t) /\ t.mem = s.mem /\ \A g \in FileObj : t.file[g].f_pos = s.file[g].f_pos
    <3> HIDE DEF f
    <3> QED BY <1>3, <2>1, LeakGood
  <2>3. Moved(s, t) = {} /\ WritesKeepTo(s, t, fd)
    BY Zenon, <2>2 DEF Moved, Live, WritesKeepTo
  <2> QED BY Zenon, <1>3, <2>2, <2>3 DEF Fine, Private
<1>4. ASSUME ValidFd(s, fd), NEW g, Good(g), g.file = s.file, g.p_files = s.p_files,
             WritesKeepTo(s, g, fd), NEW p, Lands(s.file[f], p), t = Touch(g, f, p)
      PROVE  Fine(s, r, fd)
  <2>1. /\ f \in FileObj /\ g.file[f].f_refcount > 0 /\ g.file[f].f_vnode \in Vnode
        /\ Slots(s, f) # {} /\ Lands(g.file[f], p)
    <3>1. /\ f \in FileObj /\ s.file[f] \in FileT /\ s.file[f].f_refcount >= 1
          /\ s.file[f].f_vnode \in Vnode /\ fd \in Slots(s, f)
      BY Zenon, <1>4, Named
    <3>2. s.file[f].f_refcount > 0
      <4>1. s.file[f].f_refcount \in Nat
        BY Zenon, <3>1 DEF FileT
      <4> QED BY SMT, <3>1, <4>1
    <3> QED BY Zenon, <1>4, <3>1, <3>2
  <2> HIDE DEF f
  <2>2. /\ Good(t) /\ t.p_files = g.p_files /\ t.mem = g.mem
        /\ \A h \in FileObj : t.file[h].f_refcount = g.file[h].f_refcount
        /\ \A h \in FileObj : h # f => t.file[h].f_pos = g.file[h].f_pos
    BY SMTT(30), <1>4, <2>1, TouchGood
  <2>3. NoLeak(s, t)
    BY SMTT(30), <1>4, <2>2, CountsKept
  <2>4. Moved(s, t) \subseteq {f}
    BY Zenon, <1>4, <2>2 DEF Moved, Live
  <2>5. WritesKeepTo(s, t, fd)
    BY ZenonT(40), <1>4, <2>2 DEF WritesKeepTo
  <2> QED BY Zenon, <2>1, <2>2, <2>3, <2>4, <2>5 DEF Fine, Private
<1>5. CASE ValidFd(s, fd) /\ Moves(s, t, f)
  <2>1. WritesKeepTo(s, s, fd)
    BY SMTT(30) DEF WritesKeepTo
  <2> QED BY <1>4, <1>5, <2>1 DEF Moves
<1>6. CASE ValidFd(s, fd) /\ Writes(s, t, f)
  <2> DEFINE v == s.file[f].f_vnode
  <2>1. PICK p, m : /\ Lands(s.file[f], p) /\ m \in Data /\ Grows(s.file[f], s.mem[v], m)
                    /\ t = Touch(SetMem(s, v, m), f, p)
    BY ZenonT(40), <1>6 DEF Writes
  <2> DEFINE g == SetMem(s, v, m)
  <2>2. v \in Vnode
    BY Zenon, <1>6, Named
  <2>3. Len(m) <= PageSize
    <3>1. Len(m) \in Len(s.mem[v])..PageSize
      BY ZenonT(40), <2>1 DEF Grows
    <3>2. Len(s.mem[v]) \in Nat /\ PageSize \in Nat
      <4>1. s.mem[v] \in Seq(Bytes \cup {Hole})
        BY Zenon, <1>0, <2>2 DEF State, Data
      <4> QED BY Zenon, <4>1, LenNatural, FilesConstants
    <3> QED BY SMTT(30), <3>1, <3>2
  <2>4. /\ Good(g) /\ g.file = s.file /\ g.p_files = s.p_files /\ g.mem[v] = m
        /\ \A w \in Vnode : w # v => g.mem[w] = s.mem[w]
    <3> HIDE DEF v
    <3> QED BY SMTT(30), <2>1, <2>2, <2>3, MemGood
  <2>5. WritesKeepTo(s, g, fd)
    <3> HIDE DEF g
    <3> SUFFICES ASSUME NEW w \in Vnode, g.mem[w] # s.mem[w]
                 PROVE  /\ ValidFd(s, fd) /\ s.file[s.p_files[fd]].f_vnode = w
                        /\ Grows(s.file[s.p_files[fd]], s.mem[w], g.mem[w])
      BY Zenon DEF WritesKeepTo
    <3>1. w = v
      BY Zenon, <2>4
    <3> QED BY ZenonT(40), <1>6, <2>1, <2>4, <3>1
  <2> HIDE DEF g, f
  <2>6. t = Touch(g, f, p)
    BY Zenon, <2>1 DEF g
  <2> QED BY ZenonT(40), <1>4, <1>6, <2>1, <2>4, <2>5, <2>6 DEF f
<1> QED BY <1>1, <1>2, <1>3, <1>5, <1>6 DEF Answers

-----------------------------------------------------------------------------
(* The descriptor table.  A slot that is set takes the descriptor from what *)
(* it named and gives it to what it names.                                  *)
LEMMA SlotSet ==
    ASSUME NEW s \in State, NEW fd \in Slot, NEW f \in FileObj \cup {NULL}
    PROVE  LET t == SetFd(s, fd, f) IN
           /\ t \in State /\ t.file = s.file /\ t.vn_refcount = s.vn_refcount
           /\ t.mem = s.mem /\ t.fault = "none" /\ t.p_files[fd] = f
           /\ \A e \in Slot : e # fd => t.p_files[e] = s.p_files[e]
           /\ \A g : g # f /\ g # s.p_files[fd] => Slots(t, g) = Slots(s, g)
           /\ Slots(t, f) = Slots(s, f) \cup {fd}
<1> DEFINE t == SetFd(s, fd, f)
           p == [s.p_files EXCEPT ![fd] = f]
<1>1. /\ p \in [Slot -> FileObj \cup {NULL}] /\ p[fd] = f
      /\ \A e \in Slot : e # fd => p[e] = s.p_files[e]
  BY DEF State
<1> HIDE DEF p
<1>2. t = [s EXCEPT !.p_files = p]
  BY DEF SetFd, p
<1> HIDE DEF t
<1>3. /\ t \in State /\ t.file = s.file /\ t.vn_refcount = s.vn_refcount
      /\ t.mem = s.mem /\ t.fault = "none" /\ t.p_files = p
  BY <1>1, <1>2 DEF State
<1>4. \A g : /\ Slots(t, g) = {e \in Slot : p[e] = g}
            /\ Slots(s, g) = {e \in Slot : s.p_files[e] = g}
  BY <1>3 DEF Slots, Slot
<1>5. ASSUME NEW g, g # f, g # s.p_files[fd] PROVE Slots(t, g) = Slots(s, g)
  <2>1. {e \in Slot : p[e] = g} = {e \in Slot : s.p_files[e] = g}
    BY <1>1, <1>5
  <2> QED BY <1>4, <2>1
<1>6. Slots(t, f) = Slots(s, f) \cup {fd}
  <2>1. {e \in Slot : p[e] = f} = {e \in Slot : s.p_files[e] = f} \cup {fd}
    BY <1>1
  <2> QED BY <1>4, <2>1
<1> QED BY <1>1, <1>3, <1>5, <1>6 DEF t

(* The slot that do_close clears is the object's no more.                   *)
LEMMA SlotLost ==
    ASSUME NEW s \in State, NEW fd \in Slot, s.p_files[fd] # NULL
    PROVE  Slots(SetFd(s, fd, NULL), s.p_files[fd]) = Slots(s, s.p_files[fd]) \ {fd}
<1> DEFINE h == s.p_files[fd]
           p == SetFd(s, fd, NULL).p_files
<1>1. p[fd] = NULL /\ \A e \in Slot : e # fd => p[e] = s.p_files[e]
  BY DEF State, SetFd
<1>2. /\ Slots(SetFd(s, fd, NULL), h) = {e \in Slot : p[e] = h}
      /\ Slots(s, h) = {e \in Slot : s.p_files[e] = h}
  BY DEF Slots, Slot
<1> HIDE DEF p
<1>3. {e \in Slot : p[e] = h} = {e \in Slot : s.p_files[e] = h} \ {fd}
  BY <1>1
<1> QED BY <1>2, <1>3

(* The holders of a vnode are finitely many.                                *)
LEMMA HoldersFinite ==
    ASSUME Facts, NEW s, NEW v
    PROVE  IsFiniteSet(Holders(s, v))
<1>1. Holders(s, v) \subseteq FileObj
  BY DEF Holders, Live
<1> QED BY <1>1, FilesConstants DEF Facts, FiniteSetsClosed

(* A step that adds and loses no reference without a descriptor, and leaves *)
(* the files, and the positions of the objects that stay, alone.            *)
Stays(s, t, f) ==
    t.file[f].f_refcount > 0 =>
        s.file[f].f_refcount > 0 /\ t.file[f].f_pos = s.file[f].f_pos

Same(s, t) ==
    /\ t.mem = s.mem
    /\ \A f \in FileObj : Stays(s, t, f) /\ Excess(t, f) = Excess(s, f)

(* Such a step moves and writes nothing and leaks nothing; two of them are  *)
(* one.                                                                     *)
LEMMA SameFine ==
    ASSUME NEW s, NEW r, Good(r.s), Same(s, r.s), NEW fd
    PROVE  Fine(s, r, fd)
<1>1. Moved(s, r.s) = {}
  BY Zenon DEF Moved, Live, Same, Stays
<1>2. WritesKeepTo(s, r.s, fd) /\ NoLeak(s, r.s)
  BY SMTT(30) DEF Same, WritesKeepTo, NoLeak
<1> QED BY SMTT(30), <1>1, <1>2 DEF Fine, Private

(* Two such steps in a row are one.                                         *)
LEMMA SameTwice ==
    ASSUME NEW s, NEW t, NEW u, Same(s, t), Same(t, u)
    PROVE  Same(s, u)
BY DEF Same, Stays

(* An object that is not allocated.                                         *)
LEMMA FreeFileType == FreeFile \in FileT /\ FreeFile.f_refcount = 0 /\ FreeFile.f_pos = 0
BY SMTT(30) DEF FreeFile, FileT

(* do_close of a descriptor.                                                *)
LEMMA CloseSame ==
    ASSUME Facts, NEW s, Good(s), NEW fd, ValidFd(s, fd)
    PROVE  LET t == do_close(s, fd).s IN
           \/ Stopped(t) /\ t.mem = s.mem
           \/ /\ Good(t) /\ Same(s, t) /\ t.p_files[fd] = NULL
              /\ \A e \in Slot : e # fd => t.p_files[e] = s.p_files[e]
<1> DEFINE f == s.p_files[fd]
           o == s.file[f]
           v == o.f_vnode
           u == SetFd(s, fd, NULL)
           t == fput(u, f)
<1>0. s \in State /\ NULL \notin FileObj
  BY Zenon, FilesConstants DEF Good
<1>1. /\ fd \in Slot /\ f \in FileObj /\ fd \in Slots(s, f) /\ o \in FileT
      /\ o.f_refcount >= 1 /\ v \in Vnode /\ v # NULL /\ f # NULL
  BY <1>0, Named
<1>2. do_close(s, fd).s = t
  BY ZenonT(40), Fields DEF do_close, Checked
<1>3. /\ u \in State /\ u.file = s.file /\ u.vn_refcount = s.vn_refcount /\ u.mem = s.mem
      /\ u.p_files[fd] = NULL /\ \A e \in Slot : e # fd => u.p_files[e] = s.p_files[e]
      /\ \A g : g # NULL /\ g # f => Slots(u, g) = Slots(s, g)
      /\ Slots(u, f) = Slots(s, f) \ {fd}
  <2>1. NULL \in FileObj \cup {NULL}
    BY Zenon
  <2>2. /\ u \in State /\ u.file = s.file /\ u.vn_refcount = s.vn_refcount /\ u.mem = s.mem
        /\ u.p_files[fd] = NULL /\ \A e \in Slot : e # fd => u.p_files[e] = s.p_files[e]
    <3>1. fd \in Slot
      BY Zenon, <1>1
    <3> QED BY SMT, <1>0, <2>1, <3>1, SlotSet
  <2>3. \A g : g # NULL /\ g # f => Slots(u, g) = Slots(s, g)
    <3>1. fd \in Slot
      BY Zenon, <1>1
    <3> QED BY SMT, <1>0, <2>1, <3>1, SlotSet
  <2>4. Slots(u, f) = Slots(s, f) \ {fd}
    BY Zenon, <1>0, <1>1, SlotLost
  <2> QED BY <2>2, <2>3, <2>4
<1>4. /\ Cardinality(Slots(u, f)) = Cardinality(Slots(s, f)) - 1
      /\ Cardinality(Slots(s, f)) \in Nat /\ Cardinality(Slots(s, f)) >= 1
      /\ Cardinality(Slots(s, f)) <= o.f_refcount
  <2>1. IsFiniteSet(Slots(s, f)) /\ Cardinality(Slots(s, f)) <= o.f_refcount
    BY Zenon, <1>1, SlotsFinite DEF Good, DescriptorsCounted
  <2> QED BY Zenon, <1>1, <1>3, <2>1, OneMore
<1>a. o = s.file[f] /\ v = o.f_vnode /\ u.file[f] = o
  BY Zenon, <1>3
<1> HIDE DEF f, u, o, v
<1>5. CASE ~Sane(o)
  <2>1. t = Stop(u, "fput")
    BY Zenon, <1>a, <1>5 DEF fput, With
  <2> QED BY <1>2, <1>3, <2>1, Stops
<1>6. CASE Sane(o) /\ o.f_refcount > 1
  <2> DEFINE a == [o EXCEPT !.f_refcount = @ - 1]
  <2>1. t = SetFile(u, f, a)
    <3>1. t = [u EXCEPT !.file[f].f_refcount = @ - 1]
      BY <1>1, <1>3, <1>6, <1>a DEF fput, With, FileT
    <3> QED BY <1>a, <3>1 DEF SetFile
  <2>2. /\ a \in FileT /\ a.f_refcount = o.f_refcount - 1 /\ a.f_refcount >= 1 /\ a.f_vnode = v
        /\ a.f_pos = o.f_pos /\ o.f_refcount \in Nat
    BY SMTT(30), <1>1, <1>6, <1>a DEF FileT
  <2> HIDE DEF a
  <2>3. /\ t \in State /\ t.p_files = u.p_files /\ t.vn_refcount = u.vn_refcount /\ t.mem = u.mem
        /\ t.file[f] = a /\ \A g \in FileObj : g # f => t.file[g] = u.file[g]
    <3>1. u \in State /\ f \in FileObj /\ a \in FileT
      BY Zenon, <1>1, <1>3, <2>2
    <3> HIDE DEF t
    <3> QED BY SMT, <2>1, <3>1, EditedFields
  <2> HIDE DEF t
  <2>4. \A g : Slots(t, g) = Slots(u, g)
    BY <2>3 DEF Slots
  <2>5. \A g \in FileObj : Excess(t, g) = Excess(s, g)
    <3> TAKE g \in FileObj
    <3>1. CASE g = f
      <4> DEFINE n == Cardinality(Slots(s, f))
                 c == o.f_refcount
      <4>1. Excess(t, g) = (c - 1) - (n - 1) /\ Excess(s, g) = c - n
        BY ZenonT(40), <1>3, <1>4, <1>a, <2>2, <2>3, <2>4, <3>1 DEF Excess
      <4>2. n \in Nat /\ c \in Nat
        BY <1>4, <2>2
      <4> HIDE DEF n, c
      <4> QED BY SMTT(30), <4>1, <4>2
    <3>2. CASE g # f
      BY ZenonT(40), <1>0, <1>3, <2>3, <2>4, <3>2 DEF Excess
    <3> QED BY <3>1, <3>2
  <2>6. \A g \in FileObj : Stays(s, t, g)
    BY SMTT(30), <1>1, <1>3, <1>a, <2>2, <2>3 DEF Stays, FileT
  <2>7. DescriptorsCounted(t)
    <3> SUFFICES ASSUME NEW g \in FileObj
                 PROVE  /\ Cardinality(Slots(t, g)) <= t.file[g].f_refcount
                        /\ Slots(t, g) # {} => t.file[g].f_vnode # NULL
      BY Zenon DEF DescriptorsCounted
    <3>1. CASE g = f
      <4>1. /\ t.file[g].f_refcount = o.f_refcount - 1 /\ t.file[g].f_vnode = v
            /\ Slots(t, g) = Slots(u, f) /\ o.f_refcount \in Nat
        BY Zenon, <2>2, <2>3, <2>4, <3>1
      <4>2. v # NULL
        BY Zenon, <1>1
      <4> QED BY SMT, <1>4, <4>1, <4>2
    <3>2. CASE g # f
      BY ZenonT(40), <1>0, <1>3, <2>3, <2>4, <3>2 DEF Good, DescriptorsCounted
    <3> QED BY <3>1, <3>2
  <2>8. VnodesHeld(t)
    <3>1. \A g \in FileObj : t.file[g].f_vnode = s.file[g].f_vnode /\ (t.file[g].f_refcount > 0 <=> s.file[g].f_refcount > 0)
      BY <1>1, <1>3, <1>a, <2>2, <2>3 DEF FileT
    <3>2. \A w : Holders(t, w) = Holders(s, w)
      BY Zenon, <3>1 DEF Holders, Live
    <3> QED BY Zenon, <1>3, <2>3, <3>2 DEF Good, VnodesHeld
  <2>9. \A g \in FileObj : Settled(t.file[g])
    <3>1. Settled(o)
      BY ZenonT(40), <1>1, <1>a DEF Good
    <3>2. Settled(a)
      BY SMT, <1>a, <2>2, <3>1 DEF Settled
    <3> QED BY Zenon, <1>3, <2>3, <3>2 DEF Good
  <2>10. Good(t)
    BY Zenon, <1>3, <2>3, <2>7, <2>8, <2>9 DEF Good
  <2> QED BY Zenon, <1>2, <1>3, <2>3, <2>5, <2>6, <2>10 DEF Same, t, f
<1>7. CASE Sane(o) /\ o.f_refcount = 1
  <2> DEFINE c == [w \in Vnode |-> IF w = v THEN s.vn_refcount[w] - 1 ELSE s.vn_refcount[w]]
             h == [s.file EXCEPT ![f] = FreeFile]
  <2>1. t = [u EXCEPT !.file = h, !.vn_refcount = c]
    BY <1>1, <1>3, <1>7, <1>a DEF fput, With
  <2>2. FreeFile \in FileT /\ FreeFile.f_refcount = 0 /\ FreeFile.f_pos = 0
    BY ZenonT(40), FreeFileType
  <2>3. h \in [FileObj -> FileT] /\ h[f] = FreeFile /\ \A g \in FileObj : g # f => h[g] = s.file[g]
    BY <1>0, <1>1, <2>2 DEF State
  <2>4. /\ Cardinality(Holders(s, v) \ {f}) = Cardinality(Holders(s, v)) - 1
        /\ Cardinality(Holders(s, v)) \in Nat /\ Cardinality(Holders(s, v)) >= 1
        /\ s.vn_refcount[v] = Cardinality(Holders(s, v))
    <3>1. f \in Holders(s, v)
      BY SMTT(30), <1>1, <1>7, <1>a DEF Holders, Live
    <3>2. s.vn_refcount[v] = Cardinality(Holders(s, v))
      BY Zenon, <1>1 DEF Good, VnodesHeld
    <3> QED BY ZenonT(40), <3>1, <3>2, HoldersFinite, OneMore
  <2>5. c \in [Vnode -> Nat] /\ c[v] = s.vn_refcount[v] - 1 /\ \A w \in Vnode : w # v => c[w] = s.vn_refcount[w]
    <3>1. s.vn_refcount \in [Vnode -> Nat] /\ v \in Vnode /\ s.vn_refcount[v] >= 1
      BY <1>0, <1>1, <2>4 DEF State
    <3> QED BY SMT, <3>1
  <2> HIDE DEF h, c
  <2>6. /\ t \in State /\ t.p_files = u.p_files /\ t.mem = s.mem /\ t.file = h /\ t.vn_refcount = c
    BY ZenonT(40), <1>3, <2>1, <2>3, <2>5 DEF State
  <2> HIDE DEF t
  <2>7. \A g : Slots(t, g) = Slots(u, g)
    BY <2>6 DEF Slots
  <2>8. Cardinality(Slots(s, f)) = 1 /\ Cardinality(Slots(t, f)) = 0 /\ Slots(t, f) = {}
    <3>1. Cardinality(Slots(s, f)) = 1 /\ Cardinality(Slots(t, f)) = 0
      BY SMTT(30), <1>4, <1>7, <2>7
    <3>2. Slots(t, f) = {}
      BY SMTT(30), <3>1, SlotsFinite
    <3> QED BY Zenon, <3>1, <3>2
  <2>9. \A g \in FileObj : Excess(t, g) = Excess(s, g)
    <3> TAKE g \in FileObj
    <3>1. CASE g = f
      <4>1. Excess(t, g) = 0 - 0 /\ Excess(s, g) = 1 - 1
        BY Zenon, <1>7, <1>a, <2>2, <2>3, <2>6, <2>8, <3>1 DEF Excess
      <4> QED BY SMT, <4>1
    <3>2. CASE g # f
      BY Zenon, <1>0, <1>3, <2>3, <2>6, <2>7, <3>2 DEF Excess
    <3> QED BY <3>1, <3>2
  <2>10. \A g \in FileObj : Stays(s, t, g)
    <3> TAKE g \in FileObj
    <3>1. CASE g = f
      <4>1. t.file[g].f_refcount = 0
        BY Zenon, <2>2, <2>3, <2>6, <3>1
      <4>2. ~(t.file[g].f_refcount > 0)
        BY SMT, <4>1
      <4> QED BY Zenon, <4>2 DEF Stays
    <3>2. CASE g # f
      BY Zenon, <2>3, <2>6, <3>2 DEF Stays
    <3> QED BY Zenon, <3>1, <3>2
  <2>11. DescriptorsCounted(t)
    <3> SUFFICES ASSUME NEW g \in FileObj
                 PROVE  /\ Cardinality(Slots(t, g)) <= t.file[g].f_refcount
                        /\ Slots(t, g) # {} => t.file[g].f_vnode # NULL
      BY Zenon DEF DescriptorsCounted
    <3>1. CASE g = f
      BY SMTT(30), <2>2, <2>3, <2>6, <2>8, <3>1
    <3>2. CASE g # f
      BY ZenonT(40), <1>0, <1>3, <2>3, <2>6, <2>7, <3>2 DEF Good, DescriptorsCounted
    <3> QED BY <3>1, <3>2
  <2>12. VnodesHeld(t)
    <3> SUFFICES ASSUME NEW w \in Vnode PROVE t.vn_refcount[w] = Cardinality(Holders(t, w))
      BY DEF VnodesHeld
    <3>1. \A g : g \in Holders(t, w) <=> g \in Holders(s, w) \ {f}
      BY <2>2, <2>3, <2>6 DEF Holders, Live
    <3>2. Holders(t, w) = Holders(s, w) \ {f}
      BY Zenon, <3>1
    <3>3. CASE w = v
      BY Zenon, <2>4, <2>5, <2>6, <3>2, <3>3
    <3>4. CASE w # v
      <4>1. f \notin Holders(s, w)
        BY <1>a, <3>4 DEF Holders
      <4>2. Holders(t, w) = Holders(s, w)
        BY Zenon, <3>2, <4>1
      <4> QED BY Zenon, <2>5, <2>6, <3>4, <4>2 DEF Good, VnodesHeld
    <3> QED BY <3>3, <3>4
  <2>13. \A g \in FileObj : Settled(t.file[g])
    <3>1. Settled(FreeFile)
      BY SMTT(30), <2>2 DEF Settled
    <3> QED BY ZenonT(40), <2>3, <2>6, <3>1 DEF Good
  <2>14. Good(t)
    BY Zenon, <2>6, <2>11, <2>12, <2>13 DEF Good
  <2> QED BY Zenon, <1>2, <1>3, <2>6, <2>9, <2>10, <2>14 DEF Same, t, f
<1>8. o.f_refcount > 1 \/ o.f_refcount = 1
  BY <1>1 DEF FileT
<1> QED BY Zenon, <1>5, <1>6, <1>7, <1>8

(* do_close, of any number.                                                 *)
LEMMA CloseFine ==
    ASSUME Facts, NEW s, Good(s), NEW fd
    PROVE  Fine(s, do_close(s, fd), fd)
<1> DEFINE r == do_close(s, fd)
<1>1. CASE ~ValidFd(s, fd)
  <2>1. r = FdError(s, fd)
    BY SMTT(30), <1>1 DEF do_close, Checked
  <2> HIDE DEF r
  <2>2. Answers(s, r, fd)
    BY Zenon, <1>1, <2>1, BadFd DEF Answers
  <2> QED BY <2>2, AnswersFine DEF r
<1>2. CASE ValidFd(s, fd)
  <2>1. \/ Stopped(r.s) /\ r.s.mem = s.mem
        \/ Good(r.s) /\ Same(s, r.s)
    BY Zenon, <1>2, CloseSame
  <2> HIDE DEF r
  <2>2. Stopped(r.s) /\ r.s.mem = s.mem => Fine(s, r, fd)
    BY Zenon DEF Fine, WritesKeepTo
  <2>3. Good(r.s) /\ Same(s, r.s) => Fine(s, r, fd)
    BY SameFine
  <2> QED BY Zenon, <2>1, <2>2, <2>3 DEF r
<1> QED BY <1>1, <1>2

=============================================================================
