--------------------------- MODULE Files_proofs ---------------------------
(* Proofs about module Files: for every size of the descriptor table and    *)
(* every set of objects and vnodes, the counts of references are right, a   *)
(* call that succeeds leaks none, and a call touches what its descriptor    *)
(* stands for and no more.                                                  *)
EXTENDS FilesParts_proofs

-----------------------------------------------------------------------------
(* A reference that has no descriptor yet gets one.                         *)
LEMMA GiveSlot ==
    ASSUME Facts, NEW s, Good(s), NEW f \in FileObj, s.file[f].f_vnode # NULL,
           NEW fd \in Slot, s.p_files[fd] = NULL,
           Cardinality(Slots(s, f)) + 1 <= s.file[f].f_refcount
    PROVE  LET t == SetFd(s, fd, f) IN
           /\ Good(t) /\ t.file = s.file /\ t.mem = s.mem
           /\ Excess(t, f) = Excess(s, f) - 1
           /\ \A g \in FileObj : g # f => Excess(t, g) = Excess(s, g)
<1> DEFINE t == SetFd(s, fd, f)
<1>0. s \in State /\ NULL \notin FileObj /\ f \in FileObj \cup {NULL}
  BY FilesConstants DEF Good
<1>1. /\ t \in State /\ t.file = s.file /\ t.vn_refcount = s.vn_refcount /\ t.mem = s.mem
  BY <1>0, SlotSet
<1>2. \A g : g # f /\ g # NULL => Slots(t, g) = Slots(s, g)
  BY <1>0, SlotSet
<1>3. Slots(t, f) = Slots(s, f) \cup {fd}
  BY <1>0, SlotSet
<1> HIDE DEF t
<1>4. Cardinality(Slots(t, f)) = Cardinality(Slots(s, f)) + 1
  <2>1. fd \notin Slots(s, f)
    BY <1>0 DEF Slots
  <2> QED BY <1>3, <2>1, SlotsFinite, OneMore
<1>5. Excess(t, f) = Excess(s, f) - 1
  <2>1. s.file[f].f_refcount \in Nat /\ Cardinality(Slots(s, f)) \in Nat
    BY <1>0, SlotsFinite DEF State, FileT
  <2> QED BY <1>1, <1>4, <2>1 DEF Excess
<1>6. \A g \in FileObj : g # f => Excess(t, g) = Excess(s, g)
  BY <1>0, <1>1, <1>2 DEF Excess
<1>7. DescriptorsCounted(t)
  <2> SUFFICES ASSUME NEW g \in FileObj
               PROVE  /\ Cardinality(Slots(t, g)) <= t.file[g].f_refcount
                      /\ Slots(t, g) # {} => t.file[g].f_vnode # NULL
    BY DEF DescriptorsCounted
  <2>1. CASE g = f
    BY <1>1, <1>4, <2>1
  <2>2. CASE g # f
    BY <1>0, <1>1, <1>2, <2>2 DEF Good, DescriptorsCounted
  <2> QED BY <2>1, <2>2
<1>8. VnodesHeld(t)
  <2>1. \A w : Holders(t, w) = Holders(s, w)
    BY <1>1 DEF Holders, Live
  <2> QED BY <1>1, <2>1 DEF Good, VnodesHeld
<1>9. Good(t)
  BY <1>1, <1>7, <1>8 DEF Good
<1> QED BY <1>1, <1>5, <1>6, <1>9 DEF t

(* do_dup and do_dup2 into an empty slot: a reference, and its descriptor.  *)
LEMMA DupSame ==
    ASSUME Facts, NEW s, Good(s), NEW f \in FileObj, s.file[f].f_vnode # NULL, s.file[f].f_refcount > 0,
           NEW fd \in Slot, s.p_files[fd] = NULL
    PROVE  LET t == SetFd(Leak(s, f), fd, f) IN Good(t) /\ Same(s, t)
<1> DEFINE u == Leak(s, f)
           t == SetFd(u, fd, f)
           n == s.file[f].f_refcount
           c == Cardinality(Slots(s, f))
<1>0. s \in State /\ s.file[f] \in FileT /\ n \in Nat /\ c \in Nat /\ c <= n
  BY SlotsFinite DEF Good, State, FileT, DescriptorsCounted
<1>1. /\ Good(u) /\ u.p_files = s.p_files /\ u.mem = s.mem
      /\ \A g \in FileObj : u.file[g].f_pos = s.file[g].f_pos
  BY LeakGood
<1>2. \A g : Slots(u, g) = Slots(s, g)
  BY LeakGood
<1>3. /\ u.file[f].f_refcount = n + 1 /\ u.file[f].f_vnode = s.file[f].f_vnode
      /\ \A g \in FileObj : g # f => u.file[g] = s.file[g]
  <2> DEFINE o == Obj(s.file[f], n + 1, s.file[f].f_pos)
  <2>1. o \in FileT /\ o.f_refcount = n + 1 /\ o.f_vnode = s.file[f].f_vnode
    <3>1. n + 1 \in Nat /\ s.file[f].f_pos \in Int
      BY <1>0 DEF FileT
    <3> DEFINE a == s.file[f]
               m == n + 1
    <3>2. a \in FileT /\ m \in Nat
      BY <1>0, <3>1
    <3> HIDE DEF a, m
    <3>3. /\ Obj(a, m, a.f_pos) \in FileT /\ Obj(a, m, a.f_pos).f_refcount = m
          /\ Obj(a, m, a.f_pos).f_vnode = a.f_vnode
      BY Zenon, <3>2 DEF Obj, FileT
    <3> QED BY <3>3 DEF a, m
  <2>2. u = SetFile(s, f, o)
    BY DEF Leak
  <2> HIDE DEF o
  <2> QED BY <1>0, <2>1, <2>2, EditedFields
<1> HIDE DEF u
<1>4. Cardinality(Slots(u, f)) + 1 <= u.file[f].f_refcount
  BY <1>0, <1>2, <1>3
<1>5. /\ Good(t) /\ t.file = u.file /\ t.mem = u.mem
      /\ Excess(t, f) = Excess(u, f) - 1
      /\ \A g \in FileObj : g # f => Excess(t, g) = Excess(u, g)
  BY Zenon, <1>1, <1>3, <1>4, GiveSlot
<1> HIDE DEF t
<1>6. Excess(u, f) = (n + 1) - c /\ Excess(s, f) = n - c
  <2>1. Cardinality(Slots(u, f)) = c
    BY <1>2
  <2>2. Excess(u, f) = u.file[f].f_refcount - Cardinality(Slots(u, f))
    BY DEF Excess
  <2>3. Excess(s, f) = n - c
    BY DEF Excess
  <2>4. u.file[f].f_refcount = n + 1
    BY <1>3
  <2> QED BY <2>1, <2>2, <2>3, <2>4, Zenon
<1>7. \A g \in FileObj : Excess(t, g) = Excess(s, g)
  <2> TAKE g \in FileObj
  <2>1. CASE g = f
    <3> HIDE DEF n, c
    <3> QED BY <1>0, <1>5, <1>6, <2>1
  <2>2. CASE g # f
    BY <1>2, <1>3, <1>5, <2>2 DEF Excess
  <2> QED BY <2>1, <2>2
<1>8. \A g \in FileObj : Stays(s, t, g)
  BY <1>1, <1>3, <1>5 DEF Stays
<1> QED BY <1>1, <1>5, <1>7, <1>8 DEF Same, t, u

(* get_empty_fd finds an empty slot where there is one.                     *)
LEMMA EmptyFd ==
    ASSUME Facts, NEW s, ~Full(s)
    PROVE  get_empty_fd(s) \in Slot /\ s.p_files[get_empty_fd(s)] = NULL
<1>1. EmptyFds(s) \in SUBSET Nat /\ EmptyFds(s) # {}
  BY FilesConstants DEF EmptyFds, Full
<1>2. \E m \in EmptyFds(s) : \A n \in EmptyFds(s) : m <= n
  BY <1>1, Least
<1>3. get_empty_fd(s) \in EmptyFds(s)
  BY <1>2, Zenon DEF get_empty_fd
<1> QED BY <1>3 DEF EmptyFds, Slot

(* What a kernel in order is not: stopped.                                  *)
LEMMA GoodRuns ==
    ASSUME NEW s, Good(s)
    PROVE  s \in State /\ ~Stopped(s)
BY DEF Good, State, Stopped

(* do_dup.                                                                  *)
LEMMA DupFine ==
    ASSUME Facts, NEW s, Good(s), NEW fd
    PROVE  Fine(s, do_dup(s, fd), fd)
<1> DEFINE f == s.p_files[fd]
<1> SUFFICES ASSUME NEW r, r = do_dup(s, fd) PROVE Fine(s, r, fd)
  OBVIOUS
<1>1. CASE ~ValidFd(s, fd)
  <2>1. r = FdError(s, fd)
    BY <1>1 DEF do_dup, Checked
  <2>2. Answers(s, r, fd)
    BY <1>1, <2>1, BadFd DEF Answers
  <2> QED BY <2>2, AnswersFine
<1>2. CASE ValidFd(s, fd)
  <2>1. f \in FileObj /\ s.file[f].f_vnode # NULL /\ s.file[f].f_refcount > 0
    <3>1. f \in FileObj /\ s.file[f] \in FileT /\ s.file[f].f_refcount >= 1 /\ s.file[f].f_vnode # NULL
      BY <1>2, Named
    <3> QED BY <3>1 DEF FileT
  <2> DEFINE t == fref(s, f)
  <2>2. r = IF Stopped(t) THEN Ret(t, "none", 0)
            ELSE IF Full(t) THEN Ret(t, "EMFILE", 0)
            ELSE Ret(SetFd(t, get_empty_fd(t), f), "ok", get_empty_fd(t))
    BY <1>2 DEF do_dup, Checked, With
  <2> HIDE DEF f
  <2>3. CASE ~Sane(s.file[f])
    <3>1. Stopped(t) /\ t.mem = s.mem
      BY <2>1, <2>3, FrefStops
    <3>2. r.s = t
      BY <2>2, <3>1, Fields
    <3> QED BY <3>1, <3>2 DEF Fine, WritesKeepTo
  <2>4. CASE Sane(s.file[f])
    <3>1. t = Leak(s, f)
      BY <2>1, <2>4, Fref
    <3>2. Good(t) /\ t.p_files = s.p_files /\ ~Stopped(t)
      BY <2>1, <3>1, LeakGood, GoodRuns
    <3> HIDE DEF t
    <3>3. CASE Full(t)
      <4>1. r.s = t /\ r.err = "EMFILE"
        BY <2>2, <3>2, <3>3, Fields
      <4>2. Answers(s, r, fd)
        BY <1>2, <3>1, <4>1 DEF Answers, f
      <4> QED BY <4>2, AnswersFine
    <3>4. CASE ~Full(t)
      <4> DEFINE e == get_empty_fd(t)
      <4>1. e \in Slot /\ s.p_files[e] = NULL
        BY <3>2, <3>4, EmptyFd
      <4>2. r.s = SetFd(t, e, f)
        BY <2>2, <3>2, <3>4, Fields
      <4> HIDE DEF e
      <4>3. Good(r.s) /\ Same(s, r.s)
        BY <2>1, <3>1, <4>1, <4>2, DupSame
      <4> QED BY <4>3, SameFine
    <3> QED BY <3>3, <3>4
  <2> QED BY Zenon, <2>3, <2>4
<1> QED BY <1>1, <1>2

(* The reference that do_dup2 counts after it has set the slot.             *)
LEMMA SetThenRef ==
    ASSUME NEW s, Good(s), NEW f \in FileObj, s.file[f].f_vnode # NULL, NEW fd \in Slot
    PROVE  LET t == fref(SetFd(s, fd, f), f) IN
           /\ Sane(s.file[f]) => t = SetFd(Leak(s, f), fd, f)
           /\ ~Sane(s.file[f]) => Stopped(t) /\ t.mem = s.mem
<1> DEFINE u == SetFd(s, fd, f)
<1>0. s \in State /\ f \in FileObj \cup {NULL}
  BY DEF Good
<1>1. u \in State /\ u.file = s.file /\ u.mem = s.mem
  BY <1>0, SlotSet
<1>2. Sane(s.file[f]) => fref(u, f) = SetFd(Leak(s, f), fd, f)
  <2>1. Sane(s.file[f]) => fref(u, f) = [u EXCEPT !.file[f].f_refcount = @ + 1]
    BY <1>1 DEF fref
  <2>2. [u EXCEPT !.file[f].f_refcount = @ + 1]
          = SetFd([s EXCEPT !.file[f].f_refcount = @ + 1], fd, f)
    BY Zenon, <1>0 DEF SetFd, State
  <2>3. Sane(s.file[f]) => Leak(s, f) = [s EXCEPT !.file[f].f_refcount = @ + 1]
    <3>1. Sane(s.file[f]) => fref(s, f) = [s EXCEPT !.file[f].f_refcount = @ + 1]
      BY DEF fref
    <3> QED BY <3>1, Fref
  <2> QED BY <2>1, <2>2, <2>3
<1>3. ~Sane(s.file[f]) => Stopped(fref(u, f)) /\ fref(u, f).mem = s.mem
  <2>1. ~Sane(s.file[f]) => fref(u, f) = Stop(u, "fref")
    BY <1>1 DEF fref
  <2> QED BY <1>1, <2>1, Stops
<1> QED BY <1>2, <1>3

(* What do_dup2 may do: like Fine, with one leak where the numbers agree.   *)
Copies(s, r, from, fd) ==
    /\ WritesKeepTo(s, r.s, fd)
    /\ \/ Stopped(r.s)
       \/ /\ Good(r.s) /\ Private(s, r.s)
          /\ r.err = "ok" => LeaksAs(s, r.s, from, fd)

(* Any other call may do less.                                              *)
LEMMA FineCopies ==
    ASSUME NEW s, NEW r, NEW from, NEW fd, Fine(s, r, fd), from # fd \/ r.err # "ok"
    PROVE  Copies(s, r, from, fd)
BY Zenon DEF Fine, Copies, LeaksAs

(* do_dup2 of a descriptor onto itself: the object is counted once more.    *)
LEMMA SelfDupCopies ==
    ASSUME Facts, NEW s, Good(s), NEW fd, s.p_files[fd] \in FileObj,
           s.file[s.p_files[fd]].f_refcount > 0, NEW r, r.s = Leak(s, s.p_files[fd])
    PROVE  Copies(s, r, fd, fd)
<1> SUFFICES ASSUME NEW f \in FileObj, f = s.p_files[fd] PROVE Copies(s, r, fd, fd)
  OBVIOUS
<1> DEFINE t == Leak(s, f)
           n == s.file[f].f_refcount
           a == s.file[f]
           o == Obj(a, n + 1, a.f_pos)
<1>0. s \in State /\ a \in FileT /\ n \in Nat /\ n + 1 \in Nat /\ a.f_pos \in Int
  BY DEF Good, State, FileT
<1>1. /\ Good(t) /\ t.p_files = s.p_files /\ t.mem = s.mem
      /\ \A g \in FileObj : t.file[g].f_pos = s.file[g].f_pos
      /\ \A g : Slots(t, g) = Slots(s, g)
  BY LeakGood
<1>2. t.file[f] = o /\ \A g \in FileObj : g # f => t.file[g] = s.file[g]
  <2>1. o \in FileT
    <3> HIDE DEF a, n
    <3> QED BY Zenon, <1>0 DEF Obj, FileT
  <2>2. t = SetFile(s, f, o)
    BY DEF Leak
  <2> HIDE DEF o, t
  <2> QED BY <1>0, <2>1, <2>2, EditedFields
<1>3. o.f_refcount = n + 1
  <2> HIDE DEF a, n
  <2> QED BY <1>0 DEF Obj, FileT
<1> HIDE DEF t, o
<1>4. OneLeaked(s, t, fd)
  <2> SUFFICES ASSUME NEW g \in FileObj
               PROVE  Excess(t, g) = Excess(s, g) + (IF g = f THEN 1 ELSE 0)
    BY DEF OneLeaked
  <2>0. Cardinality(Slots(s, g)) \in Int /\ s.file[g].f_refcount \in Int
    <3>1. Cardinality(Slots(s, g)) \in Int
      BY SlotsFinite
    <3> QED BY <1>0, <3>1 DEF State, FileT
  <2>1. CASE g = f
    BY <1>1, <1>2, <1>3, <2>0, <2>1 DEF Excess
  <2>2. CASE g # f
    BY <1>1, <1>2, <2>0, <2>2 DEF Excess
  <2> QED BY <2>1, <2>2
<1>5. Moved(s, t) = {} /\ WritesKeepTo(s, t, fd)
  BY <1>1 DEF Moved, Live, WritesKeepTo
<1>6. r.s = t
  BY DEF t
<1> QED BY Zenon, <1>1, <1>4, <1>5, <1>6 DEF Copies, Private, LeaksAs

(* The descriptor that do_dup2 sets, once the slot is free.                 *)
LEMMA Dup2Set ==
    ASSUME Facts, NEW s, Good(s), NEW t, Good(t), Same(s, t), NEW f \in FileObj, NEW ofd \in Slot,
           t.p_files[ofd] = f, NEW nfd \in Slot, t.p_files[nfd] = NULL,
           NEW r, r.s = fref(SetFd(t, nfd, f), f)
    PROVE  Fine(s, r, nfd)
<1>0. ValidFd(t, ofd)
  BY FilesConstants DEF ValidFd, Slot
<1>1. t.file[f].f_vnode # NULL /\ t.file[f].f_refcount > 0
  <2>1. t.file[f] \in FileT /\ t.file[f].f_refcount >= 1 /\ t.file[f].f_vnode # NULL
    BY <1>0, Named
  <2> QED BY <2>1 DEF FileT
<1>2. CASE Sane(t.file[f])
  <2>1. r.s = SetFd(Leak(t, f), nfd, f)
    BY <1>1, <1>2, SetThenRef
  <2>2. Good(r.s) /\ Same(t, r.s)
    BY <1>1, <2>1, DupSame
  <2> QED BY Zenon, <2>2, SameTwice, SameFine
<1>3. CASE ~Sane(t.file[f])
  <2>1. Stopped(r.s) /\ r.s.mem = t.mem
    BY <1>1, <1>3, SetThenRef
  <2> QED BY <2>1 DEF Fine, WritesKeepTo, Same
<1> QED BY <1>2, <1>3

(* do_dup2: a descriptor onto itself, into an empty slot, or into one that  *)
(* do_close empties first.                                                  *)
LEMMA Dup2Copies ==
    ASSUME Facts, NEW s, Good(s), NEW ofd \in Int, NEW nfd \in Int
    PROVE  Copies(s, do_dup2(s, ofd, nfd), ofd, nfd)
<1> DEFINE f == s.p_files[ofd]
<1> SUFFICES ASSUME NEW r, r = do_dup2(s, ofd, nfd) PROVE Copies(s, r, ofd, nfd)
  OBVIOUS
<1>0. s \in State /\ ~Stopped(s) /\ NFILES \in Nat
  BY GoodRuns, FilesConstants
<1>1. CASE r.s = s /\ r.err # "ok"
  <2>1. Answers(s, r, nfd)
    BY <1>1 DEF Answers
  <2> QED BY <1>1, <2>1, AnswersFine, FineCopies
<1>2. CASE Stopped(r.s) /\ r.s.mem = s.mem
  BY <1>2 DEF Copies, WritesKeepTo
<1>3. CASE nfd < 0 \/ nfd > NFILES \/ (ofd \in DOMAIN s.p_files /\ s.p_files[ofd] = NULL)
  <2>1. r.s = s /\ r.err # "ok"
    BY <1>3, Fields DEF do_dup2
  <2> QED BY <1>1, <2>1
<1>4. ASSUME ~ (nfd < 0 \/ nfd > NFILES \/ (ofd \in DOMAIN s.p_files /\ s.p_files[ofd] = NULL))
      PROVE  Copies(s, r, ofd, nfd)
  <2>1. CASE ~ValidFd(s, ofd)
    <3>1. r = FdError(s, ofd)
      BY <1>4, <2>1 DEF do_dup2, Checked
    <3>2. (Stopped(r.s) /\ r.s.mem = s.mem) \/ (r.s = s /\ r.err # "ok")
      BY <2>1, <3>1, BadFd
    <3> QED BY <1>1, <1>2, <3>2
  <2>2. CASE ValidFd(s, ofd) /\ nfd = NFILES
    <3>1. r = Halted(s, "p_files[NFILES]")
      BY <1>4, <2>2 DEF do_dup2, Checked
    <3>2. Stopped(r.s) /\ r.s.mem = s.mem
      BY <1>0, <3>1, Stops
    <3> QED BY <1>2, <3>2
  <2>3. CASE ValidFd(s, ofd) /\ nfd # NFILES
    <3> DEFINE t == IF s.p_files[nfd] # NULL /\ nfd # ofd THEN do_close(s, nfd).s ELSE s
    <3>1. nfd \in Slot /\ ofd \in Slot
      BY <1>0, <1>4, <2>3 DEF Slot, ValidFd
    <3>2. f \in FileObj /\ f # NULL /\ s.file[f].f_refcount > 0 /\ s.file[f].f_vnode # NULL
      <4>1. f \in FileObj /\ s.file[f] \in FileT /\ s.file[f].f_refcount >= 1 /\ s.file[f].f_vnode # NULL
        BY Zenon, <2>3, Named
      <4> QED BY <2>3, <4>1 DEF FileT, ValidFd
    <3>3. r = IF Stopped(t) THEN Ret(t, "none", 0) ELSE Ret(fref(SetFd(t, nfd, f), f), "ok", nfd)
      BY <1>4, <2>3 DEF do_dup2, Checked, With
    <3>4. CASE nfd = ofd
      <4>1. t = s
        BY <3>4
      <4>2. r.s = fref(SetFd(s, nfd, f), f)
        BY <1>0, <3>3, <4>1, Fields
      <4>3. CASE ~Sane(s.file[f])
        <5>1. Stopped(r.s) /\ r.s.mem = s.mem
          <6> HIDE DEF f
          <6> QED BY <3>1, <3>2, <4>2, <4>3, SetThenRef
        <5> QED BY <1>2, <5>1
      <4>4. CASE Sane(s.file[f])
        <5>1. r.s = SetFd(Leak(s, f), nfd, f)
          <6> HIDE DEF f
          <6> QED BY ZenonT(40), <3>1, <3>2, <4>2, <4>4, SetThenRef
        <5>2. Leak(s, f) \in State /\ Leak(s, f).p_files = s.p_files
          <6> HIDE DEF f
          <6> QED BY <3>2, LeakGood, GoodRuns
        <5>3. SetFd(Leak(s, f), nfd, f) = Leak(s, f)
          <6> DEFINE u == Leak(s, f)
          <6>1. u.p_files[nfd] = f /\ u \in State
            BY <3>4, <5>2
          <6> HIDE DEF u, f
          <6> QED BY <3>1, <6>1 DEF SetFd, State, u
        <5>4. f = s.p_files[nfd] /\ r.s = Leak(s, f)
          BY Zenon, <3>4, <5>1, <5>3
        <5> HIDE DEF f
        <5> QED BY Zenon, <3>2, <3>4, <5>4, SelfDupCopies
      <4> QED BY <4>3, <4>4
    <3>5. CASE nfd # ofd /\ s.p_files[nfd] = NULL
      <4>1. t = s
        BY Zenon, <3>5
      <4>2. r.s = fref(SetFd(s, nfd, f), f)
        BY <1>0, <3>3, <4>1, Fields
      <4>3. Same(s, s) /\ s.p_files[ofd] = f
        BY DEF Same, Stays
      <4> HIDE DEF f
      <4>4. Fine(s, r, nfd)
        BY <3>1, <3>2, <3>5, <4>2, <4>3, Dup2Set
      <4> QED BY Zenon, <3>5, <4>4, FineCopies
    <3>6. CASE nfd # ofd /\ s.p_files[nfd] # NULL
      <4>1. ValidFd(s, nfd) /\ t = do_close(s, nfd).s
        BY Zenon, <3>1, <3>6 DEF ValidFd, Slot
      <4>2. \/ Stopped(t) /\ t.mem = s.mem
            \/ /\ Good(t) /\ Same(s, t) /\ t.p_files[nfd] = NULL
               /\ \A e \in Slot : e # nfd => t.p_files[e] = s.p_files[e]
        BY <4>1, CloseSame
      <4> HIDE DEF t
      <4>3. CASE Stopped(t) /\ t.mem = s.mem
        <5>1. r.s = t
          BY <3>3, <4>3, Fields
        <5> QED BY <1>2, <4>3, <5>1
      <4>4. CASE /\ Good(t) /\ Same(s, t) /\ t.p_files[nfd] = NULL
                 /\ \A e \in Slot : e # nfd => t.p_files[e] = s.p_files[e]
        <5>1. r.s = fref(SetFd(t, nfd, f), f)
          BY <3>3, <4>4, GoodRuns, Fields
        <5>2. t.p_files[ofd] = f
          BY <3>1, <3>6, <4>4
        <5> HIDE DEF f
        <5>3. Fine(s, r, nfd)
          BY ZenonT(40), <3>1, <3>2, <4>4, <5>1, <5>2, Dup2Set
        <5> QED BY Zenon, <3>6, <5>3, FineCopies
      <4> QED BY <4>2, <4>3, <4>4
    <3> QED BY <3>4, <3>5, <3>6
  <2> QED BY <2>1, <2>2, <2>3
<1> QED BY <1>3, <1>4

-----------------------------------------------------------------------------
(* The object that do_open makes, and the kernel with it.                   *)
NewFile(v, m) == [f_refcount |-> 1, f_pos |-> 0, f_mode |-> m, f_vnode |-> v]

Made(s, t, f, v, m) ==
    /\ t \in State /\ t.p_files = s.p_files /\ t.mem = s.mem
    /\ t.file[f] = NewFile(v, m)
    /\ \A g \in FileObj : g # f => t.file[g] = s.file[g]
    /\ \A w \in Vnode : t.vn_refcount[w] = IF w = v THEN s.vn_refcount[w] + 1 ELSE s.vn_refcount[w]

(* A new object has no descriptor and holds its vnode; it may be left so.   *)
MadeFine(s, t, f) ==
    /\ Good(t) /\ Moved(s, t) = {} /\ t.mem = s.mem
    /\ Excess(s, f) = 0 /\ Excess(t, f) = 1 /\ Cardinality(Slots(t, f)) = 0
    /\ \A g \in FileObj : g # f => Excess(t, g) = Excess(s, g)

(* Such an object does no harm.                                             *)
LEMMA MadeGood ==
    ASSUME Facts, NEW s, Good(s), NEW f \in FileObj, s.file[f].f_refcount = 0,
           NEW v \in Vnode \cup {NULL}, NEW m, NEW t, Made(s, t, f, v, m)
    PROVE  MadeFine(s, t, f)
<1>0. s \in State
  BY DEF Good
<1>1. /\ t \in State /\ t.p_files = s.p_files /\ t.mem = s.mem
      /\ t.file[f].f_refcount = 1 /\ t.file[f].f_vnode = v /\ t.file[f].f_pos = 0
      /\ \A g \in FileObj : g # f => t.file[g] = s.file[g]
      /\ \A w \in Vnode : t.vn_refcount[w] = IF w = v THEN s.vn_refcount[w] + 1 ELSE s.vn_refcount[w]
  BY DEF Made, NewFile
<1>2. \A g : Slots(t, g) = Slots(s, g)
  BY <1>1 DEF Slots
<1>3. Cardinality(Slots(s, f)) = 0 /\ Slots(s, f) = {}
  <2>1. Cardinality(Slots(s, f)) <= 0 /\ Cardinality(Slots(s, f)) \in Nat
    BY SlotsFinite DEF Good, DescriptorsCounted
  <2>2. Slots(s, f) # {} => Cardinality(Slots(s, f)) >= 1
    BY Zenon, SlotsFinite
  <2> QED BY <2>1, <2>2
<1>4. Excess(s, f) = 0 /\ Excess(t, f) = 1 /\ Cardinality(Slots(t, f)) = 0 /\ Slots(t, f) = {}
  <2>1. Slots(t, f) = Slots(s, f)
    BY <1>2
  <2> QED BY <1>1, <1>3, <2>1 DEF Excess
<1>5. \A g \in FileObj : g # f => Excess(t, g) = Excess(s, g)
  BY <1>1, <1>2 DEF Excess
<1>6. Moved(s, t) = {}
  BY <1>1 DEF Moved, Live
<1>7. DescriptorsCounted(t)
  <2> SUFFICES ASSUME NEW g \in FileObj
               PROVE  /\ Cardinality(Slots(t, g)) <= t.file[g].f_refcount
                      /\ Slots(t, g) # {} => t.file[g].f_vnode # NULL
    BY DEF DescriptorsCounted
  <2>1. CASE g = f
    BY SMTT(30), <1>1, <1>4, <2>1
  <2>2. CASE g # f
    BY ZenonT(40), <1>1, <1>2, <2>2 DEF Good, DescriptorsCounted
  <2> QED BY <2>1, <2>2
<1>8. VnodesHeld(t)
  <2> SUFFICES ASSUME NEW w \in Vnode PROVE t.vn_refcount[w] = Cardinality(Holders(t, w))
    BY Zenon DEF VnodesHeld
  <2>0. s.vn_refcount[w] = Cardinality(Holders(s, w)) /\ f \notin Holders(s, w)
    BY DEF Good, VnodesHeld, Holders, Live
  <2>1. CASE w = v
    <3>1. Holders(t, w) = Holders(s, w) \cup {f}
      BY <1>1, <2>1 DEF Holders, Live
    <3>2. Cardinality(Holders(t, w)) = Cardinality(Holders(s, w)) + 1
      BY ZenonT(40), <2>0, <3>1, HoldersFinite, OneMore
    <3> QED BY ZenonT(40), <1>1, <2>0, <2>1, <3>2
  <2>2. CASE w # v
    <3>1. Holders(t, w) = Holders(s, w)
      BY <1>1, <2>0, <2>2 DEF Holders, Live
    <3> QED BY Zenon, <1>1, <2>0, <2>2, <3>1
  <2> QED BY <2>1, <2>2
<1>9. \A g \in FileObj : Settled(t.file[g])
  <2> TAKE g \in FileObj
  <2>1. CASE g = f
    BY <1>1, <2>1 DEF Settled
  <2>2. CASE g # f
    BY Zenon, <1>1, <2>2 DEF Good
  <2> QED BY <2>1, <2>2
<1>10. Good(t)
  BY ZenonT(40), <1>1, <1>7, <1>8, <1>9 DEF Good
<1> QED BY Zenon, <1>1, <1>4, <1>5, <1>6, <1>10 DEF MadeFine

(* The mode do_open sets is one of the type.                                *)
LEMMA ModeType ==
    ASSUME NEW o
    PROVE  FileMode(o) \in SUBSET {"read", "write", "append"}
BY DEF FileMode

(* fget(-1) and fref: an object without a vnode.                            *)
LEMMA Fresh ==
    ASSUME NEW s, Good(s), NEW f \in FileObj, s.file[f].f_refcount = 0
    PROVE  /\ fref(s, f) = SetFile(s, f, NewFile(NULL, {}))
           /\ Made(s, fref(s, f), f, NULL, {})
<1>0. s \in State /\ s.file[f] = FreeFile /\ NULL \notin Vnode
  BY FilesConstants DEF Good, Settled
<1>1. fref(s, f) = [s EXCEPT !.file[f].f_refcount = @ + 1]
  <2>1. Sane(s.file[f]) /\ s.file[f].f_refcount = 0
    BY <1>0 DEF Sane, FreeFile
  <2> QED BY <2>1 DEF fref
<1>2. [s.file[f] EXCEPT !.f_refcount = @ + 1] = NewFile(NULL, {})
  BY <1>0 DEF FreeFile, NewFile
<1>3. fref(s, f) = SetFile(s, f, NewFile(NULL, {}))
  BY <1>1, <1>2 DEF SetFile
<1>4. NewFile(NULL, {}) \in FileT
  BY DEF NewFile, FileT
<1> DEFINE n == NewFile(NULL, {})
<1> HIDE DEF n
<1>5. LET t == SetFile(s, f, n) IN
      /\ t \in State /\ t.p_files = s.p_files /\ t.vn_refcount = s.vn_refcount /\ t.mem = s.mem
      /\ t.file[f] = n /\ \A g \in FileObj : g # f => t.file[g] = s.file[g]
  <2>1. n \in FileT
    BY <1>4 DEF n
  <2> QED BY <1>0, <2>1, EditedFields
<1> QED BY Zenon, <1>0, <1>3, <1>5 DEF Made, n

(* do_open holds the vnode it has found.                                    *)
LEMMA Opens ==
    ASSUME NEW s, Good(s), NEW f \in FileObj, s.file[f].f_refcount = 0,
           NEW v \in Vnode, NEW m \in SUBSET {"read", "write", "append"}
    PROVE  Made(s, [fref(s, f) EXCEPT !.vn_refcount[v] = @ + 1,
                                      !.file[f].f_vnode = v,
                                      !.file[f].f_mode = m], f, v, m)
<1> DEFINE t == fref(s, f)
           u == [t EXCEPT !.vn_refcount[v] = @ + 1, !.file[f].f_vnode = v, !.file[f].f_mode = m]
           c == [t.vn_refcount EXCEPT ![v] = @ + 1]
           h == [t.file EXCEPT ![f] = NewFile(v, m)]
<1>1. /\ t \in State /\ t.p_files = s.p_files /\ t.mem = s.mem
      /\ t.file[f] = NewFile(NULL, {})
      /\ \A g \in FileObj : g # f => t.file[g] = s.file[g]
      /\ \A w \in Vnode : t.vn_refcount[w] = s.vn_refcount[w]
  BY Fresh, FilesConstants DEF Made
<1> HIDE DEF t
<1>2. NewFile(v, m) \in FileT
  BY DEF NewFile, FileT
<1>3. h \in [FileObj -> FileT] /\ h[f] = NewFile(v, m) /\ \A g \in FileObj : g # f => h[g] = s.file[g]
  BY ZenonT(40), <1>1, <1>2 DEF State
<1>4. c \in [Vnode -> Nat] /\ \A w \in Vnode : c[w] = IF w = v THEN s.vn_refcount[w] + 1 ELSE s.vn_refcount[w]
  BY <1>1 DEF State
<1>5. u = [t EXCEPT !.vn_refcount = c, !.file = h]
  <2>1. [[t.file[f] EXCEPT !.f_vnode = v] EXCEPT !.f_mode = m] = NewFile(v, m)
    <3>1. ASSUME NEW x, NEW y, NEW z, NEW w
          PROVE  [[NewFile(w, z) EXCEPT !.f_vnode = x] EXCEPT !.f_mode = y] = NewFile(x, y)
      <4>1. [NewFile(w, z) EXCEPT !.f_vnode = x] = NewFile(x, z)
        BY DEF NewFile
      <4>2. [NewFile(x, z) EXCEPT !.f_mode = y] = NewFile(x, y)
        BY DEF NewFile
      <4> QED BY <4>1, <4>2, Zenon
    <3>2. [[NewFile(NULL, {}) EXCEPT !.f_vnode = v] EXCEPT !.f_mode = m] = NewFile(v, m)
      BY <3>1, Zenon
    <3> QED BY <1>1, <3>2, Zenon
  <2>2. [[t.file EXCEPT ![f].f_vnode = v] EXCEPT ![f].f_mode = m] = h
    <3>1. [[t.file EXCEPT ![f].f_vnode = v] EXCEPT ![f].f_mode = m]
            = [t.file EXCEPT ![f] = [[t.file[f] EXCEPT !.f_vnode = v] EXCEPT !.f_mode = m]]
      BY Zenon, <1>1 DEF State
    <3> QED BY <2>1, <3>1
  <2>3. u = [t EXCEPT !.vn_refcount = c,
                      !.file = [[t.file EXCEPT ![f].f_vnode = v] EXCEPT ![f].f_mode = m]]
    BY ZenonT(40), <1>1 DEF State
  <2> QED BY Zenon, <2>2, <2>3
<1> HIDE DEF u, c, h
<1>6. /\ u \in State /\ u.p_files = s.p_files /\ u.mem = s.mem /\ u.file = h /\ u.vn_refcount = c
  BY Zenon, <1>1, <1>3, <1>4, <1>5 DEF State
<1>7. Made(s, u, f, v, m)
  BY <1>3, <1>4, <1>6 DEF Made
<1> QED BY Zenon, <1>7 DEF u, t

(* do_open.                                                                 *)
LEMMA OpenFine ==
    ASSUME Facts, NEW s, Good(s), NEW o, NEW f \in Unused(s), NEW v \in Vnode \cup {NULL}, NEW fd
    PROVE  Fine(s, do_open(s, o, f, v), fd)
<1> DEFINE m == FileMode(o)
           t == fref(s, f)
           u == [t EXCEPT !.vn_refcount[v] = @ + 1, !.file[f].f_vnode = v, !.file[f].f_mode = m]
<1> SUFFICES ASSUME NEW r, r = do_open(s, o, f, v) PROVE Fine(s, r, fd)
  OBVIOUS
<1>0. f \in FileObj /\ s.file[f].f_refcount = 0 /\ m \in SUBSET {"read", "write", "append"}
  BY ModeType DEF Unused
<1>1. CASE Refused(o)
  <2>1. r.s = s
    BY <1>1, Fields DEF do_open
  <2>2. Answers(s, r, fd)
    BY <2>1 DEF Answers
  <2> QED BY <2>2, AnswersFine
<1>2. ASSUME ~Refused(o) PROVE Fine(s, r, fd)
  <2>1. r = IF v = NULL THEN Ret(t, "ENOENT", 0)
            ELSE IF Kind[v] = "dir" /\ o.acc \in {"wr", "rdwr"} /\ o.opts = {} THEN Ret(t, "EISDIR", 0)
            ELSE IF Full(s) THEN Ret(u, "EMFILE", 0)
            ELSE Ret(SetFd(u, get_empty_fd(s), f), "ok", get_empty_fd(s))
    BY Zenon, <1>2 DEF do_open, With
  <2>2. ASSUME NEW w \in Vnode \cup {NULL}, NEW x, Made(s, r.s, f, w, x), r.err # "ok" PROVE Fine(s, r, fd)
    <3>1. Good(r.s) /\ Moved(s, r.s) = {} /\ r.s.mem = s.mem
      <4>1. MadeFine(s, r.s, f)
        BY Zenon, <1>0, <2>2, MadeGood
      <4> QED BY ZenonT(40), <4>1 DEF MadeFine
    <3> QED BY <2>2, <3>1 DEF Fine, Private, WritesKeepTo
  <2>3. Made(s, t, f, NULL, {})
    BY <1>0, Fresh
  <2>4. v \in Vnode => Made(s, u, f, v, m)
    <3> HIDE DEF m
    <3> QED BY Zenon, <1>0, Opens
  <2> HIDE DEF t, u, m
  <2>5. CASE r.s = t /\ r.err # "ok"
    BY SMTT(30), <2>2, <2>3, <2>5
  <2>6. CASE v \in Vnode /\ r.s = u /\ r.err # "ok"
    BY ZenonT(40), <2>2, <2>4, <2>6
  <2>7. CASE v \in Vnode /\ r.s = SetFd(u, get_empty_fd(s), f) /\ ~Full(s)
    <3> DEFINE e == get_empty_fd(s)
    <3>1. /\ Good(u) /\ Moved(s, u) = {} /\ u.mem = s.mem
          /\ Excess(s, f) = 0 /\ Excess(u, f) = 1 /\ Cardinality(Slots(u, f)) = 0
          /\ \A g \in FileObj : g # f => Excess(u, g) = Excess(s, g)
      <4>1. MadeFine(s, u, f)
        BY ZenonT(40), <1>0, <2>4, <2>7, MadeGood
      <4> QED BY ZenonT(40), <4>1 DEF MadeFine
    <3>2. u.file[f].f_vnode # NULL /\ u.file[f].f_refcount = 1 /\ u.p_files = s.p_files
      BY SMTT(30), <2>4, <2>7, FilesConstants DEF Made, NewFile
    <3>3. e \in Slot /\ u.p_files[e] = NULL /\ r.s = SetFd(u, e, f)
      BY ZenonT(40), <2>7, <3>2, EmptyFd
    <3> HIDE DEF e
    <3>4. Cardinality(Slots(u, f)) + 1 <= u.file[f].f_refcount
      BY SMTT(30), <3>1, <3>2
    <3>5. /\ Good(r.s) /\ r.s.file = u.file /\ r.s.mem = u.mem
          /\ Excess(r.s, f) = Excess(u, f) - 1
          /\ \A g \in FileObj : g # f => Excess(r.s, g) = Excess(u, g)
      BY SMTT(30), <1>0, <3>1, <3>2, <3>3, <3>4, GiveSlot
    <3>6. NoLeak(s, r.s)
      <4>1. Excess(r.s, f) = 0
        BY SMTT(30), <3>1, <3>5
      <4> QED BY <3>1, <3>5, <4>1 DEF NoLeak
    <3>7. Moved(s, r.s) = {}
      BY Zenon, <3>1, <3>5 DEF Moved, Live
    <3> QED BY <3>1, <3>5, <3>6, <3>7 DEF Fine, Private, WritesKeepTo
  <2>8. CASE v = NULL
    BY SMTT(30), <2>1, <2>5, <2>8, Fields
  <2>9. CASE v \in Vnode
    <3>1. v # NULL
      BY <2>9, FilesConstants
    <3>2. CASE Kind[v] = "dir" /\ o.acc \in {"wr", "rdwr"} /\ o.opts = {}
      <4>1. r = Ret(t, "EISDIR", 0)
        BY <2>1, <3>1, <3>2, Zenon
      <4> QED BY <2>5, <4>1, Fields
    <3>3. CASE ~ (Kind[v] = "dir" /\ o.acc \in {"wr", "rdwr"} /\ o.opts = {})
      <4>1. r = IF Full(s) THEN Ret(u, "EMFILE", 0)
                ELSE Ret(SetFd(u, get_empty_fd(s), f), "ok", get_empty_fd(s))
        BY <2>1, <3>1, <3>3, Zenon
      <4>2. CASE Full(s)
        BY SMTT(30), <2>6, <2>9, <4>1, <4>2, Fields
      <4>3. CASE ~Full(s)
        BY <2>7, <2>9, <4>1, <4>3, Fields
      <4> QED BY <4>2, <4>3
    <3> QED BY <3>2, <3>3
  <2> QED BY <2>8, <2>9
<1> QED BY <1>1, <1>2

-----------------------------------------------------------------------------
(* proc_cleanup: the table that records the state after each slot.          *)
Closing(s, N, h) == h = [n \in 0..N |-> IF n = 0 THEN s ELSE CloseOne(h[n - 1], n - 1)]

(* CloseAll is the last entry of such a table.                              *)
LEMMA CloseAllTable ==
    ASSUME NEW s
    PROVE  CloseAll(s) = (CHOOSE h : Closing(s, NFILES, h))[NFILES]
BY Zenon DEF CloseAll, Closing

(* There is one, of every length.                                           *)
LEMMA TableExists ==
    ASSUME Facts, NEW s, NEW N \in Nat
    PROVE  \E h : Closing(s, N, h)
<1> DEFINE S == {n \in Nat : ~ \E h : Closing(s, n, h)}
<1> SUFFICES ASSUME S # {} PROVE FALSE
  BY Zenon
<1>1. PICK m \in S : \A n \in S : m <= n
  <2>1. S \in SUBSET Nat
    BY Zenon
  <2> HIDE DEF S
  <2> QED BY <2>1, Least, Zenon
<1>2. m \in Nat /\ ~ \E h : Closing(s, m, h)
  BY <1>1, Zenon
<1>3. m # 0
  <2> DEFINE h == [n \in 0..0 |-> s]
  <2>1. Closing(s, 0, h)
    BY DEF Closing
  <2> QED BY <1>2, <2>1
<1>4. m - 1 \in Nat /\ m - 1 < m
  BY <1>2, <1>3
<1>5. \E h : Closing(s, m - 1, h)
  <2>1. m - 1 \notin S
    <3>1. ~ (m <= m - 1)
      BY <1>2
    <3> HIDE DEF S
    <3> QED BY <1>1, <3>1, Zenon
  <2> QED BY <1>4, <2>1, Zenon
<1>6. PICK h : Closing(s, m - 1, h)
  BY <1>5, Zenon
<1> DEFINE g == [n \in 0..m |-> IF n = m THEN CloseOne(h[m - 1], m - 1) ELSE h[n]]
<1>7. \A n \in 0..(m - 1) : h[n] = IF n = 0 THEN s ELSE CloseOne(h[n - 1], n - 1)
  BY <1>6 DEF Closing
<1>8. Closing(s, m, g)
  <2>1. \A n \in 0..m : g[n] = IF n = 0 THEN s ELSE CloseOne(g[n - 1], n - 1)
    <3> TAKE n \in 0..m
    <3>0. n \in Nat /\ n <= m
      BY <1>2
    <3>1. CASE n = m
      <4>1. g[m] = CloseOne(h[m - 1], m - 1) /\ g[m - 1] = h[m - 1]
        BY <1>2, <1>4
      <4> QED BY <1>3, <3>1, <4>1
    <3>2. CASE n # m /\ n = 0
      <4>1. g[0] = h[0] /\ h[0] = s
        BY SMTT(30), <1>2, <1>4, <1>7, <3>2
      <4> QED BY <3>2, <4>1
    <3>3. CASE n # m /\ n # 0
      <4>1. n - 1 \in 0..m /\ n - 1 # m /\ n \in 0..(m - 1)
        BY <1>2, <3>0, <3>3
      <4>2. g[n] = h[n] /\ g[n - 1] = h[n - 1]
        BY <3>3, <4>1
      <4>3. h[n] = CloseOne(h[n - 1], n - 1)
        BY <1>7, <3>3, <4>1
      <4> QED BY <3>3, <4>2, <4>3
    <3> QED BY SMTT(30), <3>1, <3>2, <3>3
  <2>2. g = [n \in 0..m |-> g[n]]
    OBVIOUS
  <2> HIDE DEF g
  <2> QED BY ZenonT(40), <2>1, <2>2 DEF Closing
<1> QED BY <1>2, <1>8, Zenon

(* Closing one slot, whatever it holds, after others have been closed.      *)
Closed(s, t) == (Stopped(t) /\ t.mem = s.mem) \/ (Good(t) /\ Same(s, t))

LEMMA CloseOneMore ==
    ASSUME Facts, NEW s, NEW t, Closed(s, t), NEW fd \in Slot
    PROVE  Closed(s, CloseOne(t, fd))
<1>1. CASE Stopped(t) \/ t.p_files[fd] = NULL
  BY <1>1 DEF CloseOne
<1>2. CASE ~ (Stopped(t) \/ t.p_files[fd] = NULL)
  <2> DEFINE u == do_close(t, fd).s
  <2>1. CloseOne(t, fd) = u
    BY <1>2 DEF CloseOne
  <2>2. ValidFd(t, fd) /\ Good(t) /\ Same(s, t)
    BY <1>2 DEF ValidFd, Slot, Closed
  <2>3. (Stopped(u) /\ u.mem = t.mem) \/ (Good(u) /\ Same(t, u))
    BY Zenon, <2>2, CloseSame
  <2> HIDE DEF u
  <2>4. Closed(s, u)
    BY <2>2, <2>3, SameTwice DEF Closed, Same
  <2> QED BY <2>1, <2>4
<1> QED BY <1>1, <1>2

(* Every descriptor that a process leaves open is closed when it exits, and *)
(* that loses, leaks and moves nothing.                                     *)
LEMMA CloseAllClosed ==
    ASSUME Facts, NEW s, Good(s)
    PROVE  Closed(s, CloseAll(s))
<1> DEFINE h == CHOOSE g : Closing(s, NFILES, g)
           S == {n \in Nat : n <= NFILES /\ ~Closed(s, h[n])}
<1>0. NFILES \in Nat
  BY FilesConstants
<1>1. Closing(s, NFILES, h)
  BY <1>0, TableExists, Zenon
<1> HIDE DEF h
<1>2. \A n \in 0..NFILES : h[n] = IF n = 0 THEN s ELSE CloseOne(h[n - 1], n - 1)
  BY Zenon, <1>1 DEF Closing
<1>3. S = {}
  <2> SUFFICES ASSUME S # {} PROVE FALSE
    BY Zenon
  <2>1. PICK m \in S : \A n \in S : m <= n
    <3>1. S \in SUBSET Nat
      BY Zenon
    <3> HIDE DEF S
    <3> QED BY <3>1, Least, Zenon
  <2>2. m \in Nat /\ m <= NFILES /\ ~Closed(s, h[m])
    BY <2>1, Zenon
  <2>3. CASE m = 0
    <3>1. h[m] = s
      BY SMTT(30), <1>0, <1>2, <2>3
    <3>2. Closed(s, s)
      BY DEF Closed, Same, Stays
    <3> QED BY <2>2, <3>1, <3>2
  <2>4. CASE m # 0
    <3>1. m - 1 \in Nat /\ m - 1 <= NFILES /\ m \in 0..NFILES /\ ~ (m <= m - 1) /\ m - 1 \in Slot
      BY <1>0, <2>2, <2>4 DEF Slot
    <3>2. m - 1 \notin S
      <4> HIDE DEF S
      <4> QED BY <2>1, <3>1, Zenon
    <3>3. Closed(s, h[m - 1])
      BY <3>1, <3>2, Zenon
    <3>4. h[m] = CloseOne(h[m - 1], m - 1)
      BY <1>2, <2>4, <3>1
    <3>5. Closed(s, CloseOne(h[m - 1], m - 1))
      BY <3>1, <3>3, CloseOneMore
    <3> QED BY <2>2, <3>4, <3>5
  <2> QED BY <2>3, <2>4
<1>4. Closed(s, h[NFILES])
  <2>1. NFILES <= NFILES
    BY <1>0
  <2> QED BY <1>0, <1>3, <2>1, Zenon
<1> QED BY <1>4, CloseAllTable DEF h

(* The exit of the process.                                                 *)
LEMMA ExitFine ==
    ASSUME Facts, NEW s, Good(s), NEW fd
    PROVE  Fine(s, Ret(CloseAll(s), "ok", 0), fd)
<1> SUFFICES ASSUME NEW r, r = Ret(CloseAll(s), "ok", 0) PROVE Fine(s, r, fd)
  OBVIOUS
<1>1. Closed(s, r.s)
  BY SMTT(30), CloseAllClosed, Fields
<1>2. Stopped(r.s) /\ r.s.mem = s.mem => Fine(s, r, fd)
  BY DEF Fine, WritesKeepTo
<1> QED BY <1>1, <1>2, SameFine DEF Closed

-----------------------------------------------------------------------------
(* The kernel is in order until it stops.                                   *)
IInv == Stopped(k) \/ Good(k)

(* A step is a call that keeps to it.                                       *)
LEMMA StepFine ==
    ASSUME Facts, Good(k), FilesNext
    PROVE  \E r : /\ k' = r.s /\ ret'.err = r.err /\ Copies(k, r, ret'.from, ret'.fd)
<1>0. Fd \subseteq Int
  BY FilesConstants DEF Fd
<1>11. ASSUME NEW from, NEW fd, NEW r, CallFrom(from, fd, r), Copies(k, r, from, fd)
       PROVE  \E q : /\ k' = q.s /\ ret'.err = q.err /\ Copies(k, q, ret'.from, ret'.fd)
  <2>1. k' = r.s /\ ret'.err = r.err /\ ret'.fd = fd /\ ret'.from = from
    BY <1>11 DEF CallFrom
  <2> QED BY <1>11, <2>1, Zenon
<1>1. ASSUME NEW fd \in Fd, NEW r, Call(fd, r), Fine(k, r, fd)
      PROVE  \E q : /\ k' = q.s /\ ret'.err = q.err /\ Copies(k, q, ret'.from, ret'.fd)
  <2>1. NoFd # fd
    BY FilesConstants DEF Fd, NoFd
  <2>2. Copies(k, r, NoFd, fd) /\ CallFrom(NoFd, fd, r)
    BY Zenon, <1>1, <2>1, FineCopies DEF Call
  <2> QED BY <1>11, <2>2, Zenon
<1>12. -1 \in Fd
  BY FilesConstants DEF Fd
<1>2. CASE Open
  <2>1. PICK o \in OFlags, f \in Unused(k), v \in Vnode \cup {NULL} : Call(-1, do_open(k, o, f, v))
    BY <1>2, Zenon DEF Open
  <2>2. Fine(k, do_open(k, o, f, v), -1)
    BY OpenFine
  <2> QED BY <1>1, <1>12, <2>1, <2>2, Zenon
<1>3. CASE Read
  <2>1. PICK fd \in Fd, n \in Counts, a \in Counts : Call(fd, do_read(k, fd, n, a))
    BY <1>3, Zenon DEF Read
  <2>2. Fine(k, do_read(k, fd, n, a), fd)
    <3>1. n \in Nat /\ a \in Nat
      BY FilesConstants
    <3>2. Answers(k, do_read(k, fd, n, a), fd)
      BY <3>1, ReadAnswers
    <3> QED BY Zenon, <3>2, AnswersFine
  <2> QED BY <1>1, <2>1, <2>2, Zenon
<1>4. CASE Write
  <2>1. PICK fd \in Fd, n \in Counts, b \in Bytes : Call(fd, do_write(k, fd, n, b))
    BY <1>4, Zenon DEF Write
  <2>2. Fine(k, do_write(k, fd, n, b), fd)
    <3>1. n \in Nat
      BY FilesConstants
    <3>2. Answers(k, do_write(k, fd, n, b), fd)
      BY <3>1, WriteAnswers
    <3> QED BY <3>2, AnswersFine
  <2> QED BY <1>1, <2>1, <2>2, Zenon
<1>5. CASE Close
  <2>1. PICK fd \in Fd : Call(fd, do_close(k, fd))
    BY <1>5, Zenon DEF Close
  <2>2. Fine(k, do_close(k, fd), fd)
    BY Zenon, CloseFine
  <2> QED BY <1>1, <2>1, <2>2, Zenon
<1>6. CASE Dup
  <2>1. PICK fd \in Fd : Call(fd, do_dup(k, fd))
    BY <1>6, Zenon DEF Dup
  <2>2. Fine(k, do_dup(k, fd), fd)
    BY DupFine
  <2> QED BY <1>1, <2>1, <2>2, Zenon
<1>7. CASE Dup2
  <2>1. PICK ofd \in Fd, nfd \in Fd : CallFrom(ofd, nfd, do_dup2(k, ofd, nfd))
    BY <1>7, Zenon DEF Dup2
  <2>2. Copies(k, do_dup2(k, ofd, nfd), ofd, nfd)
    <3>1. ofd \in Int /\ nfd \in Int
      BY Zenon, <1>0
    <3> QED BY <3>1, Dup2Copies
  <2> QED BY <1>11, <2>1, <2>2, Zenon
<1>8. CASE Getdent
  <2>1. PICK fd \in Fd : Call(fd, do_getdent(k, fd))
    BY <1>8, Zenon DEF Getdent
  <2>2. Fine(k, do_getdent(k, fd), fd)
    <3>1. Answers(k, do_getdent(k, fd), fd)
      BY GetdentAnswers
    <3> QED BY <3>1, AnswersFine
  <2> QED BY <1>1, <2>1, <2>2, Zenon
<1>9. CASE Lseek
  <2>1. PICK fd \in Fd, n \in Offsets, w \in Whence : Call(fd, do_lseek(k, fd, n, w))
    BY <1>9, Zenon DEF Lseek
  <2>2. Fine(k, do_lseek(k, fd, n, w), fd)
    <3>1. n \in Int
      BY FilesConstants
    <3>2. Answers(k, do_lseek(k, fd, n, w), fd)
      BY <3>1, LseekAnswers
    <3> QED BY <3>2, AnswersFine
  <2> QED BY <1>1, <2>1, <2>2, Zenon
<1>10. CASE Exit
  <2>1. Call(-1, Ret(CloseAll(k), "ok", 0))
    BY <1>10, Zenon DEF Exit
  <2>2. Fine(k, Ret(CloseAll(k), "ok", 0), -1)
    BY ExitFine
  <2> QED BY <1>1, <1>12, <2>1, <2>2, Zenon
<1> QED BY ZenonT(40), <1>2, <1>3, <1>4, <1>5, <1>6, <1>7, <1>8, <1>9, <1>10, Zenon DEF FilesNext

(* No call starts once the kernel has stopped.                              *)
LEMMA StoppedStays ==
    ASSUME FilesNext
    PROVE  ~Stopped(k)
BY ZenonT(40) DEF FilesNext, Open, Read, Write, Close, Dup, Dup2, Getdent, Lseek, Exit, Call, CallFrom

(* The kernel starts in order.                                              *)
LEMMA FilesStart ==
    ASSUME Facts, FilesInit
    PROVE  Good(k)
<1>1. /\ k.p_files = [fd \in Slot |-> NULL] /\ k.file = [f \in FileObj |-> FreeFile]
      /\ k.vn_refcount = [v \in Vnode |-> 0] /\ k.mem = [v \in Vnode |-> <<>>]
      /\ k.fault = "none"
  BY DEF FilesInit, Slot
<1>2. k \in State
  <2>1. FreeFile \in FileT /\ <<>> \in Data
    BY DEF FreeFile, FileT, Data
  <2>2. k = [p_files |-> k.p_files, file |-> k.file, vn_refcount |-> k.vn_refcount,
             mem |-> k.mem, fault |-> "none"]
    BY Zenon DEF FilesInit
  <2>3. /\ k.p_files \in [Slot -> FileObj \cup {NULL}] /\ k.file \in [FileObj -> FileT]
        /\ k.vn_refcount \in [Vnode -> Nat] /\ k.mem \in [Vnode -> Data]
    BY <1>1, <2>1
  <2> QED BY SMTT(30), <2>2, <2>3 DEF State
<1>3. DescriptorsCounted(k)
  <2> SUFFICES ASSUME NEW f \in FileObj
               PROVE  /\ Cardinality(Slots(k, f)) <= k.file[f].f_refcount
                      /\ Slots(k, f) # {} => k.file[f].f_vnode # NULL
    BY DEF DescriptorsCounted
  <2>1. Slots(k, f) = {} /\ k.file[f].f_refcount = 0
    BY <1>1, FilesConstants DEF Slots, Slot, FreeFile
  <2> QED BY <2>1 DEF Facts, SizesCounted
<1>4. VnodesHeld(k)
  <2> SUFFICES ASSUME NEW v \in Vnode PROVE k.vn_refcount[v] = Cardinality(Holders(k, v))
    BY DEF VnodesHeld
  <2>1. Holders(k, v) = {} /\ k.vn_refcount[v] = 0
    BY SMTT(30), <1>1 DEF Holders, Live, FreeFile
  <2> QED BY <2>1 DEF Facts, SizesCounted
<1>5. \A f \in FileObj : Settled(k.file[f])
  BY <1>1 DEF Settled, FreeFile
<1>6. \A v \in Vnode : Len(k.mem[v]) <= PageSize
  BY <1>1, FilesConstants
<1> QED BY ZenonT(40), <1>2, <1>3, <1>4, <1>5, <1>6 DEF Good

(* The invariant is inductive.                                              *)
LEMMA FilesInvariant == ASSUME Facts PROVE FilesSpec => []IInv
<1>1. FilesInit => IInv
  BY FilesStart DEF IInv
<1>2. IInv /\ [FilesNext]_files => IInv'
  <2> SUFFICES ASSUME IInv, [FilesNext]_files PROVE IInv'
    OBVIOUS
  <2>1. CASE FilesNext
    <3>1. Good(k)
      BY <2>1, StoppedStays DEF IInv
    <3>2. PICK r : k' = r.s /\ Copies(k, r, ret'.from, ret'.fd)
      BY <2>1, <3>1, StepFine, Zenon
    <3>3. Stopped(r.s) \/ Good(r.s)
      BY <3>2 DEF Copies
    <3>4. Stopped(k') \/ Good(k')
      BY ZenonT(40), <3>2, <3>3, Zenon
    <3> QED BY Zenon, <3>4 DEF IInv, Stopped, Good, State, DescriptorsCounted, VnodesHeld, Slots, Holders, Live
  <2>2. CASE UNCHANGED files
    BY Zenon, <2>2 DEF IInv, files, Stopped, Good, DescriptorsCounted, VnodesHeld, Slots, Holders, Live
  <2> QED BY <2>1, <2>2
<1> QED BY <1>1, <1>2, PTL DEF FilesSpec

(* The positions of a kernel in order.                                      *)
LEMMA PrivatePositions ==
    ASSUME Facts, NEW s, NEW t, Good(t), Private(s, t)
    PROVE  PositionsPrivate(s, t)
<1>1. Cardinality(Moved(s, t)) <= 1
  <2>1. CASE Moved(s, t) = {}
    BY <2>1 DEF Facts, SizesCounted
  <2>2. ASSUME NEW f, Moved(s, t) \subseteq {f} PROVE Cardinality(Moved(s, t)) <= 1
    <3>1. Cardinality({}) = 0 /\ Cardinality({f}) = 1
      BY Zenon DEF Facts, SizesCounted
    <3>2. Moved(s, t) = {} \/ Moved(s, t) = {f}
      BY Zenon, <2>2
    <3> QED BY <3>1, <3>2
  <2> QED BY <2>1, <2>2 DEF Private
<1>2. \A f \in Moved(s, t) : t.file[f].f_pos >= 0 \/ Kind[t.file[f].f_vnode] = "blk"
  BY DEF Moved, Live, Good, Settled
<1>3. \A f \in Moved(s, t) : Slots(s, f) # {}
  BY DEF Private
<1> QED BY Zenon, <1>1, <1>2, <1>3 DEF PositionsPrivate

-----------------------------------------------------------------------------
(* The facts about numbers and finite sets, from the library.               *)
INSTANCE FiniteSetTheorems

(* They hold.                                                               *)
LEMMA FactsHold == Facts
<1>1. LeastNumber
  <2> SUFFICES ASSUME NEW S \in SUBSET Nat, S # {} PROVE \E m \in S : \A n \in S : m <= n
    BY DEF LeastNumber
  <2> DEFINE R == OpToRel(<, Nat)
  <2>1. IsWellFoundedOn(R, Nat)
    BY NatLessThanWellFounded
  <2>2. \A m, n \in Nat : n < m => <<n, m>> \in R
    BY DEF OpToRel
  <2> HIDE DEF R
  <2>3. PICK m \in S : \A n \in S : ~ (<<n, m>> \in R)
    BY ZenonT(40), <2>1, WFMin
  <2>4. \A n \in S : m <= n
    <3> TAKE n \in S
    <3>1. m \in Nat /\ n \in Nat /\ ~ (n < m)
      BY ZenonT(40), <2>2, <2>3
    <3> QED BY <3>1
  <2> QED BY Zenon, <2>3, <2>4
<1>2. FiniteSetsClosed
  <2>1. \A a, b \in Int : IsFiniteSet(a..b)
    BY FS_Interval
  <2>2. \A S, T : IsFiniteSet(S) /\ IsFiniteSet(T) => IsFiniteSet(S \X T)
    BY FS_Product
  <2>3. \A S, T : IsFiniteSet(T) /\ S \subseteq T => IsFiniteSet(S)
    BY FS_Subset
  <2> QED BY ZenonT(40), <2>1, <2>2, <2>3 DEF FiniteSetsClosed
<1>3. SizesCounted
  <2>1. \A S : IsFiniteSet(S) => Cardinality(S) \in Nat
    BY FS_CardinalityType
  <2>2. Cardinality({}) = 0 /\ \A e : Cardinality({e}) = 1
    BY ZenonT(40), FS_EmptySet, FS_Singleton
  <2>3. \A S, e : IsFiniteSet(S) /\ e \notin S => Cardinality(S \cup {e}) = Cardinality(S) + 1
    BY Zenon, FS_AddElement
  <2>4. \A S, e : IsFiniteSet(S) /\ e \in S => Cardinality(S \ {e}) = Cardinality(S) - 1
    BY FS_RemoveElement
  <2> QED BY Zenon, <2>1, <2>2, <2>3, <2>4 DEF SizesCounted
<1> QED BY ZenonT(40), <1>1, <1>2, <1>3 DEF Facts

(* ReferencesCounted, of file.c, open.c and vfs_syscall.c: the count of an  *)
(* object covers the descriptors that name it, and the count of a vnode is  *)
(* that of the objects that hold it, whatever calls of do_open, do_read,    *)
(* do_write, do_lseek, do_getdent, do_dup, do_dup2, do_close and exits came *)
(* before, those that leaked references included.                           *)
THEOREM ReferencesKept == FilesSpec => []ReferencesCounted
<1>1. IInv => ReferencesCounted
  BY DEF IInv, Good, ReferencesCounted
<1> QED BY <1>1, FactsHold, FilesInvariant, PTL

(* LeaksOnlyOnErrors, of the same calls: one that succeeds leaks no         *)
(* reference, but for do_dup2 of a descriptor onto itself, which leaks one. *)
THEOREM LeaksConfined == FilesSpec => LeaksOnlyOnErrors
<1>1. IInv /\ [FilesNext]_files =>
        [ret'.err = "ok" => Stopped(k') \/ LeaksAs(k, k', ret'.from, ret'.fd)]_files
  <2> SUFFICES ASSUME IInv, FilesNext, ret'.err = "ok"
               PROVE  Stopped(k') \/ LeaksAs(k, k', ret'.from, ret'.fd)
    BY DEF files
  <2>1. Good(k)
    BY StoppedStays DEF IInv
  <2>2. PICK r : k' = r.s /\ ret'.err = r.err /\ Copies(k, r, ret'.from, ret'.fd)
    BY ZenonT(40), <2>1, FactsHold, StepFine, Zenon
  <2>3. Stopped(r.s) \/ LeaksAs(k, r.s, ret'.from, ret'.fd)
    BY Zenon, <2>2 DEF Copies
  <2> QED BY ZenonT(40), <2>2, <2>3, Zenon
<1> QED BY <1>1, FactsHold, FilesInvariant, PTL DEF FilesSpec, LeaksOnlyOnErrors

(* AccessConfined, of the same calls: a call moves the position of one      *)
(* object at most, one that a descriptor names, and to no place below zero  *)
(* unless the object is a block device; it changes one file at most, the    *)
(* one its descriptor stands for, as the descriptor's mode allows, and      *)
(* never shrinks it nor takes it past its page.                             *)
THEOREM AccessKept == FilesSpec => AccessConfined
<1>1. IInv /\ [FilesNext]_files => [/\ Stopped(k') \/ PositionsPrivate(k, k')
                                   /\ WritesKeepTo(k, k', ret'.fd)]_files
  <2> SUFFICES ASSUME IInv, FilesNext
               PROVE  (Stopped(k') \/ PositionsPrivate(k, k')) /\ WritesKeepTo(k, k', ret'.fd)
    BY DEF files
  <2>1. Good(k)
    BY StoppedStays DEF IInv
  <2>2. PICK r : k' = r.s /\ Copies(k, r, ret'.from, ret'.fd)
    BY ZenonT(40), <2>1, FactsHold, StepFine, Zenon
  <2>3. WritesKeepTo(k, r.s, ret'.fd) /\ (Stopped(r.s) \/ PositionsPrivate(k, r.s))
    BY ZenonT(40), <2>2, FactsHold, PrivatePositions DEF Copies
  <2> QED BY ZenonT(40), <2>2, <2>3, Zenon
<1> QED BY <1>1, FactsHold, FilesInvariant, PTL DEF FilesSpec, AccessConfined

=============================================================================
