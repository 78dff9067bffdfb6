-------------------------------- MODULE KMem --------------------------------
(* Kernel memory: the buddy allocator of pages (mm/page.c) and the slab     *)
(* allocators and kmalloc on top of it (mm/slab.c), which the page          *)
(* allocator calls back to reclaim empty slabs.  A page is a number from 0, *)
(* an address within a group is one too; the pages from NPages on hold the  *)
(* group's own bit maps.  PAGE_SIZE and the other sizes are in bytes.       *)
EXTENDS Integers, Sequences, FiniteSets, SequencesExt

CONSTANTS
    NPages, PAGE_NSIZES,
    PAGE_SIZE, SlabStruct, Bufctl, SLAB_MAX_ORDER,
    AllocatorSize,      \* sizeof(struct slab_allocator)
    Pointer, Redzones,  \* sizes of a pointer and of the two red zones
    Buckets,            \* object sizes of the kmalloc allocators, ascending
    Requests,           \* sizes given to kmalloc
    MaxCaches,          \* bound on slab_allocator_create
    MaxBlocks, MaxHeld  \* bounds on the blocks and objects out at a time

VARIABLES mem, held, blocks, ret

vars == <<mem, held, blocks, ret>>

NULL == -1
With(x, Rest(_)) == Rest(x)
Orders == 0..(PAGE_NSIZES - 1)
Bit(n, i) == (n \div 2^i) % 2 = 1

-----------------------------------------------------------------------------
(* _pagegroup_create: blocks that do not fill one of the largest order come *)
(* off the end of the range, the rest is cut into the largest order.  The   *)
(* bits of the tail's blocks are not set, although their buddies, beyond    *)
(* the end of the range, are not free.                                      *)
RECURSIVE Tailing(_)
Tailing(o) == IF o = 0 THEN NPages ELSE Tailing(o - 1) - (IF Bit(NPages, o - 1) THEN 2^(o - 1) ELSE 0)

pagegroup_create ==
    [free |-> [o \in Orders |->
                  IF o < PAGE_NSIZES - 1
                  THEN IF Bit(NPages, o) THEN <<Tailing(o + 1)>> ELSE <<>>
                  ELSE Reverse([i \in 1..(NPages \div 2^o) |-> (i - 1) * 2^o])],
     map  |-> [o \in Orders \ {0} |-> [i \in 0..((NPages - 1) \div 2^o) |-> FALSE]],
     count |-> NPages, caches |-> <<>>, wild |-> FALSE, panic |-> FALSE]

(* A bit of the map of order o tells the two blocks of order o - 1 apart:   *)
(* exactly one of them is on the free list.                                 *)
Flip(m, o, addr) ==
    IF o \in DOMAIN m.map THEN [m EXCEPT !.map[o][addr \div 2^o] = ~@] ELSE m

SplitOnce(m, order) ==
    With(Head(m.free[order]), LAMBDA target :
    With(Flip([m EXCEPT !.free[order] = Tail(@)], order + 1, target), LAMBDA n :
         [n EXCEPT !.panic = @ \/ n.map[order][target \div 2^order],
                   !.free[order - 1] = <<target + 2^(order - 1), target>> \o @]))

RECURSIVE SplitDown(_, _, _)
SplitDown(m, norder, order) ==
    IF norder = order THEN m ELSE SplitDown(SplitOnce(m, norder), norder - 1, order)

Larger(m, order) == {o \in Orders : o > order /\ m.free[o] # <<>>}

(* list_remove of a page that is not free, or not of this order, writes     *)
(* through what the page holds or spoils another list: the model ends there *)
(* (wild).                                                                  *)
Unlink(m, order, addr) ==
    IF addr \in ToSet(m.free[order])
    THEN [m EXCEPT !.free[order] = SelectSeq(@, LAMBDA b : b # addr)]
    ELSE [m EXCEPT !.wild = TRUE]

RECURSIVE Join(_, _, _)
Join(m, order, addr) ==
    IF m.wild \/ order = PAGE_NSIZES - 1 \/ m.map[order + 1][addr \div 2^(order + 1)] THEN m
    ELSE With(IF Bit(addr, order) THEN addr - 2^order ELSE addr + 2^order, LAMBDA buddy :
         With(IF addr < buddy THEN addr ELSE buddy, LAMBDA low :
         With(Unlink(Unlink(m, order, addr), order, buddy), LAMBDA n :
              Join(Flip([n EXCEPT !.free[order + 1] = <<low>> \o @], order + 2, low),
                   order + 1, low))))

FreeWithoutJoin(m, addr, order) ==
    Flip([m EXCEPT !.free[order] = <<addr>> \o @, !.count = @ + 2^order], order + 1, addr)

page_free_order(m, addr, order) ==
    With([m EXCEPT !.free[order] = <<addr>> \o @, !.count = @ + 2^order], LAMBDA n :
         IF order < PAGE_NSIZES - 1 THEN Join(Flip(n, order + 1, addr), order, addr) ELSE n)

OrderFor(npages) == CHOOSE o \in Orders : 2^o >= npages /\ (o = 0 \/ 2^(o - 1) < npages)

-----------------------------------------------------------------------------

(* Slab sizes: among the block sizes that hold one object, up to            *)
(* SLAB_MAX_ORDER, the first with the least waste.                          *)
SlabNobjs(size, order) == (PAGE_SIZE * 2^order - SlabStruct) \div (size + Bufctl)
SlabWaste(size, order) ==
    PAGE_SIZE * 2^order - (SlabNobjs(size, order) * (size + Bufctl) + SlabStruct)
MinOrder(size) ==
    CHOOSE o \in Orders : /\ PAGE_SIZE * 2^o >= size + Bufctl + SlabStruct
                          /\ \A p \in 0..(o - 1) : PAGE_SIZE * 2^p < size + Bufctl + SlabStruct
RECURSIVE BestOrder(_, _, _)
BestOrder(size, order, best) ==
    IF order >= SLAB_MAX_ORDER THEN best
    ELSE BestOrder(size, order + 1,
                   IF SlabWaste(size, order) < SlabWaste(size, best) THEN order ELSE best)

(* An allocator, at the head of the list of allocators.                     *)
allocator_init(m, size) ==
    With(BestOrder(size + Redzones, MinOrder(size + Redzones) + 1, MinOrder(size + Redzones)),
         LAMBDA order :
         [m EXCEPT !.caches = Append(@, [size |-> size, order |-> order,
                     nobjs |-> SlabNobjs(size + Redzones, order), slabs |-> <<>>])])

(* Empty slabs of all allocators, the newest allocator first, are given     *)
(* back to the page allocator.                                              *)
ReclaimCache(m, c) ==
    FoldLeft(LAMBDA n, s : page_free_order(n, s.addr, m.caches[c].order),
             [m EXCEPT !.caches[c].slabs = SelectSeq(@, LAMBDA s : s.inuse # 0)],
             SelectSeq(m.caches[c].slabs, LAMBDA s : s.inuse = 0))
RECURSIVE ReclaimFrom(_, _)
ReclaimFrom(m, c) == IF c = 0 THEN m ELSE ReclaimFrom(ReclaimCache(m, c), c - 1)
slab_allocators_reclaim(m) == ReclaimFrom(m, Len(m.caches))

(* _page_split: without a larger block, slabs are reclaimed and the call    *)
(* still fails: there are no retries without the shadow daemon.             *)
page_split(m, order) ==
    IF Larger(m, order) = {} THEN slab_allocators_reclaim(m)
    ELSE SplitDown(m, CHOOSE o \in Larger(m, order) : \A p \in Larger(m, order) : o <= p, order)

TakeWithoutFlip(m, order) ==
    [m |-> [m EXCEPT !.free[order] = Tail(@), !.count = @ - 2^order], addr |-> Head(m.free[order])]

Take(m, order) ==
    With(Head(m.free[order]), LAMBDA addr :
         [m |-> Flip([m EXCEPT !.free[order] = Tail(@), !.count = @ - 2^order], order + 1, addr),
          addr |-> addr])

page_alloc_order(m, order) ==
    IF m.free[order] # <<>> THEN Take(m, order)
    ELSE IF Larger(m, order) # {} THEN Take(page_split(m, order), order)
    ELSE [m |-> page_split(m, order), addr |-> NULL]

-----------------------------------------------------------------------------
(* An object is <<allocator, slab, index>>; a slab is known by its address. *)
slab_allocator_grow(m, c) ==
    With(page_alloc_order(m, m.caches[c].order), LAMBDA r :
         IF r.addr = NULL THEN r
         ELSE [r EXCEPT !.m.caches[c].slabs =
                  <<[addr |-> r.addr, inuse |-> 0,
                     free |-> [i \in 1..m.caches[c].nobjs |-> i]]>> \o @])

Roomy(m, c) == {i \in DOMAIN m.caches[c].slabs : m.caches[c].slabs[i].inuse < m.caches[c].nobjs}

FirstFree(m, c) ==
    With(CHOOSE i \in Roomy(m, c) : \A j \in Roomy(m, c) : i <= j, LAMBDA i :
         [m   |-> [m EXCEPT !.caches[c].slabs[i].free = Tail(@), !.caches[c].slabs[i].inuse = @ + 1],
          obj |-> <<c, m.caches[c].slabs[i].addr, Head(m.caches[c].slabs[i].free)>>])

slab_obj_alloc(m, c) ==
    IF Roomy(m, c) # {} THEN FirstFree(m, c)
    ELSE With(slab_allocator_grow(m, c), LAMBDA r :
              IF r.addr = NULL THEN [m |-> r.m, obj |-> <<>>] ELSE FirstFree(r.m, c))

(* The bufctl after the object leads back to its slab.                      *)
slab_obj_free(m, obj) ==
    [m EXCEPT !.caches[obj[1]].slabs =
        [i \in DOMAIN @ |->
            IF @[i].addr = obj[2]
            THEN [@[i] EXCEPT !.free = <<obj[3]>> \o @, !.inuse = @ - 1] ELSE @[i]]]

CreateCache(m, size) ==
    With(slab_obj_alloc(m, 1), LAMBDA r :
         IF r.obj = <<>> THEN r ELSE [r EXCEPT !.m = allocator_init(r.m, size)])

(* slab_init: the allocator of allocators, then one for each bucket.        *)
slab_init(m) ==
    FoldLeft(LAMBDA n, size : CreateCache(n, size).m, allocator_init(m, AllocatorSize), Buckets)

BucketFor(size) ==
    1 + (CHOOSE i \in DOMAIN Buckets : /\ Buckets[i] >= size + Pointer
                                       /\ \A j \in 1..(i - 1) : Buckets[j] < size + Pointer)

-----------------------------------------------------------------------------
(* held: the objects given to callers; blocks: the pages given to callers.  *)
(* ret is the order of a request for pages that was refused, else NULL.     *)
Init ==
    /\ mem = slab_init(pagegroup_create)
    /\ held = {<<1, mem.caches[1].slabs[i].addr, j>> :
                  i \in DOMAIN mem.caches[1].slabs, j \in 1..Len(Buckets)}
    /\ blocks = {}
    /\ ret = NULL

page_alloc_n(npages) ==
    /\ Cardinality(blocks) < MaxBlocks
    /\ \E r \in {page_alloc_order(mem, OrderFor(npages))} :
        /\ mem' = r.m
        /\ blocks' = IF r.addr = NULL THEN blocks ELSE blocks \cup {<<r.addr, npages>>}
        /\ ret' = IF r.addr = NULL THEN OrderFor(npages) ELSE NULL
        /\ UNCHANGED held

page_free_n(b) ==
    /\ mem' = page_free_order(mem, b[1], OrderFor(b[2]))
    /\ blocks' = blocks \ {b}
    /\ ret' = NULL
    /\ UNCHANGED held

ObjAlloc(c) ==
    /\ Cardinality(held) < MaxHeld
    /\ \E r \in {slab_obj_alloc(mem, c)} :
        /\ mem' = r.m
        /\ held' = IF r.obj = <<>> THEN held ELSE held \cup {r.obj}
        /\ ret' = IF r.obj = <<>> THEN mem.caches[c].order ELSE NULL
        /\ UNCHANGED blocks

kmalloc(size) == ObjAlloc(BucketFor(size))
SlabObjAlloc(c) == c > 1 + Len(Buckets) /\ ObjAlloc(c)

(* kfree finds the allocator in the word before the object.                 *)
kfree(obj) ==
    /\ obj[1] # 1
    /\ mem' = slab_obj_free(mem, obj)
    /\ held' = held \ {obj}
    /\ ret' = NULL
    /\ UNCHANGED blocks

slab_allocator_create(size) ==
    /\ Len(mem.caches) < MaxCaches
    /\ \E r \in {CreateCache(mem, size)} :
        /\ mem' = r.m
        /\ held' = IF r.obj = <<>> THEN held ELSE held \cup {r.obj}
        /\ ret' = IF r.obj = <<>> THEN mem.caches[1].order ELSE NULL
        /\ UNCHANGED blocks

Next ==
    /\ ~mem.wild
    /\ \/ \E n \in 1..2^(PAGE_NSIZES - 1) : page_alloc_n(n)
       \/ \E b \in blocks : page_free_n(b)
       \/ \E s \in Requests : kmalloc(s)
       \/ \E c \in DOMAIN mem.caches : SlabObjAlloc(c)
       \/ \E o \in held : kfree(o)
       \/ \E s \in Requests : slab_allocator_create(s)

Spec == Init /\ [][Next]_vars

-----------------------------------------------------------------------------
Span(addr, order) == addr..(addr + 2^order - 1)
FreeBlocks == {<<mem.free[o][i], o>> : <<o, i>> \in {<<x, y>> \in Orders \X (1..NPages) : y \in DOMAIN mem.free[x]}}
SlabBlocks == UNION {{<<mem.caches[c].slabs[i].addr, mem.caches[c].order>> :
                         i \in DOMAIN mem.caches[c].slabs} : c \in DOMAIN mem.caches}
GivenBlocks == {<<b[1], OrderFor(b[2])>> : b \in blocks}

(* Every page of the group is in exactly one block: free, a caller's, or a  *)
(* slab's; no block is twice on a list.  Splitting, joining and reclaiming  *)
(* neither lose nor share a page.                                           *)
PagesPartitioned ==
    LET all == FreeBlocks \cup SlabBlocks \cup GivenBlocks
    IN  /\ ~mem.panic
        /\ \A p \in 0..(NPages - 1) : Cardinality({b \in all : p \in Span(b[1], b[2])}) = 1
        /\ \A b \in all : Span(b[1], b[2]) \subseteq 0..(NPages - 1)
        /\ Cardinality(all) = Cardinality(blocks) + Cardinality(SlabBlocks)
               + FoldLeft(LAMBDA n, o : n + Len(mem.free[o]), 0, [i \in 1..PAGE_NSIZES |-> i - 1])

(* The join runs beyond the end of the range, or into a block that is not   *)
(* free, in one case only: a page of the tail is given back.  In a range    *)
(* that is a multiple of the largest block it never does.                   *)
TailPages == (NPages - (NPages % 2^(PAGE_NSIZES - 1)))..(NPages - 1)
PagesOut == UNION {Span(b[1], b[2]) : b \in SlabBlocks \cup GivenBlocks}
WildOnlyAtTail == mem'.wild => \E p \in TailPages : p \in PagesOut /\ p \notin PagesOut'

(* Two free buddies never stay apart: a block that could serve a larger     *)
(* request is always joined.                                                *)
BuddiesJoined ==
    \A o \in Orders \ {PAGE_NSIZES - 1} : \A i \in 0..(NPages \div 2^(o + 1) - 1) :
        ~({<<2 * i * 2^o, o>>, <<(2 * i + 1) * 2^o, o>>} \subseteq FreeBlocks)

(* page_free_count() is the number of pages on the free lists, as its       *)
(* comment says.                                                            *)
FreeCountRight ==
    mem.count = FoldLeft(LAMBDA n, o : n + Len(mem.free[o]) * 2^o, 0, [i \in 1..PAGE_NSIZES |-> i - 1])

(* Each object of a slab is either held by one caller or once on the slab's *)
(* free list, and s_inuse counts the held ones: a slab given back to the    *)
(* page allocator has no object in use.                                     *)
ObjectsOwnedOnce ==
    /\ \A c \in DOMAIN mem.caches : \A i \in DOMAIN mem.caches[c].slabs :
           LET s    == mem.caches[c].slabs[i]
               mine == {o \in held : o[1] = c /\ o[2] = s.addr}
           IN  /\ s.inuse = Cardinality(mine)
               /\ ToSet(s.free) = (1..mem.caches[c].nobjs) \ {o[3] : o \in mine}
               /\ Len(s.free) = Cardinality(ToSet(s.free))
    /\ \A o \in held : \E i \in DOMAIN mem.caches[o[1]].slabs :
           mem.caches[o[1]].slabs[i].addr = o[2]

(* The objects and the slab structure after them fit in the slab's pages.   *)
SlabsFit ==
    \A c \in DOMAIN mem.caches :
        LET a == mem.caches[c]
        IN  /\ a.nobjs >= 1
            /\ a.nobjs * (a.size + Redzones + Bufctl) + SlabStruct <= PAGE_SIZE * 2^a.order
            /\ \A i \in DOMAIN a.slabs : a.slabs[i].addr % 2^a.order = 0

(* A request is refused only when no free block was large enough.           *)
RefusedOnlyWhenFull ==
    ret' # NULL => \A o \in Orders : o >= ret' => mem.free[o] = <<>>

(* What the allocators keep until a join goes wild.                         *)
Partitioned ==
    ~mem.wild => /\ PagesPartitioned /\ BuddiesJoined /\ FreeCountRight
                 /\ ObjectsOwnedOnce /\ SlabsFit

=============================================================================
