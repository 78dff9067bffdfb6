------------------------------- MODULE Malloc -------------------------------
(***************************************************************************)
(* The user-space allocator, user/lib/libc/malloc.c: pages from brk(),      *)
(* chunks of a power of two in a page, the list of free runs of pages, and  *)
(* the descriptors of both (struct pginfo, struct pgfree), which the        *)
(* allocator allocates from itself.                                         *)
(*                                                                          *)
(* Addresses are bytes from the first page of the arena, so page_dir[i] of  *)
(* the code is dir[i - malloc_pageshift].  A page is scaled from 4096 bytes *)
(* to 2^PageShift, and a word of the bitmap from 32 bits to WordBits, by    *)
(* the same factor: with PageShift = 7 and WordBits = 1 a struct pginfo has *)
(* for every chunk size the length it has in the code.                      *)
(***************************************************************************)
EXTENDS Integers, Sequences, FiniteSets, SequencesExt, FiniteSetsExt

CONSTANTS PageShift,   \* malloc_pageshift
          WordBits,    \* MALLOC_BITS
          SizeWidth,   \* size_t wraps at this value
          Slots,       \* entries of page_dir in a page of it
          MaxPages,    \* bound: brk() fails above this page
          MaxHeld,     \* bound: blocks the program holds at a time
          Sizes,       \* sizes the program asks for
          DefaultCache, \* malloc_cache, in pages
          OptionStrings \* values of malloc_options

VARIABLES heap,        \* the static variables of malloc.c and what they point to
          held,        \* blocks the program holds: [addr, size]
          foreign      \* pages the program took by moving the break itself

vars == <<heap, held, foreign>>

PageSize == 2 ^ PageShift
MinSize == 16
NULL == -1
AdminLen(bits) ==
  16 + 4 * ((PageSize \div 2 ^ bits + WordBits - 1) \div WordBits)
InPage(bits) == 2 ^ bits <= 2 * AdminLen(bits)
PgfreeLen == 20
ChunkBits == 4 .. PageShift - 1

\* The loop that marks the chunks the descriptor takes of its own page subtracts
\* from an unsigned length until it is zero: where InPage(b) holds, the constants
\* must make AdminLen(b) a multiple of 2 ^ b, as the code's do.

PageOf(a) == a \div PageSize
Dir(h, i) == IF i \in DOMAIN h.dir THEN h.dir[i] ELSE "NotMine"
With(x, Rest(_)) == Rest(x)

\* A pointer returned together with the heap it leaves.
Ret(h, p) == [h |-> h, p |-> p]
Then(r, Rest(_, _)) == Rest(r.h, r.p)

-----------------------------------------------------------------------------
(* The page directory and the break                                        *)

ExtendPgdir(h, e) ==
  IF e.mmap
    THEN Ret([h EXCEPT !.ninfo = ((h.last + PageShift) \div Slots + 2) * Slots], 0)
    ELSE Ret(h, NULL)

MapPages(h, n, e) ==
  IF h.brk + n > e.lim
    THEN Ret(h, NULL)
    ELSE With([h EXCEPT !.brk = @ + n, !.last = h.brk + n - 1, !.mbrk = h.brk + n],
           LAMBDA g : IF g.last + PageShift + 1 < g.ninfo
                        THEN Ret(g, h.brk * PageSize)
                        ELSE Then(ExtendPgdir(g, e), LAMBDA g2, ok :
                               Ret(g2, IF ok = NULL THEN NULL ELSE h.brk * PageSize)))

MarkPages(h, pg, n) ==
  [h EXCEPT !.dir = [i \in DOMAIN @ |->
     IF i = pg THEN "First" ELSE IF i \in pg + 1 .. pg + n - 1 THEN "Follow" ELSE @[i]]]

-----------------------------------------------------------------------------
(* Allocation.  Every operator takes the heap and what the kernel answers   *)
(* to brk() and mmap() during the call.                                     *)

RECURSIVE imalloc(_, _, _), ifree(_, _, _)

\* The first entry of the free list that is long enough; the descriptor of an
\* entry used up becomes px, or is freed when there is one already.
malloc_pages(h, n, e) ==
  With({i \in DOMAIN h.flist : h.flist[i].size >= n}, LAMBDA fits :
    IF fits = {}
      THEN Then(MapPages(h, n, e), LAMBDA g, p :
             IF p = NULL THEN Ret(g, NULL) ELSE Ret(MarkPages(g, PageOf(p), n), p))
      ELSE With(Min(fits), LAMBDA i : With(h.flist[i], LAMBDA pf :
             IF pf.size = n
               THEN With(MarkPages([h EXCEPT !.flist = RemoveAt(@, i)], pf.page, n),
                      LAMBDA g : Ret(IF g.px = NULL THEN [g EXCEPT !.px = pf.at]
                                                    ELSE ifree(g, pf.at, e),
                                       pf.page * PageSize))
               ELSE Ret(MarkPages([h EXCEPT !.flist[i] =
                          [pf EXCEPT !.page = @ + n, !.size = @ - n]], pf.page, n),
                        pf.page * PageSize))))

NoInfo == [shift |-> 0, bits |-> {}, free |-> 0, total |-> 0, at |-> NULL]

\* The descriptor of a page of chunks, which lies in the page when two chunks hold it.
NewInfo(bits, at, inpage) ==
  With(IF inpage THEN AdminLen(bits) \div 2 ^ bits ELSE 0, LAMBDA stolen :
    [shift |-> bits, bits |-> stolen .. PageSize \div 2 ^ bits - 1,
     free |-> PageSize \div 2 ^ bits - stolen,
     total |-> PageSize \div 2 ^ bits - stolen, at |-> at])

AddChunks(h, bits, p, at, inpage) ==
  [h EXCEPT !.dir[PageOf(p)] = "Chunks",
            !.info[PageOf(p)] = NewInfo(bits, at, inpage),
            !.bucket[bits] = <<PageOf(p)>> \o @]

malloc_make_chunks(h, bits, e) ==
  Then(malloc_pages(h, 1, e), LAMBDA g, pp :
    IF pp = NULL THEN Ret(g, NULL)
    ELSE IF InPage(bits) THEN Ret(AddChunks(g, bits, pp, pp, TRUE), pp)
    ELSE Then(imalloc(g, AdminLen(bits), e), LAMBDA g2, bp :
           IF bp = NULL THEN Ret(ifree(g2, pp, e), NULL)
                        ELSE Ret(AddChunks(g2, bits, pp, bp, FALSE), pp)))

\* Takes the first free chunk of the first page of the bucket.
TakeChunk(h, j) ==
  With(Head(h.bucket[j]), LAMBDA pg : With(Min(h.info[pg].bits), LAMBDA k :
    Ret([h EXCEPT !.info[pg].bits = @ \ {k}, !.info[pg].free = @ - 1,
                  !.bucket[j] = IF h.info[pg].free = 1 THEN Tail(@) ELSE @],
        pg * PageSize + k * 2 ^ j)))

Bucket(size) ==
  CHOOSE j \in ChunkBits : 2 ^ j >= size /\ \A i \in ChunkBits : 2 ^ i >= size => j <= i

malloc_bytes(h, size, e) ==
  With(Bucket(size), LAMBDA j :
    IF h.bucket[j] # <<>> THEN TakeChunk(h, j)
    ELSE Then(malloc_make_chunks(h, j, e), LAMBDA g, ok :
           IF ok = NULL THEN Ret(g, NULL) ELSE TakeChunk(g, j)))

imalloc(h, size, e) ==
  With(IF (size + PageSize) % SizeWidth < size THEN Ret(h, NULL)
       ELSE IF size <= PageSize \div 2 THEN malloc_bytes(h, size, e)
       ELSE malloc_pages(h, (size + PageSize - 1) \div PageSize, e),
    LAMBDA r : IF r.h.opt.abort /\ r.p = NULL
                 THEN Ret([r.h EXCEPT !.dead = "abort"], NULL) ELSE r)

-----------------------------------------------------------------------------
(* Freeing                                                                  *)

\* The length of the run that starts at page pg: FIRST and the FOLLOWs behind it.
RunLen(h, pg) ==
  Min({n \in 1 .. MaxPages + 1 : Dir(h, pg + n) # "Follow"})

MarkFree(h, pg, n) ==
  [h EXCEPT !.dir = [i \in DOMAIN @ |-> IF i \in pg .. pg + n - 1 THEN "Free" ELSE @[i]]]

\* The entry the search stops at: the first that does not end below pg, or the last.
Spot(fl, pg) == Min({i \in DOMAIN fl : fl[i].end >= pg} \cup {Len(fl)})

LinkForgetsNext(fl, pg, n, at) ==
  With([page |-> pg, end |-> pg + n, size |-> n, at |-> at], LAMBDA new :
    IF fl = <<>>
      THEN [fl |-> <<new>>, spot |-> 1, used |-> TRUE, drop |-> NULL]
      ELSE With(Spot(fl, pg), LAMBDA i :
        IF fl[i].page > pg + n
          THEN [fl |-> InsertAt(fl, i, new), spot |-> i, used |-> TRUE, drop |-> NULL]
        ELSE IF fl[i].end = pg
          THEN [fl |-> [fl EXCEPT ![i].end = @ + n, ![i].size = @ + n],
                spot |-> i, used |-> FALSE, drop |-> NULL]
        ELSE IF fl[i].page = pg + n
          THEN [fl |-> [fl EXCEPT ![i].page = pg, ![i].size = @ + n],
                spot |-> i, used |-> FALSE, drop |-> NULL]
        ELSE [fl |-> Append(fl, new), spot |-> i + 1, used |-> TRUE, drop |-> NULL]))

\* Puts the run on the free list, merged with its neighbours.  spot is the
\* entry changed, used says whether px went on the list and drop is the
\* descriptor of an entry merged away.
Link(fl, pg, n, at) ==
  With([page |-> pg, end |-> pg + n, size |-> n, at |-> at], LAMBDA new :
    IF fl = <<>>
      THEN [fl |-> <<new>>, spot |-> 1, used |-> TRUE, drop |-> NULL]
      ELSE With(Spot(fl, pg), LAMBDA i :
        IF fl[i].page > pg + n
          THEN [fl |-> InsertAt(fl, i, new), spot |-> i, used |-> TRUE, drop |-> NULL]
        ELSE IF fl[i].end = pg /\ i < Len(fl) /\ fl[i + 1].page = pg + n
          THEN [fl |-> RemoveAt([fl EXCEPT ![i].end = fl[i + 1].end,
                                          ![i].size = @ + n + fl[i + 1].size], i + 1),
                spot |-> i, used |-> FALSE, drop |-> fl[i + 1].at]
        ELSE IF fl[i].end = pg
          THEN [fl |-> [fl EXCEPT ![i].end = @ + n, ![i].size = @ + n],
                spot |-> i, used |-> FALSE, drop |-> NULL]
        ELSE IF fl[i].page = pg + n
          THEN [fl |-> [fl EXCEPT ![i].page = pg, ![i].size = @ + n],
                spot |-> i, used |-> FALSE, drop |-> NULL]
        ELSE IF i = Len(fl)
          THEN [fl |-> Append(fl, new), spot |-> i + 1, used |-> TRUE, drop |-> NULL]
        ELSE [fl |-> fl, spot |-> 0, used |-> FALSE, drop |-> NULL]))

\* The last run goes back to the kernel, but for malloc_cache pages of it.
\* The loop that would reset page_dir never runs: last_index is changed first.
GiveBack(h, i) ==
  IF /\ i = Len(h.flist)
     /\ h.flist[i].size > h.opt.cache
     /\ h.flist[i].end = h.mbrk
     /\ h.mbrk = h.brk
    THEN With(h.flist[i].page + h.opt.cache, LAMBDA end :
           [h EXCEPT !.flist[i].end = end, !.flist[i].size = h.opt.cache,
                     !.brk = end, !.mbrk = end, !.last = end - 1])
    ELSE h

\* free_pages() once the run is marked free: px may have to be allocated first.
LinkRun(h, pg, n, e) ==
  With(IF h.px # NULL THEN h
       ELSE Then(imalloc(h, PgfreeLen, e), LAMBDA g, p : [g EXCEPT !.px = p]),
    LAMBDA g :
      IF g.px = NULL THEN [g EXCEPT !.dead = "null px"]
      ELSE With(Link(g.flist, pg, n, g.px), LAMBDA l :
        IF l.spot = 0 THEN [g EXCEPT !.dead = "freelist is destroyed"]
        ELSE With(GiveBack([g EXCEPT !.flist = l.fl,
                                     !.px = IF l.used THEN NULL ELSE @], l.spot),
               LAMBDA g2 : IF l.drop = NULL THEN g2 ELSE ifree(g2, l.drop, e))))

free_pages(h, ptr, e) ==
  IF Dir(h, PageOf(ptr)) # "First" \/ ptr % PageSize # 0
    THEN h                                                 \* wrtwarning()
    ELSE With(RunLen(h, PageOf(ptr)), LAMBDA n :
           LinkRun(MarkFree(h, PageOf(ptr), n), PageOf(ptr), n, e))

\* Where a page that became non-full goes in its bucket.
InsertSpot(b, pg) ==
  Min({k \in 1 .. Len(b) : k = Len(b) \/ b[k + 1] >= pg} \cup
      (IF b = <<>> THEN {1} ELSE {}))

DropPage(h, pg, e) ==
  With(h.info[pg], LAMBDA inf :
    With([h EXCEPT !.bucket[inf.shift] = SelectSeq(@, LAMBDA q : q # pg),
                   !.dir[pg] = "First", !.info[pg] = NoInfo],
      LAMBDA g : ifree(IF inf.at = pg * PageSize THEN g ELSE ifree(g, inf.at, e),
                       pg * PageSize, e)))

free_bytes(h, ptr, e) ==
  With(PageOf(ptr), LAMBDA pg : With(h.info[pg], LAMBDA inf :
    With((ptr % PageSize) \div 2 ^ inf.shift, LAMBDA i :
      IF ptr % 2 ^ inf.shift # 0 \/ i \in inf.bits
        THEN h                                             \* wrtwarning()
        ELSE With([h EXCEPT !.info[pg].bits = @ \cup {i}, !.info[pg].free = @ + 1],
               LAMBDA g :
                 IF g.info[pg].free = 1
                   THEN [g EXCEPT !.bucket[inf.shift] = InsertAt(@, InsertSpot(@, pg), pg)]
                 ELSE IF g.info[pg].free # inf.total THEN g
                 ELSE DropPage(g, pg, e)))))

ifree(h, ptr, e) ==
  IF ptr = NULL \/ ~h.started \/ h.dead # "" \/ PageOf(ptr) > h.last
    THEN h
    ELSE IF Dir(h, PageOf(ptr)) = "Chunks" THEN free_bytes(h, ptr, e)
                                           ELSE free_pages(h, ptr, e)

\* The size of the block at ptr, or NULL when irealloc() rejects the pointer.
OldSize(h, ptr) ==
  IF PageOf(ptr) > h.last THEN NULL
  ELSE IF Dir(h, PageOf(ptr)) = "First" /\ ptr % PageSize = 0
    THEN RunLen(h, PageOf(ptr)) * PageSize
  ELSE IF /\ Dir(h, PageOf(ptr)) = "Chunks"
          /\ ptr % 2 ^ h.info[PageOf(ptr)].shift = 0
          /\ (ptr % PageSize) \div 2 ^ h.info[PageOf(ptr)].shift
                 \notin h.info[PageOf(ptr)].bits
    THEN 2 ^ h.info[PageOf(ptr)].shift
  ELSE NULL

\* The block stays where it is when the new size fits it and no smaller block does.
Keeps(h, ptr, osize, size) ==
  /\ ~h.opt.realloc
  /\ \/ /\ Dir(h, PageOf(ptr)) = "First"
        /\ size <= osize /\ size > osize - PageSize
     \/ /\ Dir(h, PageOf(ptr)) = "Chunks"
        /\ size < osize /\ (size > osize \div 2 \/ osize = MinSize)

irealloc(h, ptr, size, e) ==
  With(OldSize(h, ptr), LAMBDA osize :
    IF osize = NULL THEN Ret(h, NULL)
    ELSE IF Keeps(h, ptr, osize, size) THEN Ret(h, ptr)
    ELSE Then(imalloc(h, size, e), LAMBDA g, p :
           Ret(IF p = NULL THEN g ELSE ifree(g, ptr, e), p)))

-----------------------------------------------------------------------------
(* Initialization and the public interface                                  *)

DefaultOptions ==
  [cache |-> DefaultCache, abort |-> FALSE, realloc |-> FALSE, xmalloc |-> FALSE,
   sysv |-> FALSE, zero |-> FALSE, junk |-> FALSE]

Option(o, c) ==
  CASE c = ">" -> [o EXCEPT !.cache = 2 * @]
    [] c = "<" -> [o EXCEPT !.cache = @ \div 2]
    [] c \in {"a", "A"} -> [o EXCEPT !.abort = (c = "A")]
    [] c \in {"r", "R"} -> [o EXCEPT !.realloc = (c = "R")]
    [] c \in {"j", "J"} -> [o EXCEPT !.junk = (c = "J")]
    [] c \in {"v", "V"} -> [o EXCEPT !.sysv = (c = "V")]
    [] c \in {"x", "X"} -> [o EXCEPT !.xmalloc = (c = "X")]
    [] c \in {"z", "Z"} -> [o EXCEPT !.zero = (c = "Z")]
    [] OTHER -> o                                          \* wrtwarning()

\* Zero fill implies junk fill, and junk fill that realloc() always moves.
Options(s) ==
  With(FoldLeft(Option, DefaultOptions, s), LAMBDA o :
    [o EXCEPT !.junk = o.junk \/ o.zero,
              !.realloc = o.realloc \/ o.junk \/ o.zero,
              !.cache = IF @ = 0 THEN 1 ELSE @])

malloc_init(h, e) ==
  IF ~e.mmap THEN [h EXCEPT !.dead = "mmap failed"]
  ELSE Then(imalloc([h EXCEPT !.ninfo = Slots], PgfreeLen, e), LAMBDA g, p :
         [g EXCEPT !.px = p, !.started = TRUE])

Started(h, e) == IF h.started THEN h ELSE malloc_init(h, e)

\* malloc_xmalloc: the program dies rather than see a null pointer.
Checked(r) ==
  IF r.h.opt.xmalloc /\ r.p = NULL THEN Ret([r.h EXCEPT !.dead = "out of memory"], NULL)
                                   ELSE r

malloc(h, size, e) ==
  With(Started(h, e), LAMBDA g :
    Checked(IF g.dead # "" \/ (g.opt.sysv /\ size = 0) THEN Ret(g, NULL)
                                                    ELSE imalloc(g, size, e)))

realloc(h, ptr, size, e) ==
  With(Started(h, e), LAMBDA g :
    Checked(IF g.dead # "" THEN Ret(g, NULL)
            ELSE IF g.opt.sysv /\ size = 0 THEN Ret(ifree(g, ptr, e), NULL)
            ELSE IF ptr = NULL THEN imalloc(g, size, e)
            ELSE irealloc(g, ptr, size, e)))

\* What the kernel answers during a call: brk() works up to page lim.
Env == [lim : heap.brk .. MaxPages, mmap : BOOLEAN]

-----------------------------------------------------------------------------
(* A program that uses the allocator                                        *)

Init ==
  /\ heap \in {[dir |-> [i \in 0 .. MaxPages - 1 |-> "NotMine"],
                info |-> [i \in 0 .. MaxPages - 1 |-> NoInfo],
                bucket |-> [b \in ChunkBits |-> <<>>],
                flist |-> <<>>, px |-> NULL, brk |-> 0, mbrk |-> 0,
                last |-> -PageShift, ninfo |-> 0, started |-> FALSE, dead |-> "",
                opt |-> Options(s)] : s \in OptionStrings}
  /\ held = {}
  /\ foreign = {}

Alive == heap.dead = ""
Gives(r, size) ==
  /\ heap' = r.h
  /\ held' = held \cup (IF r.p = NULL THEN {} ELSE {[addr |-> r.p, size |-> size]})

Malloc(size) ==
  /\ Alive /\ Cardinality(held) < MaxHeld
  /\ \E e \in Env : Gives(malloc(heap, size, e), size)
  /\ UNCHANGED foreign

\* calloc() multiplies in size_t.
Calloc(n, size) ==
  /\ Alive /\ Cardinality(held) < MaxHeld
  /\ \E e \in Env : With((n * size) % SizeWidth,
                         LAMBDA k : Gives(malloc(heap, k, e), k))
  /\ UNCHANGED foreign

Free(b) ==
  /\ Alive
  /\ \E e \in Env : heap' = ifree(heap, b.addr, e)
  /\ held' = held \ {b}
  /\ UNCHANGED foreign

\* A block freed twice, its memory still free the second time.
FreeTwice(b) ==
  /\ Alive
  /\ \E e \in Env : With(ifree(heap, b.addr, e), LAMBDA g :
                         /\ OldSize(g, b.addr) = NULL
                         /\ heap' = ifree(g, b.addr, e))
  /\ held' = held \ {b}
  /\ UNCHANGED foreign

Realloc(b, size) ==
  /\ Alive
  /\ \E e \in Env :
       With(realloc(heap, b.addr, size, e), LAMBDA r :
         /\ heap' = r.h
         /\ held' = IF r.p # NULL THEN (held \ {b}) \cup {[addr |-> r.p, size |-> size]}
                    ELSE IF r.h.opt.sysv /\ size = 0 THEN held \ {b} ELSE held)
  /\ UNCHANGED foreign

\* The program moves the break itself, as ed does.
Sbrk ==
  /\ Alive /\ heap.brk < MaxPages
  /\ heap' = [heap EXCEPT !.brk = @ + 1]
  /\ foreign' = foreign \cup {heap.brk}
  /\ UNCHANGED held

Next ==
  \/ \E size \in Sizes : Malloc(size)
  \/ \E size \in Sizes : Calloc(2, size)
  \/ \E b \in held : Free(b)
  \/ \E b \in held : FreeTwice(b)
  \/ \E b \in held, size \in Sizes : Realloc(b, size)
  \/ Sbrk

Spec == Init /\ [][Next]_vars

-----------------------------------------------------------------------------
(* Properties                                                               *)

Pages(kind) == {pg \in DOMAIN heap.dir : heap.dir[pg] = kind /\ pg <= heap.last}

\* Addresses of the runs and chunks that are allocated, but for the chunks a
\* descriptor takes of its own page.
Allocated ==
  {pg * PageSize : pg \in Pages("First")} \cup
  UNION {{pg * PageSize + k * 2 ^ heap.info[pg].shift :
            k \in (PageSize \div 2 ^ heap.info[pg].shift - heap.info[pg].total ..
                   PageSize \div 2 ^ heap.info[pg].shift - 1) \ heap.info[pg].bits} :
         pg \in Pages("Chunks")}

Owners ==
  {<<"program", b.addr>> : b \in held} \cup
  {<<"run", heap.flist[i].at>> : i \in DOMAIN heap.flist} \cup
  (IF heap.px = NULL THEN {} ELSE {<<"px", heap.px>>}) \cup
  {<<"info", heap.info[pg].at>> :
     pg \in {q \in Pages("Chunks") : heap.info[q].at # q * PageSize}}

\* Every block the program holds, every descriptor of a free run, the spare
\* descriptor px and every descriptor kept outside its page is a block of its
\* own, allocated, and a block of the program has the size asked for: what
\* malloc_pages(), free_pages() and their nested calls of imalloc() and ifree()
\* hand out is never handed out twice.
BlocksOwnedOnce ==
  Alive => /\ {o[2] : o \in Owners} \subseteq Allocated
           /\ \A o1, o2 \in Owners : o1[2] = o2[2] => o1 = o2
           /\ \A b \in held : OldSize(heap, b.addr) >= b.size

\* What nobody owns is the size of a struct pgfree: free_pages() can lose a
\* spare descriptor (px) that its own imalloc() has set, and nothing else.
OnlyDescriptorsLeak ==
  Alive => \A a \in Allocated \ {o[2] : o \in Owners} : OldSize(heap, a) = 2 ^ Bucket(PgfreeLen)

\* The free list of free_pages() is in address order, adjacent runs are merged,
\* and its runs are the pages marked MALLOC_FREE, except those given back with
\* brk() that the program itself has taken since.
FreeListCoalesced ==
  Alive => /\ \A i \in DOMAIN heap.flist :
                 /\ heap.flist[i].size = heap.flist[i].end - heap.flist[i].page
                 /\ heap.flist[i].size > 0
                 /\ i > 1 => heap.flist[i - 1].end < heap.flist[i].page
           /\ UNION {heap.flist[i].page .. heap.flist[i].end - 1 :
                       i \in DOMAIN heap.flist} = Pages("Free") \ foreign

\* A page of chunks counts the bits of its bitmap, is in the list of its size
\* exactly while it has a free chunk, and is given up when all are free.
ChunkPagesListed ==
  Alive => \A pg \in Pages("Chunks") :
             LET inf == heap.info[pg]
                 at == {i \in DOMAIN heap.bucket[inf.shift] : heap.bucket[inf.shift][i] = pg}
             IN /\ inf.free = Cardinality(inf.bits)
                /\ inf.free < inf.total
                /\ Cardinality(at) = IF inf.free > 0 THEN 1 ELSE 0

\* Every page in use has an entry in the page directory, and a guard entry
\* behind it for the loop of free_pages() to stop at.
DirectoryCovers ==
  Alive => \A pg \in Pages("First") \cup Pages("Follow") \cup Pages("Chunks") :
             pg + PageShift + 1 < heap.ninfo
=============================================================================
