------------------------------- MODULE ElfMap -------------------------------
(* The computations of elf32.c: where the segments of a program are mapped  *)
(* and what is in their pages, and how the arguments are laid out on the    *)
(* new stack; and the mapping ld-weenix makes for a library's segments.  A  *)
(* mapped page is a function from its bytes to what is in them: an offset   *)
(* of the file, or Zero.  vmmap_map, vmmap_write and vmmap_is_range_empty   *)
(* are not implemented in this tree; they appear by how the loader uses     *)
(* them.                                                                    *)
EXTENDS Integers, FiniteSets, SequencesExt

CONSTANTS
    PAGE_SIZE,
    Word, Aux       \* sizes of a pointer and of an auxiliary-vector entry

Zero == -1
NoMap == [p \in {} |-> 0]

PN(addr)     == addr \div PAGE_SIZE
Offset(addr) == addr % PAGE_SIZE
AlignDown(addr) == addr - Offset(addr)
AlignUp(addr)   == AlignDown(addr + PAGE_SIZE - 1)

Pages(lo, n) == lo..lo + n - 1

(* Pages lo up to lo + n - 1 of the map, taken from the file at fileoff, or *)
(* zeroed where fileoff is Zero; MAP_FIXED replaces what is there.          *)
vmmap_map(map, lo, n, fileoff) ==
    [p \in DOMAIN map \cup Pages(lo, n) |->
        IF p \notin Pages(lo, n) THEN map[p]
        ELSE [i \in 0..PAGE_SIZE - 1 |->
                IF fileoff = Zero THEN Zero ELSE fileoff + (p - lo) * PAGE_SIZE + i]]

vmmap_is_range_empty(map, lo, n) == Pages(lo, n) \cap DOMAIN map = {}

(* What the read of the file's last, partial page puts there.               *)
vmmap_write(map, addr, fileoff, n) ==
    [map EXCEPT ![PN(addr)] = [i \in 0..PAGE_SIZE - 1 |-> IF i < n THEN fileoff + i ELSE @[i]]]

-----------------------------------------------------------------------------
Loaded(map)    == [ok |-> TRUE, map |-> map]
Refused(map)   == [ok |-> FALSE, map |-> map]

MapFile(map, addr, s) ==
    LET lo == PN(addr)
        n  == PN(addr + s.filesz - 1) - lo + 1
    IN  IF s.filesz = 0 THEN Loaded(map)
        ELSE IF ~vmmap_is_range_empty(map, lo, n) THEN Refused(map)
        ELSE Loaded(vmmap_map(map, lo, n, AlignDown(s.off)))

MapRestUnread(map, addr, s) ==
    LET end == addr + s.filesz
        lo  == PN(end)
        n   == PN(AlignUp(addr + s.memsz)) - lo
    IN  IF s.memsz <= s.filesz THEN Loaded(map)
        ELSE IF n > 1 /\ ~vmmap_is_range_empty(map, lo + 1, n - 1) THEN Refused(map)
        ELSE Loaded(vmmap_map(map, lo, n, Zero))

(* The rest of the segment is anonymous memory, which replaces the page     *)
(* where the file's bytes end; those are read back into it.  The first of   *)
(* the pages is not among the ones tested.                                  *)
MapRest(map, addr, s) ==
    LET end == addr + s.filesz
        lo  == PN(end)
        n   == PN(AlignUp(addr + s.memsz)) - lo
        anon == vmmap_map(map, lo, n, Zero)
    IN  IF s.memsz <= s.filesz THEN Loaded(map)
        ELSE IF n > 1 /\ ~vmmap_is_range_empty(map, lo + 1, n - 1) THEN Refused(map)
        ELSE IF Offset(end) # 0 /\ s.filesz > 0
             THEN Loaded(vmmap_write(anon, AlignDown(end), AlignDown(s.off + s.filesz), Offset(end)))
             ELSE Loaded(anon)

elf32_map_segment(map, memoff, s) ==
    LET addr == s.vaddr + memoff * PAGE_SIZE
        file == MapFile(map, addr, s)
    IN  IF s.align # PAGE_SIZE \/ s.filesz > s.memsz \/ Offset(addr) # Offset(s.off)
        THEN Refused(map)
        ELSE IF ~file.ok THEN file
        ELSE MapRest(file.map, addr, s)

(* The first segment that is refused ends the load; so does a program       *)
(* without segments.                                                        *)
elf32_map_progsegs(map, memoff, segs) ==
    IF segs = <<>> THEN Refused(map)
    ELSE FoldLeft(LAMBDA r, s : IF r.ok THEN elf32_map_segment(r.map, memoff, s) ELSE r,
                  Loaded(map), segs)

elf32_calc_progbounds(segs) ==
    [low  |-> Min({s.vaddr : s \in ToSet(segs)}),
     high |-> Max({s.vaddr + s.memsz : s \in ToSet(segs)})]

-----------------------------------------------------------------------------

(* _ldmapsect: whole pages of the file, up to the page its bytes end in     *)
(* when zeros follow them; then anonymous pages over the rest, the first    *)
(* with the file's last bytes read into it.  mmap refuses an empty length.  *)
ldmapsect(map, base, s) ==
    LET vmaddr == s.vaddr + base
        fileend == s.off + s.filesz
        from == AlignDown(s.off)
        len == (IF s.memsz > s.filesz THEN AlignDown(fileend) ELSE AlignUp(fileend)) - from
        file == IF len = 0 THEN map ELSE vmmap_map(map, PN(vmaddr), PN(len), from)
        zero == AlignDown(vmaddr + s.filesz)
        rest == AlignUp(vmaddr + s.memsz) - zero
        anon == vmmap_map(file, PN(zero), PN(rest), Zero)
    IN  IF s.memsz = s.filesz THEN file
        ELSE IF rest = 0 THEN file
        ELSE IF Offset(fileend) # 0
             THEN vmmap_write(anon, zero, AlignDown(fileend), Offset(fileend))
             ELSE anon

(* The part of _ldloadobj that maps: a range from the lowest segment's page *)
(* to the highest's is found free at loc, and the segments go there.        *)
ldloadobj(loc, segs) ==
    LET bottom == AlignDown(Min({s.vaddr : s \in ToSet(segs)}))
        top == AlignUp(Max({s.vaddr + s.memsz : s \in ToSet(segs)}))
    IN  [map |-> FoldLeft(LAMBDA m, s : ldmapsect(m, loc - bottom, s), NoMap, segs),
         base |-> loc - bottom, size |-> top - bottom]

-----------------------------------------------------------------------------
StrLens(strs) == FoldLeft(LAMBDA n, s : n + Len(s) + 1, 0, strs)

(* The size of the arguments: their strings, the three vectors with their   *)
(* terminators, argc and the three pointers to the vectors.                 *)
elf32_calc_argsize(argv, envp, auxv, phtsize) ==
    StrLens(argv) + (Len(argv) + 1) * Word + StrLens(envp) + (Len(envp) + 1) * Word
      + (IF Contains(auxv, "AT_PHDR") THEN phtsize ELSE 0)
      + (Len(auxv) + 1) * Aux + Word + 3 * Word

Put(s, at, size, val) == [s EXCEPT !.stores = Append(@, [at |-> at, size |-> size, val |-> val])]

(* A pointer to the string goes to the vector and the string after the ones *)
(* before it; pointers are addresses of the user's stack.                   *)
PutString(s, str, arglow) ==
    [Put(Put(s, s.str, Len(str) + 1, str), s.vec, Word, arglow + s.str)
        EXCEPT !.vec = @ + Word, !.str = @ + Len(str) + 1]

PutEnd(s) == [Put(s, s.vec, Word, 0) EXCEPT !.vec = @ + Word]

PutAux(s, type, arglow, phtsize) ==
    [(IF type = "AT_PHDR"
      THEN Put(Put(s, s.vec, Aux, arglow + s.str), s.str, phtsize, "pht")
      ELSE Put(s, s.vec, Aux, type)) EXCEPT !.vec = @ + Aux]

(* The stores into the buffer that is copied to arglow, as offsets.         *)
elf32_load_args(argv, envp, auxv, phtsize, arglow) ==
    LET vecstart == Word + 3 * Word
        envstart == vecstart + (Len(argv) + 1) * Word
        auxstart == envstart + (Len(envp) + 1) * Word
        head == << [at |-> 0, size |-> Word, val |-> Len(argv)],
                   [at |-> Word, size |-> Word, val |-> arglow + vecstart],
                   [at |-> 2 * Word, size |-> Word, val |-> arglow + envstart],
                   [at |-> 3 * Word, size |-> Word, val |-> arglow + auxstart] >>
        begun == [stores |-> head, vec |-> vecstart, str |-> auxstart + (Len(auxv) + 1) * Aux]
        args == PutEnd(FoldLeft(LAMBDA s, str : PutString(s, str, arglow), begun, argv))
        env  == PutEnd(FoldLeft(LAMBDA s, str : PutString(s, str, arglow), args, envp))
        aux  == FoldLeft(LAMBDA s, type : PutAux(s, type, arglow, phtsize), env, auxv)
    IN  PutEnd(aux).stores

-----------------------------------------------------------------------------
(* What a byte of the address space should hold: the segment's byte of the  *)
(* file, or zero after those.                                               *)
Wanted(s, i) == IF i < s.filesz THEN s.off + i ELSE Zero

(* The byte that is at an address of the map.                               *)
ByteAt(map, addr) == map[PN(addr)][Offset(addr)]

SegmentPages(s, memoff) ==
    {PN(s.vaddr + i) + memoff : i \in 0..s.memsz - 1}

(* No two segments lie in one page.                                         *)
Apart(segs, memoff) ==
    \A i, j \in DOMAIN segs :
        i # j => SegmentPages(segs[i], memoff) \cap SegmentPages(segs[j], memoff) = {}

WellFormed(s) == s.align = PAGE_SIZE /\ s.filesz <= s.memsz /\ Offset(s.vaddr) = Offset(s.off)

(* A program whose segments are well formed and share no page is loaded,    *)
(* and every byte of every segment is the file's byte or zero, at the page  *)
(* where the bytes of the file end too; the bounds hold all of them.        *)
SegmentsLoaded(segs, memoff) ==
    LET r == elf32_map_progsegs(NoMap, memoff, segs)
        b == elf32_calc_progbounds(segs)
    IN  (\A i \in DOMAIN segs : WellFormed(segs[i])) /\ Apart(segs, memoff) =>
            /\ r.ok
            /\ \A k \in DOMAIN segs : \A i \in 0..segs[k].memsz - 1 :
                 /\ ByteAt(r.map, segs[k].vaddr + memoff * PAGE_SIZE + i) = Wanted(segs[k], i)
                 /\ segs[k].vaddr + i \in b.low..b.high - 1

(* A library whose segments are well formed and share no page is mapped the *)
(* same way by ld-weenix, inside the range _ldloadobj found free: nothing   *)
(* that was mapped before is replaced.                                      *)
LibrarySegmentsMapped(segs, loc) ==
    LET r == ldloadobj(loc, segs)
    IN  (\A i \in DOMAIN segs : WellFormed(segs[i])) /\ Apart(segs, 0) =>
            /\ \A k \in DOMAIN segs : \A i \in 0..segs[k].memsz - 1 :
                 ByteAt(r.map, segs[k].vaddr + r.base + i) = Wanted(segs[k], i)
            /\ DOMAIN r.map \subseteq Pages(PN(loc), PN(r.size))

StoreOf(stores, at) == stores[CHOOSE i \in DOMAIN stores : stores[i].at = at]

(* Following the pointers of the new stack finds argc, the strings of argv  *)
(* and envp in their order, and the program header table; no store touches  *)
(* another or leaves the space that calc_argsize has counted.               *)
ArgumentsReadBack(argv, envp, auxv, phtsize, arglow) ==
    LET w == elf32_load_args(argv, envp, auxv, phtsize, arglow)
        at(a) == StoreOf(w, a).val
        vector(p, n) == [i \in 1..n |-> at(at(p - arglow + (i - 1) * Word) - arglow)]
    IN  /\ at(0) = Len(argv)
        /\ vector(at(Word), Len(argv)) = argv
        /\ vector(at(2 * Word), Len(envp)) = envp
        /\ at(at(Word) - arglow + Len(argv) * Word) = 0
        /\ \A i \in DOMAIN auxv : auxv[i] = "AT_PHDR" =>
               at(at(at(3 * Word) - arglow + (i - 1) * Aux) - arglow) = "pht"
        /\ \A i, j \in DOMAIN w : i < j =>
               w[i].at + w[i].size <= w[j].at \/ w[j].at + w[j].size <= w[i].at
        /\ \A i \in DOMAIN w :
               w[i].at + w[i].size <= elf32_calc_argsize(argv, envp, auxv, phtsize)
=============================================================================
