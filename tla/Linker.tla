------------------------------- MODULE Linker -------------------------------
(***************************************************************************)
(* The run-time linker, user/lib/ld-weenix: loading the libraries a        *)
(* program needs, relocating them, binding symbols, and the calls that go  *)
(* through the procedure linkage table (PLT) afterwards.                   *)
(*                                                                         *)
(* An image gives each object, the executable EXE and the libraries:       *)
(*   needed   the DT_NEEDED names, in the order of the dynamic section     *)
(*   now      whether it has DT_BIND_NOW                                   *)
(*   syms     its dynamic symbols: name -> [bind, def]                     *)
(*   relocs   its DT_REL entries [type, sym, at], at a word of its memory  *)
(*   plt      the symbols of its DT_JMPREL entries                         *)
(*   dir      the directory it is in                                       *)
(*   rpath    the DT_RPATH directories for what it needs                   *)
(* A word of memory is [bases, sym]: how often a base was added to it and  *)
(* the definition <<object, symbol>> whose address it holds, if any.  The  *)
(* address of a data symbol s is the word <<"data", s>>.                   *)
(***************************************************************************)
EXTENDS Naturals, Sequences, SequencesExt, FiniteSetsExt, TLC

CONSTANTS EXE, Images, Environments,
          DEFAULT_RUNPATH,  \* a sequence of directories
          PoolSize,         \* what _ldainit maps: one page
          ModuleSize, EntrySize

VARIABLES image, ld

None == <<"none", "none">>
Word == [bases |-> 0, sym |-> None]

-----------------------------------------------------------------------------
(* Strings of the environment are cut into tokens that differ in their first character. *)

\* the walk of one entry: how many tokens p and var have in common
Common(p, var) ==
    Max({n \in 0 .. Min({Len(p), Len(var)}) : SubSeq(p, 1, n) = SubSeq(var, 1, n)})

\* _ldgetenv: var is advanced over what it has in common with an entry and never set back;
\* what is returned starts at the '='
RECURSIVE _ldgetenv(_, _)
_ldgetenv(env, var) ==
    IF env = <<>> THEN <<>>
    ELSE LET p == Head(env)
             n == Common(p, var)
         IN  IF n = Len(var) /\ n < Len(p) /\ p[n + 1] = "=" THEN SubSeq(p, n + 1, Len(p))
             ELSE _ldgetenv(Tail(env), SubSeq(var, n + 1, Len(var)))

\* _ldenv_init, the two variables that change what the linker does; the '=' becomes part of
\* the name of the path's first directory, which then is no directory
_ldenv_init(env) ==
    [now |-> _ldgetenv(env, <<"LD_", "BIND_NOW">>) # <<>>,
     path |-> LET v == _ldgetenv(env, <<"LD_", "LIBRARY_PATH">>)
              IN  IF v = <<>> THEN <<>> ELSE <<"=">> \o SubSeq(v, 3, Len(v))]

-----------------------------------------------------------------------------
\* _ldalloc; the pool is never freed and an allocation beyond it ends the program
_ldalloc(s, size) == IF s.pool + size > PoolSize THEN [s EXCEPT !.phase = "dead"]
                     ELSE [s EXCEPT !.pool = @ + size]

_ldchkname(s, name) == name \in s.names

_ldaddname(s, name) == [_ldalloc(s, EntrySize) EXCEPT !.names = @ \cup {name}]

\* the last loop of _ldlinkobj: a module for every dependency up to the first known name
RECURSIVE AddNeeded(_, _, _)
AddNeeded(s, needed, rpath) ==
    IF needed = <<>> \/ s.phase = "dead" \/ _ldchkname(s, Head(needed)) THEN s
    ELSE LET named == _ldaddname(s, Head(needed))
             made == _ldaddname(_ldalloc(named, ModuleSize), Head(needed))
         IN  AddNeeded([made EXCEPT !.chain = Append(@, Head(needed)),
                                    !.rpath = (Head(needed) :> rpath) @@ @],
                       Tail(needed), rpath)

\* _ldlinkobj: the tables are taken from the dynamic section, then the dependencies
_ldlinkobj(s, o) ==
    AddNeeded([s EXCEPT !.now = @ \/ image[o].now], image[o].needed, image[o].rpath)

\* _ldtryopen: nothing without a path; first the bare name, then under each directory
_ldtryopen(o, path) == path # <<>> /\ (image[o].dir = "." \/ Contains(path, image[o].dir))

-----------------------------------------------------------------------------
\* _ldlookup and _ldsymbol: does m define s with that binding
_ldsymbol(m, s, bind) ==
    /\ s \in DOMAIN image[m].syms
    /\ image[m].syms[s].bind = bind
    /\ image[m].syms[s].def

FirstOf(chain, s, bind, skip) ==
    LET at == {i \in 1 .. Len(chain) : chain[i] \notin skip /\ _ldsymbol(chain[i], s, bind)}
    IN  IF at = {} THEN None ELSE <<chain[Min(at)], s>>

\* _ldresolve: a global of the chain (without the module itself when exclude), then a weak
\* one, then the module's own local
_ldresolve(chain, m, s, exclude) ==
    LET global == FirstOf(chain, s, "global", IF exclude THEN {m} ELSE {})
        weak == FirstOf(chain, s, "weak", {})
    IN  IF global # None THEN global
        ELSE IF weak # None THEN weak
        ELSE FirstOf(<<m>>, s, "local", {})

Put(s, m, at, w) == [s EXCEPT !.mem[m][at] = w]

\* R_386_COPY: the bytes of another definition; without one the size is not set, and the
\* copy is empty (lucky) or faults
Copy(s, m, r, lucky) ==
    LET src == _ldresolve(s.chain, m, r.sym, TRUE)
    IN  IF src # None THEN Put(s, m, r.at, s.mem[src[1]][<<"data", r.sym>>])
        ELSE IF lucky THEN s ELSE [s EXCEPT !.phase = "dead"]

\* _ldrelocobj: the entries in order; a symbol that does not resolve ends the object
RECURSIVE Relocate(_, _, _, _)
Relocate(s, m, relocs, lucky) ==
    IF relocs = <<>> \/ s.phase = "dead" THEN s
    ELSE LET r == Head(relocs)
             sym == _ldresolve(s.chain, m, r.sym, FALSE)
         IN  CASE r.type = "RELATIVE" ->
                    Relocate(Put(s, m, r.at, [s.mem[m][r.at] EXCEPT !.bases = @ + 1]),
                             m, Tail(relocs), lucky)
               [] r.type = "COPY" -> Relocate(Copy(s, m, r, lucky), m, Tail(relocs), lucky)
               [] r.type \in {"GLOB_DAT", "32", "PC32", "JMP_SLOT"} ->
                    IF sym = None THEN s
                    ELSE Relocate(Put(s, m, r.at, [s.mem[m][r.at] EXCEPT !.sym = sym]),
                                  m, Tail(relocs), lucky)
               [] OTHER -> [s EXCEPT !.phase = "dead"]

_ldrelocobj(s, m, lucky) == Relocate(s, m, image[m].relocs, lucky)

PltAt(m) == {<<"plt", image[m].plt[i]>> : i \in 1 .. Len(image[m].plt)}

\* _ldrelocplt: every PLT word points back into its own object
_ldrelocplt(s, m) ==
    [s EXCEPT !.mem[m] = [at \in DOMAIN @ |-> IF at \in PltAt(m)
                                              THEN [@[at] EXCEPT !.bases = @ + 1] ELSE @[at]]]

Bound(s, m, at) == [bases |-> 0, sym |-> _ldresolve(s.chain, m, at[2], FALSE)]

\* _ldbindnow: every PLT word gets its symbol's address, 0 when there is none
_ldbindnow(s, m) ==
    [s EXCEPT !.mem[m] = [at \in DOMAIN @ |-> IF at \in PltAt(m) THEN Bound(s, m, at)
                                              ELSE @[at]]]

-----------------------------------------------------------------------------
Ats(o) == {image[o].relocs[i].at : i \in 1 .. Len(image[o].relocs)} \cup PltAt(o)
              \cup {<<"data", s>> : s \in DOMAIN image[o].syms}

\* nothing is linked yet: what the kernel hands to _ldstart
Init == /\ image \in Images
        /\ ld = [phase |-> "start", chain |-> <<>>, names |-> {}, pool |-> 0, now |-> FALSE,
                 path |-> <<>>, rpath |-> <<>>, next |-> 1, inits |-> <<>>, finis |-> <<>>,
                 mem |-> [o \in DOMAIN image |-> [at \in Ats(o) |-> Word]]]

\* _ldstart up to the executable's own dependencies
Start == /\ ld.phase = "start"
         /\ \E env \in Environments :
              LET e == _ldenv_init(env)
                  s == [_ldalloc(ld, ModuleSize) EXCEPT !.phase = "load", !.chain = <<EXE>>,
                            !.now = e.now, !.path = e.path, !.next = 2]
              IN  ld' = _ldlinkobj(s, EXE)
         /\ UNCHANGED image

\* _ldloadobj of the next module of the chain: find the file, map it, link it
Load == /\ ld.phase = "load" /\ ld.next <= Len(ld.chain)
        /\ LET o == ld.chain[ld.next] IN
           IF \E path \in {ld.path, ld.rpath[o], DEFAULT_RUNPATH} : _ldtryopen(o, path)
           THEN ld' = [_ldlinkobj(ld, o) EXCEPT !.next = @ + 1]
           ELSE ld' = [ld EXCEPT !.phase = "dead"]
        /\ UNCHANGED image

Loaded == /\ ld.phase = "load" /\ ld.next > Len(ld.chain)
          /\ ld' = [ld EXCEPT !.phase = "relocate", !.next = 2]
          /\ UNCHANGED image

ExecutableFirst ==
    /\ ld.phase = "relocate"
    /\ \E lucky \in BOOLEAN :
         LET m == IF ld.next = 2 THEN EXE ELSE ld.chain[ld.next - 1]
             s == _ldrelocobj(ld, m, lucky)
         IN  ld' = [s EXCEPT !.next = @ + 1,
                             !.phase = IF s.phase # "dead" /\ ld.next > Len(ld.chain)
                                       THEN "plt" ELSE @]
    /\ UNCHANGED image

\* the relocation loop: the libraries in chain order, the executable last
RelocateNext ==
    /\ ld.phase = "relocate"
    /\ \E lucky \in BOOLEAN :
         IF ld.next <= Len(ld.chain)
         THEN ld' = [_ldrelocobj(ld, ld.chain[ld.next], lucky) EXCEPT !.next = @ + 1]
         ELSE LET s == _ldrelocobj(ld, EXE, lucky)
              IN  ld' = [s EXCEPT !.phase = IF s.phase = "dead" THEN @ ELSE "plt"]
    /\ UNCHANGED image

\* the PLT of every module, and all of it at once when LD_BIND_NOW or DT_BIND_NOW asks for it
RelocatePlt ==
    /\ ld.phase = "plt"
    /\ LET relocated == FoldLeft(_ldrelocplt, ld, ld.chain)
       IN  ld' = [(IF ld.now THEN FoldLeft(_ldbindnow, relocated, ld.chain) ELSE relocated)
                     EXCEPT !.phase = "init"]
    /\ UNCHANGED image

\* the init functions of the libraries, in chain order, then the program
CallInits == /\ ld.phase = "init"
             /\ ld' = [ld EXCEPT !.phase = "run", !.inits = Tail(ld.chain)]
             /\ UNCHANGED image

\* a call through the PLT: an unbound word leads to _rtresolve, which binds it and goes on to
\* the address found; at address 0 the program faults
Call(m, at) ==
    /\ ld.phase = "run" /\ Contains(ld.chain, m)
    /\ ld.mem[m][at].sym = None
    /\ ld' = [Put(ld, m, at, Bound(ld, m, at)) EXCEPT
                 !.phase = IF Bound(ld, m, at).sym = None THEN "dead" ELSE @]
    /\ UNCHANGED image

\* _ldcleanup: the fini functions, again in chain order, then exit
Cleanup == /\ ld.phase = "run"
           /\ ld' = [ld EXCEPT !.phase = "done", !.finis = Tail(ld.chain)]
           /\ UNCHANGED image

CallSome == \E m \in DOMAIN image : \E at \in PltAt(m) : Call(m, at)

Next == Start \/ Load \/ Loaded \/ RelocateNext \/ RelocatePlt \/ CallInits \/ CallSome \/ Cleanup

Spec == Init /\ [][Next]_<<image, ld>>

-----------------------------------------------------------------------------
Running == ld.phase \in {"run", "done"}

\* Libraries that need each other are not a mess (ldnames.c): every object is in the chain
\* once, so none is mapped, relocated or initialised twice, and an object's dependencies up
\* to the first one another object had named already are all there.
LinkedOnce ==
    /\ IsInjective(ld.chain)
    /\ Running => \A i \in 1 .. Len(ld.chain) :
         LET needed == image[ld.chain[i]].needed
             Known(n) == \E j \in 1 .. i - 1 : Contains(image[ld.chain[j]].needed, n)
         IN  \A k \in 1 .. Len(needed) :
               (\A j \in 1 .. k : ~Known(needed[j])) => Contains(ld.chain, needed[k])

Complete(m) == \A i \in 1 .. Len(image[m].relocs) :
                  LET r == image[m].relocs[i]
                  IN  r.type # "RELATIVE" =>
                        _ldresolve(ld.chain, m, r.sym, r.type = "COPY") # None

\* The executable's copy of a library's data is the data after its relocation: copying has
\* to come after the libraries were relocated (ldstart.c:497) whatever the chain is.
CopiesFinal ==
    Running => \A i \in 1 .. Len(image[EXE].relocs) :
        LET r == image[EXE].relocs[i]
            src == _ldresolve(ld.chain, EXE, r.sym, TRUE)
        IN  r.type = "COPY" /\ src # None /\ Complete(EXE)
              => ld.mem[EXE][r.at] = ld.mem[src[1]][<<"data", r.sym>>]

\* Every word of an object all of whose symbols resolve is relocated, exactly once.
RelocatedOnce ==
    Running => \A m \in ToSet(ld.chain) : Complete(m) =>
        \A i \in 1 .. Len(image[m].relocs) :
            LET r == image[m].relocs[i]
            IN  CASE r.type = "RELATIVE" -> ld.mem[m][r.at].bases = 1
                  [] r.type = "COPY" -> TRUE
                  [] OTHER -> ld.mem[m][r.at].sym = _ldresolve(ld.chain, m, r.sym, FALSE)

\* Binding is the same whenever it happens: a PLT word of a running program still points at
\* its own stub, or holds what binding at start would have put there; with bind-now none is
\* left at its stub.
LazyIsEager ==
    Running => \A m \in ToSet(ld.chain) : \A at \in PltAt(m) :
        LET w == ld.mem[m][at]
        IN  \/ w = Bound(ld, m, at)
            \/ w = [bases |-> 1, sym |-> None] /\ ~ld.now
============================================================================
