------------------------------ MODULE MCUser ------------------------------
(* The user programs and the libraries, side by side in one run: malloc of  *)
(* the C library (Malloc), the editor and its temporary file (Ed, EdTemp),  *)
(* the shell and its self-tests (Shell, ShellChecks), the run-time linker   *)
(* (Linker), and calls of the pure functions (MCLibrary).  focus is the     *)
(* program a behaviour is about; the state of the others stays "idle".      *)
EXTENDS MCLibrary

VARIABLES focus,
          heap, held, foreign,      \* Malloc
          ed,                       \* Ed
          tmp, stored,              \* EdTemp
          sh, kids,                 \* Shell
          run, t,                   \* ShellChecks
          image, ld                 \* Linker

malloc == <<heap, held, foreign>>
temp == <<tmp, stored>>
shell == <<sh, kids>>
checks == <<run, t>>
linker == <<image, ld>>

M == INSTANCE Malloc WITH
        PageShift <- 7, WordBits <- 1, SizeWidth <- 4096, Slots <- 10, MaxPages <- 4,
        MaxHeld <- 2, Sizes <- {0, 64, 200}, DefaultCache <- 1,
        OptionStrings <- {<<>>, <<"V", "R", "X">>}

-----------------------------------------------------------------------------
\* two commands after three lines were typed
Typed == <<"a","nl","x","y","nl","y","nl","x","nl",".","nl">>
Commands == {
    <<"1","d","nl">>, <<"2",",","$","d","p","nl">>, <<"3",",","1","d","nl">>, <<"d","nl">>,
    <<"1",";","+","m","$","nl">>, <<"3","m","0","nl">>, <<"2","m","2","nl">>,
    <<"1",",","2","t","1","nl">>, <<".","t","0","nl">>,
    <<"/","x","$","/","d","nl">>, <<"?","y","?","-","k","x","nl">>, <<"k","1","nl">>, <<"'","x","p","nl">>,
    <<"'","x",",","$","s","/","y","*","/","&","z","/","g","nl">>,
    <<"1",",","$","s","/","\\","(","x","\\",")","/","\\","1","\\","nl","w","/","p","nl">>,
    <<"g","/","x","/","s","/","x","/","y","/","\\","nl","m","0","nl">>,
    <<"v","/","^","x","/","d","nl">>, <<"g","/","y","/","t","$","nl">>,
    <<"2","i","nl","z","nl",".","nl">>, <<"2",",","3","c","nl","z","nl",".","nl">>,
    <<"nl">>, <<"$","=","nl">>, <<"w"," ","f","nl">>, <<"1","w","nl">>, <<"r"," ","f","nl">>,
    <<"e"," ","f","nl">>, <<"f"," ","g","nl">>, <<"!","nl">>, <<"q","nl">>, <<"z","nl">>,
    <<"5","p","nl">>}

E == INSTANCE Ed WITH
        NBRA <- 5, GrowWords <- 2, MaxGrow <- 6, Scripts <- {Typed \o a \o b : a, b \in Commands},
        Disks <- {<< >>, <<"f">> :> <<"x", "nl", "y">>}

T == INSTANCE EdTemp WITH
        Units <- 4, MaxBlock <- 3,
        Lines <- {<<>>, <<"a">>, <<"a","b","c">>, <<"d","e","f","g","h","i">>}

-----------------------------------------------------------------------------
To(kind, src, dfd) == [kind |-> kind, src |-> src, dfd |-> dfd]
Redirections == {
    <<>>, <<To("file", "f", 1)>>, <<To("file", "f", 1), To("dup", 1, 2)>>,
    <<To("dup", 2, 0), To("file", "f", 1), To("file", "g", 1)>>,
    <<To("file", "f", 0), To("bad", 1, 2)>>, <<To("dup", 7, 1)>>,
    <<To("file", "f", 4), To("file", "g", 1)>>, <<To("file", "f", 9)>>,
    <<To("file", "f", 1), To("file", "g", 1), To("file", "f", 2), To("dup", 2, 0)>>}
ShellCommands == {
    <<>>, <<"prog">>, <<"cat">>, <<"cp">>, <<"exit">>,
    <<"repeat", 2, <<"prog">>>>, <<"repeat", 2, <<"cp">>>>,
    <<"repeat", 2, <<"parallel", <<"prog">>, <<"cat">>>>>>,
    <<"parallel", <<"prog">>, <<"prog">>, <<"cat">>>>}

S == INSTANCE Shell WITH
        NFiles <- 9, RedirMax <- 3, MaxOpen <- 5,
        Lines <- [cmd : ShellCommands, redirs : Redirections]

C == INSTANCE ShellChecks

-----------------------------------------------------------------------------
Symbol(bind) == [bind |-> bind, def |-> TRUE]
Undefined == [bind |-> "global", def |-> FALSE]
Reloc(type, sym, at) == [type |-> type, sym |-> sym, at |-> at]

\* an executable with a copy of d and a call of f; a and b that both may define f and need
\* each other and c; a library in a directory only a path names
Image(needs, aneeds, bneeds, adir, now, dbind, fbind, arelocs) ==
    ("exe" :> [needed |-> needs, now |-> now, dir |-> ".", rpath |-> <<>>,
               syms |-> ("d" :> Symbol("global") @@ "f" :> Undefined),
               relocs |-> <<Reloc("COPY", "d", <<"data", "d">>),
                            Reloc("RELATIVE", "d", <<"got", 1>>)>>,
               plt |-> <<"f">>]) @@
    ("a" :> [needed |-> aneeds, now |-> FALSE, dir |-> adir, rpath |-> <<>>,
             syms |-> ("d" :> Symbol(dbind) @@ "f" :> Symbol(fbind)),
             relocs |-> arelocs, plt |-> <<"f">>]) @@
    ("b" :> [needed |-> bneeds, now |-> FALSE, dir |-> "/lib", rpath |-> <<"/opt">>,
             syms |-> ("f" :> Symbol("weak") @@ "g" :> Undefined),
             relocs |-> <<Reloc("GLOB_DAT", "d", <<"got", 1>>)>>, plt |-> <<"f", "g">>]) @@
    ("c" :> [needed |-> <<>>, now |-> FALSE, dir |-> "/lib", rpath |-> <<>>,
             syms |-> ("g" :> Symbol("global")), relocs |-> <<>>, plt |-> <<>>])

L == INSTANCE Linker WITH
        EXE <- "exe", PoolSize <- 32, ModuleSize <- 5, EntrySize <- 2,
        DEFAULT_RUNPATH <- <<"/lib", "/usr/lib">>,
        Environments <- {<<>>, <<<<"LD_", "LIBRARY_PATH", "=", "/tmp", "/opt">>>>,
                         <<<<"LD_", "DEBUG", "=", "1">>, <<"LD_", "BIND_NOW", "=", "1">>>>,
                         <<<<"LD_", "BIND_NOW", "=", "1">>>>},
        Images <- {Image(needs, aneeds, bneeds, adir, now, dbind, fbind, arelocs) :
                     needs \in {<<"a">>, <<"a", "b">>, <<"b", "a">>},
                     aneeds \in {<<>>, <<"b", "c">>}, bneeds \in {<<"c">>, <<"a", "c">>},
                     adir \in {"/lib", "/opt"}, now \in BOOLEAN,
                     dbind \in {"global", "weak"}, fbind \in {"global", "local"},
                     arelocs \in {
                       <<Reloc("RELATIVE", "d", <<"data", "d">>), Reloc("GLOB_DAT", "f", <<"got", 1>>)>>,
                       <<Reloc("32", "d", <<"got", 1>>), Reloc("RELATIVE", "d", <<"data", "d">>)>>}}

-----------------------------------------------------------------------------
NoMalloc == heap = "idle" /\ held = "idle" /\ foreign = "idle"
NoEd == ed = "idle"
NoTemp == tmp = "idle" /\ stored = "idle"
NoShell == sh = "idle" /\ kids = "idle"
NoChecks == run = "idle" /\ t = "idle"
NoLinker == image = "idle" /\ ld = "idle"

Init ==
    \/ focus = "malloc" /\ M!Init /\ NoEd /\ NoTemp /\ NoShell /\ NoChecks /\ NoLinker /\ NoCall
    \/ focus = "ed" /\ NoMalloc /\ E!Init /\ NoTemp /\ NoShell /\ NoChecks /\ NoLinker /\ NoCall
    \/ focus = "temp" /\ NoMalloc /\ NoEd /\ T!Init /\ NoShell /\ NoChecks /\ NoLinker /\ NoCall
    \/ focus = "shell" /\ NoMalloc /\ NoEd /\ NoTemp /\ S!Init /\ NoChecks /\ NoLinker /\ NoCall
    \/ focus = "checks" /\ NoMalloc /\ NoEd /\ NoTemp /\ NoShell /\ C!Init /\ NoLinker /\ NoCall
    \/ focus = "linker" /\ NoMalloc /\ NoEd /\ NoTemp /\ NoShell /\ NoChecks /\ L!Init /\ NoCall
    \/ focus = "call" /\ NoMalloc /\ NoEd /\ NoTemp /\ NoShell /\ NoChecks /\ NoLinker /\ NoCall

MallocStep == focus = "malloc" /\ M!Next /\ UNCHANGED <<focus, call, ed, temp, shell, checks, linker>>
EdStep == focus = "ed" /\ E!Next /\ UNCHANGED <<focus, call, malloc, temp, shell, checks, linker>>
TempStep == focus = "temp" /\ T!Next /\ UNCHANGED <<focus, call, malloc, ed, shell, checks, linker>>
ShellStep == focus = "shell" /\ S!Next /\ UNCHANGED <<focus, call, malloc, ed, temp, checks, linker>>
ChecksStep == focus = "checks" /\ C!Next /\ UNCHANGED <<focus, call, malloc, ed, temp, shell, linker>>
LinkerStep == focus = "linker" /\ L!Next /\ UNCHANGED <<focus, call, malloc, ed, temp, shell, checks>>
CallStep == focus = "call" /\ Calls /\ UNCHANGED <<focus, malloc, ed, temp, shell, checks, linker>>

Next == MallocStep \/ EdStep \/ TempStep \/ ShellStep \/ ChecksStep \/ LinkerStep \/ CallStep

Spec == Init /\ [][Next]_<<focus, call, malloc, ed, temp, shell, checks, linker>>

-----------------------------------------------------------------------------
\* Malloc: the heap is consistent whatever is freed in whatever order: every block the program
\* holds and every descriptor malloc.c keeps is a block of its own, allocated and as large as
\* was asked for; what nobody owns any more is a spare descriptor that free_pages() lost; the
\* list of free runs is in address order, merged, and lists exactly the pages marked free; a
\* page of chunks counts the bits of its bitmap and is listed exactly while it has a free
\* chunk; and the page directory covers every page in use.
HeapConsistent ==
    focus = "malloc" => /\ M!BlocksOwnedOnce /\ M!OnlyDescriptorsLeak /\ M!FreeListCoalesced
                        /\ M!ChunkPagesListed /\ M!DirectoryCovers

\* Ed: until the first "?" every command does to the sequence of lines what it is for, those
\* that read, write and print included, leaves dot on the line it made, moved or reached, and
\* two words of core never name the same line; and the commands of a global command mark no
\* line, so its loop ends.
EditsAreSequenceEdits ==
    [][focus = "ed" => /\ E!EditsAreSequenceEdits /\ E!MarksShrink
                       /\ E!DotInBuffer' /\ E!WordsDistinct']_ed

\* EdTemp: the places putline() hands out do not overlap, and every line stored reads back as
\* it was stored, until block 2 is begun.
LinesReadBack == focus = "temp" => T!PlacesDisjoint /\ T!ReadBack

\* Shell: redirections change the streams of programs, never those of the shell; a program
\* finds its streams redirected as its line says, unless an earlier redirection of the line
\* goes to the very descriptor a later one was opened at, and no descriptor that neither its
\* line names nor the shell keeps; back at the prompt only the standard streams are open and
\* what a line without a command, or a redirection, a cp or a repeat that failed half way
\* left open, and every child has been waited for.
PromptsClean ==
    focus = "shell" => S!StdStreamsKept /\ S!ProgramStreams /\ S!NoDescriptorLeft /\ S!NoZombies

\* ShellChecks: a self-test gives back what it took, whatever call of it fails, and says
\* FAILED exactly when something failed in it.
ChecksGiveBack == focus = "checks" => C!GivesBack /\ C!VerdictHonest

\* Linker: every object is linked once although libraries need each other, and what an object
\* needs is there up to the first name that was known already; every word of an object all
\* of whose symbols resolve is relocated exactly once; the executable's copy of a library's
\* data is the data after its relocation; and a PLT word holds what binding at start would
\* have put there, whenever it is bound.
LinkedAndRelocatedOnce ==
    focus = "linker" => L!LinkedOnce /\ L!RelocatedOnce /\ L!CopiesFinal /\ L!LazyIsEager
===========================================================================
