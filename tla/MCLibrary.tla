---------------------------- MODULE MCLibrary ----------------------------
(* The pure algorithms of the program loader, the libraries and the editor *)
(* (EdRegex, Format, Quad, ElfMap, InitCalls, Strings): a call with small  *)
(* arguments is made, the invariants compare its result with a reference   *)
(* definition, and it returns.  The arguments reach every branch.          *)
EXTENDS Integers, Sequences, SequencesExt, TLC

VARIABLE call

Regex == INSTANCE EdRegex WITH NBRA <- 2
Fmt == INSTANCE Format WITH ShortBits <- 3, LongBits <- 5, QuadBits <- 7
Quotient == INSTANCE Quad WITH HALF_BITS <- 2
Elf == INSTANCE ElfMap WITH PAGE_SIZE <- 4, Word <- 1, Aux <- 2
Boots == INSTANCE InitCalls
Str == INSTANCE Strings WITH CHAR_BITS <- 2

Idle == [fn |-> "idle"]
Ready == call.fn = "idle"
Of(fn) == call.fn = fn

-----------------------------------------------------------------------------
Patterns == {Append(p, "/") :
    p \in BoundedSeq({"a", ".", "*", "$", "^"}, 3) \cup BoundedSeq({"a", "b", "[", "]", "^", "*"}, 3)
       \cup {<<"a", "*", "a", "b">>, <<"a", "*", "a", "*">>, <<".", "*", "b", "$">>,
             <<"[", "a", "]", "*", "b">>, <<"[", "^", "a", "]">>, <<"[", "^", "a", "]", "*">>,
             <<"\\", "(", "a", "*", "\\", ")", "b">>, <<"\\", "(", "a", "*", "\\", ")", ".", "*">>,
             <<"\\", "(", "\\", "(", "a", "*", "\\", ")", "b", "\\", ")">>,
             <<"\\", "(", "\\", ")", "a">>, <<"\\", ")">>, <<"a", "\\", "(">>,
             <<"\\", "(", "\\", "(", "\\", "(">>, <<"\\", "*", "a">>}}

Execute == Ready /\ (\E line \in BoundedSeq({"a", "b"}, 3), p \in Patterns :
                   call' = [fn |-> "execute", line |-> line, re |-> p])

-----------------------------------------------------------------------------
Directives == {<<"%">> \o f \o w \o p \o q \o <<c>> :
    f \in BoundedSeq({"-", "0", "#"}, 1) \cup {<<"+">>, <<" ">>, <<"0", "-">>, <<"#", "0">>},
    w \in {<<>>, <<"4">>}, p \in {<<>>, <<".", "2">>}, q \in {<<>>, <<"h">>, <<"l", "l">>},
    c \in {"d", "x", "o", "X"}}
Formats == {<<"a", "%", "%", "%", "n", "b">>, <<"%">>, <<"%", "5">>, <<"%", "z", "a">>,
            <<"%", "p">>, <<"%", "3", "p">>, <<"%", "u", "%", "g">>}

Snprintf == Ready /\ (\E size \in {0, 1, 2, 4, 5, 8} :
    \/ \E fmt \in Directives \cup Formats, n \in {-17, -16, 0, 9, 15, 64} :
         call' = [fn |-> "snprintf", size |-> size, fmt |-> fmt, args |-> <<n>>]
    \/ \E w \in {-3, 3} : call' = [fn |-> "snprintf", size |-> size, args |-> <<w, 2, 5>>,
                                   fmt |-> <<"%", "*", ".", "*", "d">>]
    \/ \E s \in {<<>>, <<"q">>, <<"q", "r", "s">>, <<"NUL">>},
          f \in {<<"%", "s">>, <<"%", ".", "2", "s">>, <<"%", "-", "4", "s">>} :
         call' = [fn |-> "snprintf", size |-> size, args |-> <<s>>, fmt |-> f])

\* what is printed by the first letter is read by the second
Printed == {<<"d", "d">>, <<"u", "u">>, <<"x", "x">>, <<"o", "o">>, <<"i", "d">>, <<"X", "X">>}
Scanf == Ready /\ (\E n \in -16 .. 31 :
    \/ \E w \in {<<>>, <<"4">>, <<"-", "4">>, <<"0", "4">>, <<".", "3">>}, c \in Printed :
         call' = [fn |-> "sscanf", n |-> n, print |-> <<"%">> \o w \o <<c[1]>>,
                  back |-> <<"%", c[2]>>, width |-> IF "4" \in ToSet(w) THEN 4 ELSE 0,
                  sign |-> c[1] \in {"d", "i"}]
    \/ \E c \in {"o", "x"} :
         call' = [fn |-> "sscanf", n |-> n % 32, print |-> <<"%", "#", c>>, back |-> <<"%", "i">>,
                  width |-> 0, sign |-> TRUE])

Iprintf == Ready /\ (\E size \in 1 .. 6 : \E calls \in
                   BoundedSeq({<<<<"%", "2", "d">>, <<5>>>>, <<<<"a", "b">>, <<>>>>,
                               <<<<"%", "s">>, <<<<"q", "r", "s">>>>>>}, 3) :
                   call' = [fn |-> "iprintf", size |-> size, calls |-> calls])

Strtol == Ready /\ (\E s \in BoundedSeq({" ", "-", "0", "1", "5", "x", "a"}, 3)
                          \cup {<<"+", "1", "5", "1">>, <<"-", "0", "x", "a">>, <<"-", "1", "6", "1">>,
                                <<"0", "x", "1", "5">>, <<"-", "1", "6">>, <<"0", "X", "f">>} :
                \E base \in {0, 1, 8, 10, 16, 36} : call' = [fn |-> "strtol", s |-> s, base |-> base])

-----------------------------------------------------------------------------
\* every quotient of four half-words of two bits each
Divide == Ready /\ (\E a \in 0 .. 255, b \in 1 .. 255 :
                      call' = [fn |-> "divide", a |-> a, b |-> b])

Log2 == Ready /\ (\E x \in 0 .. 130 : call' = [fn |-> "log2", x |-> x])

-----------------------------------------------------------------------------
Segment == [vaddr : 8 .. 12, off : 0 .. 3, filesz : 0 .. 5, memsz : {1, 3, 4, 6, 7}, align : {4}]
           \cup [vaddr : {8}, off : {0}, filesz : {2}, memsz : {2}, align : {1, 8}]
Behind(f) == [vaddr |-> 20 + f, off |-> 8 + f, filesz |-> 3, memsz |-> 5, align |-> 4]
Programs == {<<a>> : a \in Segment} \cup {<<a, Behind(f)>> : a \in Segment, f \in {0, 3}}

MapSegments == Ready /\ (\E segs \in Programs, memoff \in {-1, 0, 2} :
                       call' = [fn |-> "segments", segs |-> segs, memoff |-> memoff])

LoadLibrary == Ready /\ (\E segs \in Programs, loc \in {0, 16} :
                       call' = [fn |-> "library", segs |-> segs, loc |-> loc])

Texts == {<<>>, <<"a">>, <<"b", "c">>}
Vectors == BoundedSeq(Texts, 2)
LoadArguments == Ready /\ (\E argv, envp \in Vectors, auxv \in {<<>>, <<"AT_PHDR", "AT_ENTRY">>} :
                         call' = [fn |-> "arguments", argv |-> argv, envp |-> envp, auxv |-> auxv])

-----------------------------------------------------------------------------
Depend == BoundedSeq({"a", "b", "c"}, 2) \cup {<<"z">>}
Boot == Ready /\ (\E a, b, c \in Depend :
                call' = [fn |-> "boot", funcs |-> <<[name |-> "a", deps |-> a],
                                                    [name |-> "b", deps |-> b],
                                                    [name |-> "c", deps |-> c]>>])

-----------------------------------------------------------------------------
Words == BoundedSeq(1 .. 3, 3)
OnStrings == Ready /\ (\E s, t \in Words, n \in 0 .. 4 :
                     call' = [fn |-> "string", s |-> s, t |-> t, n |-> n])

-----------------------------------------------------------------------------
Return == call.fn # "idle" /\ call' = Idle

NoCall == call = Idle

Calls == \/ Execute \/ Snprintf \/ Scanf \/ Iprintf \/ Strtol \/ Divide \/ Log2
         \/ MapSegments \/ LoadLibrary \/ LoadArguments \/ Boot \/ OnStrings \/ Return

-----------------------------------------------------------------------------
\* EdRegex, Format, Quad, Strings: a call of one of the functions gives what its reference
\* definition says.  The backtracking of execute() and advance() finds the leftmost match, and
\* the next match of a global substitution lies behind the last one; vsnprintf keeps to its
\* buffer, ends it with a NUL and returns the whole length, and vsscanf reads back the same
\* number; iprintf appends; strtol gives the value of the digits, held at the limits of long;
\* the division by digits is division and log2 rounds up; comparisons order strings, searches
\* find the first or last place, strtok cuts at separators only, copies keep to their bounds.
FunctionsMatch ==
    /\ Of("execute") => /\ Regex!ExecuteMatches(call.line, call.re)
                        /\ Regex!GlobalAdvances(call.line, call.re)
    /\ Of("snprintf") => Fmt!SnprintfBounded(call.size, call.fmt, call.args)
    /\ Of("sscanf") => Fmt!ReadsBack(call.n, call.print, call.back, call.width, call.sign)
    /\ Of("iprintf") => Fmt!IprintfAppends(call.size, call.calls)
    /\ Of("strtol") => Fmt!StrtolExact(call.s, call.base)
    /\ Of("divide") => Quotient!DividesExactly(call.a, call.b)
    /\ Of("log2") => Quotient!Log2RoundsUp(call.x)
    /\ Of("string") => /\ Str!ComparesAlike(call.s, call.t, call.n)
                       /\ Str!FindsFirst(call.s, call.t)
                       /\ Str!StrtokSplits(call.s, call.t)
                       /\ Str!CopiesBounded(call.s, call.t, call.n)

\* ElfMap: the kernel maps every byte of a program's segments where it belongs, the run-time
\* linker does so for a library within the range it reserved, and the pointers of the new
\* stack lead to argc, argv, envp and the program headers.
ImageLoaded ==
    /\ Of("segments") => Elf!SegmentsLoaded(call.segs, call.memoff)
    /\ Of("library") => Elf!LibrarySegmentsMapped(call.segs, call.loc)
    /\ Of("arguments") => Elf!ArgumentsReadBack(call.argv, call.envp, call.auxv, 6, 100)

\* InitCalls: a boot that gets through calls every function once, after its dependencies, and
\* one that does not stops for the reason its panic names.
BootInOrder == Of("boot") => Boots!BootInOrder(call.funcs) /\ Boots!BootStopsFor(call.funcs)
===========================================================================
