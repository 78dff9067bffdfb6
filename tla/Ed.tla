--------------------------------- MODULE Ed ---------------------------------
(***************************************************************************)
(* The editor user/bin/ed.c: the line vector from zero to dol, the current  *)
(* line dot, the addresses of a command, and the commands.                  *)
(*                                                                          *)
(* A word of the vector is the place of a line in the temporary file and    *)
(* the bit that global() sets.  Addresses are offsets from zero.  Input is  *)
(* a sequence of characters.  The code's error is a call that returns, so   *)
(* a command goes on after it has printed "?": the model goes on with it,   *)
(* up to where a command reads or writes beyond the ends of the vector or   *)
(* runs on with a broken expression; there the model stops, with ed.lost    *)
(* set.  One write outside is left out: append() adds 1024 to the word two  *)
(* before the vector, which holds nothing that is modelled here.            *)
(***************************************************************************)
EXTENDS EdRegex, FiniteSetsExt

CONSTANTS Scripts,     \* what may be typed, up to end of file
          Disks,       \* contents of the files, by name
          GrowWords,   \* words that one sbrk() of append() adds to the line vector
          MaxGrow      \* how often sbrk() succeeds

VARIABLE ed            \* the global variables of ed.c

Letters == {"x", "y"}  \* the marks of command k
Digits == [c \in {"0", "1", "2", "3", "4"} |->
             CASE c = "0" -> 0 [] c = "1" -> 1 [] c = "2" -> 2 [] c = "3" -> 3 [] c = "4" -> 4]
NoAddr == -99
CoreMax == GrowWords * MaxGrow
Word(tl) == [tl |-> tl, bit |-> FALSE]
NoWord == Word(-1)
NoLine == <<"eof">>

R(s, c) == [s |-> s, c |-> c]
Then(r, Rest(_, _)) == Rest(r.s, r.c)

Lost(s) == [s EXCEPT !.lost = TRUE]

-----------------------------------------------------------------------------
(* Input                                                                    *)

getchar(s) ==
  IF s.peekc # "" THEN R([s EXCEPT !.peekc = "", !.lastc = s.peekc], s.peekc)
  ELSE IF s.inglob THEN
    IF s.globp # <<>> THEN R([s EXCEPT !.globp = Tail(@), !.lastc = Head(s.globp)], Head(s.globp))
                      ELSE R([s EXCEPT !.inglob = FALSE, !.lastc = ""], "eof")
  ELSE IF s.inp = <<>> THEN R([s EXCEPT !.lastc = "eof"], "eof")
  ELSE R([s EXCEPT !.inp = Tail(@), !.lastc = Head(s.inp)], Head(s.inp))

RECURSIVE SkipLine(_)
SkipLine(s) ==
  Then(getchar(s), LAMBDA t, c : IF c \in {"nl", "eof"} THEN t ELSE SkipLine(t))

errfunc(s) ==
  SkipLine([s EXCEPT !.errs = @ + 1, !.pflag = FALSE, !.inglob = FALSE,
                     !.lastc = IF s.inglob THEN "nl" ELSE @,
                     !.peekc = IF s.inglob THEN "nl" ELSE s.lastc])

ErrIf(s, cond) == IF cond THEN errfunc(s) ELSE s

newline(s) ==
  Then(getchar(s), LAMBDA t, c :
    IF c = "nl" THEN t
    ELSE IF c \in {"p", "l"}
      THEN Then(getchar([t EXCEPT !.pflag = TRUE]), LAMBDA u, d :
             IF d = "nl" THEN u ELSE errfunc(u))
    ELSE errfunc(t))

\* What getchar() would return from here on, for compile() and its callers.
Ahead(s) ==
  (IF s.peekc = "" THEN <<>> ELSE <<s.peekc>>) \o (IF s.inglob THEN s.globp ELSE s.inp)
Skip(s, rest) ==
  IF s.inglob THEN [s EXCEPT !.peekc = "", !.globp = rest]
              ELSE [s EXCEPT !.peekc = "", !.inp = rest]

Compile(s, eof) ==
  With(compile(Ahead(s), eof, s.re), LAMBDA re :
    IF re.bad THEN Lost(errfunc(s)) ELSE [Skip(s, re.rest) EXCEPT !.re = re])

-----------------------------------------------------------------------------
(* The temporary file: putline() and getline() without its blocks           *)

Text(s, w) == s.temp[w.tl + 1]

\* putline() stores up to a newline; linebp is what is behind it.
putline(s, line) ==
  With({k \in DOMAIN line : line[k] = "nl"}, LAMBDA nls :
    R([s EXCEPT !.temp = Append(@, IF nls = {} THEN line ELSE SubSeq(line, 1, Min(nls) - 1)),
                !.linebp = IF nls = {} THEN @ ELSE <<SubSeq(line, Min(nls) + 1, Len(line))>>],
      Word(Len(s.temp))))

-----------------------------------------------------------------------------
(* Addresses                                                                *)

Holds(s, a) == execute(Text(s, s.core[a]), s.re, FALSE, 0).ok

\* The line a search stops at; the loop never ends when no line matches.
Found(s, c) ==
  With({a \in 1 .. s.dol : Holds(s, a)}, LAMBDA hits :
    IF hits = {} THEN NoAddr
    ELSE IF c = "/"
      THEN IF \E a \in hits : a > s.dot THEN Min({a \in hits : a > s.dot}) ELSE Min(hits)
      ELSE IF \E a \in hits : a < s.dot THEN Max({a \in hits : a < s.dot}) ELSE Max(hits))

\* Where the name of a mark is found, dol + 1 if nowhere.
Marked(s, c) ==
  Min({a \in 1 .. s.dol : s.names[c] = s.core[a].tl} \cup {s.dol + 1})

RECURSIVE AddressFrom(_, _, _), DigitsFrom(_, _)
DigitsFrom(s, n) ==
  Then(getchar(s), LAMBDA t, c :
    IF c \in DOMAIN Digits THEN DigitsFrom(t, 10 * n + Digits[c])
                           ELSE R([t EXCEPT !.peekc = c], n))

AddressFrom(s, a1, minus) ==
  IF s.lost THEN R(s, NoAddr) ELSE
  Then(getchar(s), LAMBDA t, c :
    With(IF a1 = NoAddr THEN t.dot ELSE a1, LAMBDA rel :
    With(a1 # NoAddr \/ minus # 0, LAMBDA relerr :
      IF c \in DOMAIN Digits THEN
        Then(DigitsFrom(t, Digits[c]), LAMBDA u, n :
          AddressFrom(u, (IF a1 = NoAddr THEN 0 ELSE a1) + (IF minus < 0 THEN -n ELSE n), 0))
      ELSE IF c = " " THEN AddressFrom(t, a1, minus)
      ELSE IF c = "+" THEN AddressFrom(t, rel, minus + 1)
      ELSE IF c = "-" THEN AddressFrom(t, rel, minus - 1)
      ELSE IF c \in {"/", "?"} THEN
        With(Compile(t, c), LAMBDA u :
          IF u.lost \/ Found(u, c) = NoAddr THEN R(Lost(u), NoAddr)
          ELSE AddressFrom(ErrIf(u, relerr), Found(u, c), minus))
      ELSE IF c = "$" THEN AddressFrom(ErrIf(t, relerr), t.dol, minus)
      ELSE IF c = "." THEN AddressFrom(ErrIf(t, relerr), t.dot, minus)
      ELSE IF c = "'" THEN
        Then(getchar(t), LAMBDA u, d :
          IF d \notin Letters THEN R(Lost(errfunc(u)), NoAddr)
          ELSE AddressFrom(ErrIf(u, relerr), Marked(u, d), minus))
      ELSE With([t EXCEPT !.peekc = c], LAMBDA u :
        IF a1 = NoAddr THEN R(u, NoAddr)
        ELSE R(ErrIf(u, a1 + minus \notin 0 .. u.dol), a1 + minus)))))

address(s) == AddressFrom(s, NoAddr, 0)

\* addr1 and addr2 of a command, and the character behind them.
RECURSIVE Addresses(_)
Addresses(s) ==
  Then(address([s EXCEPT !.addr1 = s.addr2]), LAMBDA t, a1 :
    Then(getchar(t), LAMBDA u, c :
      IF a1 = NoAddr \/ u.lost THEN R(u, c)
      ELSE IF c = ";" THEN Addresses([u EXCEPT !.addr2 = a1, !.dot = a1])
      ELSE IF c = "," THEN Addresses([u EXCEPT !.addr2 = a1])
      ELSE R([u EXCEPT !.addr2 = a1], c)))

setdot(s) ==
  With(IF s.addr2 = NoAddr THEN [s EXCEPT !.addr1 = s.dot, !.addr2 = s.dot] ELSE s,
    LAMBDA t : ErrIf(t, t.addr1 > t.addr2))

setall(s) ==
  setdot(IF s.addr2 # NoAddr THEN s
         ELSE [s EXCEPT !.addr1 = IF s.dol = 0 THEN 0 ELSE 1, !.addr2 = s.dol])

setnoaddr(s) == ErrIf(s, s.addr2 # NoAddr)

\* A command that goes on after this error works outside the vector.
nonzero(s) ==
  IF s.addr1 <= 0 \/ s.addr2 > s.dol THEN Lost(errfunc(s)) ELSE s

-----------------------------------------------------------------------------
(* append() and where its lines come from                                   *)

\* The last word of the vector that is memory of the process.
Room(s) == GrowWords * s.grown - 1

\* endcore is two words before zero, so dol never is below it: every line asks for more core.
Grow(s) == IF s.grown = MaxGrow THEN errfunc(s) ELSE [s EXCEPT !.grown = @ + 1]

\* One turn of the loop of append(): the word goes behind dot.
Insert(s, w) ==
  IF s.dol + 1 > Room(s) THEN Lost(s)
  ELSE [s EXCEPT !.dol = @ + 1, !.dot = @ + 1,
                 !.core = [i \in DOMAIN @ |-> IF i = s.dot + 1 THEN w
                                              ELSE IF i \in s.dot + 2 .. s.dol + 1 THEN @[i - 1]
                                              ELSE @[i]]]

InsertLine(s, line) == Then(putline(Grow(s), line), Insert)

RECURSIVE TypedFrom(_, _)
TypedFrom(s, line) ==
  Then(getchar(s), LAMBDA t, c :
    IF c = "nl" THEN R(t, line) ELSE IF c = "eof" THEN R(t, NoLine)
    ELSE TypedFrom(t, Append(line, c)))

\* gettty(): a line of input, or NoLine for a single dot and at the end.
gettty(s) ==
  Then(TypedFrom(s, <<>>), LAMBDA t, line :
    IF line = NoLine THEN R([t EXCEPT !.peekc = IF s.inglob THEN "eof" ELSE @], NoLine)
    ELSE IF line = <<".">> THEN R(t, NoLine) ELSE R(t, line))

\* getsub(): the rest of a line that a substitution has split.
getsub(s) ==
  IF s.linebp = <<>> THEN R(s, NoLine) ELSE R([s EXCEPT !.linebp = <<>>], s.linebp[1])

\* getcopy(): the next line to copy.
getcopy(s) ==
  IF s.addr1 > s.addr2 THEN R(s, NoLine)
  ELSE R([s EXCEPT !.addr1 = @ + 1], Text(s, s.core[s.addr1]))

\* getfile(): the next line of the open file; what has no newline is not returned.
getfile(s) ==
  With({k \in DOMAIN s.unread : s.unread[k] = "nl"}, LAMBDA nls :
    IF nls = {} THEN R([s EXCEPT !.unread = <<>>], NoLine)
    ELSE R([s EXCEPT !.unread = SubSeq(@, Min(nls) + 1, Len(@))],
           SubSeq(s.unread, 1, Min(nls) - 1)))

Source(f, s) ==
  CASE f = "gettty" -> gettty(s) [] f = "getsub" -> getsub(s)
    [] f = "getcopy" -> getcopy(s) [] f = "getfile" -> getfile(s)

RECURSIVE AppendLoop(_, _)
AppendLoop(f, s) ==
  IF s.lost THEN s
  ELSE Then(Source(f, s), LAMBDA t, line :
         IF line = NoLine THEN t ELSE AppendLoop(f, InsertLine(t, line)))

append(s, f, a) ==
  IF s.lost \/ a \notin 0 .. s.dol THEN Lost(s) ELSE AppendLoop(f, [s EXCEPT !.dot = a])

-----------------------------------------------------------------------------
(* delete() and move()                                                      *)

\* The copy loop runs at least once and upwards, also where the two overlap.
RECURSIVE CopyLoop(_, _, _, _)
CopyLoop(core, a1, a2, a3) ==
  With([core EXCEPT ![a1] = core[a2]], LAMBDA new :
    IF a2 + 1 <= a3 THEN CopyLoop(new, a1 + 1, a2 + 1, a3) ELSE new)

delete(s0) ==
  With(nonzero(newline(setdot(s0))), LAMBDA s :
    IF s.lost \/ s.addr2 + 1 > Room(s) \/ s.dol - (s.addr2 + 1 - s.addr1) > Room(s) THEN Lost(s)
    ELSE With(s.dol - (s.addr2 + 1 - s.addr1), LAMBDA dol :
           [s EXCEPT !.core = CopyLoop(s.core, s.addr1, s.addr2 + 1, s.dol),
                     !.dol = dol,
                     !.dot = IF s.addr1 > dol THEN dol ELSE s.addr1]))

reverse(core, a1, a2) ==
  [i \in DOMAIN core |-> IF i \in a1 .. a2 - 1 THEN core[a1 + a2 - 1 - i] ELSE core[i]]

MoveReversed(s, ad1, ad2, adt) ==
  IF adt < ad1
    THEN [s EXCEPT !.dot = adt + (ad2 - ad1),
                   !.core = IF adt + 1 = ad1 THEN @
                            ELSE reverse(reverse(@, adt + 1, ad1), adt + 1, ad2)]
  ELSE IF adt >= ad2
    THEN [s EXCEPT !.dot = adt,
                   !.core = reverse(reverse(@, ad2, adt + 1), ad1, adt + 1)]
  ELSE errfunc(s)

\* The words from ad1 to ad2 - 1 go behind adt, by three reversals.
MoveWords(s, ad1, ad2, adt) ==
  IF adt < ad1
    THEN [s EXCEPT !.dot = adt + (ad2 - ad1),
                   !.core = IF adt + 1 = ad1 THEN @
                            ELSE reverse(reverse(reverse(@, adt + 1, ad1), ad1, ad2),
                                         adt + 1, ad2)]
  ELSE IF adt >= ad2
    THEN [s EXCEPT !.dot = adt,
                   !.core = reverse(reverse(reverse(@, ad1, ad2), ad2, adt + 1),
                                    ad1, adt + 1)]
  ELSE errfunc(s)

move(s0, cflag) ==
  With(nonzero(setdot(s0)), LAMBDA s1 : IF s1.lost THEN s1 ELSE
    Then(address(s1), LAMBDA s2, adt :
      IF s2.lost \/ adt \notin 0 .. s2.dol THEN Lost(errfunc(s2))
      ELSE With(newline(s2), LAMBDA s :
        IF ~cflag THEN MoveWords(s, s.addr1, s.addr2 + 1, adt)
        ELSE With(append(s, "getcopy", s.dol), LAMBDA t :
               IF t.lost THEN t ELSE MoveWords(t, s.dol + 1, t.dol + 1, adt)))))

-----------------------------------------------------------------------------
(* substitute() and global()                                                *)

\* The replacement, up to the delimiter; an escaped character stands for itself
\* or, as a digit, for a bracket.
RECURSIVE RhsFrom(_, _, _)
RhsFrom(in, seof, rhs) ==
  IF in = <<>> \/ Head(in) = "nl" THEN [bad |-> TRUE, rhs |-> rhs, rest |-> in]
  ELSE IF Head(in) = seof THEN [bad |-> FALSE, rhs |-> rhs, rest |-> Tail(in)]
  ELSE IF Head(in) = "\\" /\ Len(in) > 1
    THEN RhsFrom(SubSeq(in, 3, Len(in)), seof,
           Append(rhs, IF in[2] \in DOMAIN Digits \ {"0"} THEN <<"bra", Digits[in[2]] - 1>>
                                                         ELSE <<"chr", in[2]>>))
  ELSE RhsFrom(Tail(in), seof,
         Append(rhs, IF Head(in) = "&" THEN <<"all", 0>> ELSE <<"chr", Head(in)>>))

\* All the replacements in a line, one or, with the flag g, as many as fit.
RECURSIVE SubLine(_, _, _, _)
SubLine(re, rhs, gsubf, d) ==
  IF ~gsubf \/ d.loc2 = Len(d.line) THEN d.line
  ELSE With(execute(d.line, re, TRUE, d.loc2), LAMBDA r :
         IF r.ok THEN SubLine(re, rhs, gsubf, dosub(d.line, rhs, r)) ELSE d.line)

\* The loop of substitute() from line a1; did is set by a first replacement.
RECURSIVE SubFrom(_, _, _, _, _)
SubFrom(s, rhs, gsubf, a1, did) ==
  IF s.lost \/ a1 > s.addr2 THEN ErrIf(s, ~did /\ ~s.lost)
  ELSE With(Text(s, s.core[a1]), LAMBDA line : With(execute(line, s.re, FALSE, 0), LAMBDA r :
    IF ~r.ok THEN SubFrom(s, rhs, gsubf, a1 + 1, did)
    ELSE Then(putline(s, SubLine(s.re, rhs, gsubf, dosub(line, rhs, r))), LAMBDA t, w :
           With(append([t EXCEPT !.core[a1] = w], "getsub", a1), LAMBDA u :
             SubFrom([u EXCEPT !.addr2 = @ + (u.dot - a1)], rhs, gsubf, u.dot + 1, TRUE)))))

substitute(s0) ==
  With(nonzero(setdot(s0)), LAMBDA s1 : IF s1.lost THEN s1 ELSE
    Then(getchar(s1), LAMBDA s2, seof :
      IF seof = "nl" THEN Lost(errfunc(s2))
      ELSE With(Compile(s2, seof), LAMBDA s3 : IF s3.lost THEN s3 ELSE
        With(RhsFrom(Ahead(s3), seof, <<>>), LAMBDA p :
          IF \/ p.bad
             \/ \E i \in DOMAIN p.rhs :
                  p.rhs[i][1] = "bra" /\ {"BRA", "KET"} \ {x.op : x \in
                      {y \in ToSet(s3.re.exp) : y.op \in {"BRA", "KET"} /\ y.arg = p.rhs[i][2]}} # {}
            THEN Lost(s3)
            ELSE Then(getchar(Skip(s3, p.rest)), LAMBDA s4, g :
                   With(newline(IF g = "g" THEN s4 ELSE [s4 EXCEPT !.peekc = g]), LAMBDA s5 :
                     SubFrom(s5, p.rhs, g = "g", s5.addr1, s0.inglob)))))))

\* The command list of g, where a backslash hides a newline.
RECURSIVE ListFrom(_, _)
ListFrom(in, list) ==
  IF in = <<>> THEN [bad |-> TRUE, list |-> list, rest |-> in]
  ELSE IF Head(in) = "nl" THEN [bad |-> FALSE, list |-> Append(list, "nl"), rest |-> Tail(in)]
  ELSE IF Head(in) = "\\" /\ Len(in) > 1
    THEN ListFrom(SubSeq(in, 3, Len(in)),
                  IF in[2] = "nl" THEN Append(list, "nl") ELSE list \o <<"\\", in[2]>>)
  ELSE ListFrom(Tail(in), Append(list, Head(in)))

\* Marks the lines that match, or do not; the frame keeps the list for them.
global(s0, k) ==
  With(nonzero(setall(s0)), LAMBDA s1 : IF s1.lost \/ s0.inglob THEN Lost(s1) ELSE
    Then(getchar(s1), LAMBDA s2, c :
      IF c = "nl" THEN Lost(errfunc(s2))
      ELSE With(Compile(s2, c), LAMBDA s3 : IF s3.lost THEN s3 ELSE
        With(ListFrom(Ahead(s3), <<>>), LAMBDA p :
          IF p.bad THEN Lost(s3)
          ELSE [Skip(s3, p.rest) EXCEPT
                  !.frames = Append(@, p.list),
                  !.core = [i \in DOMAIN @ |->
                     IF i > s3.dol THEN @[i]
                     ELSE [@[i] EXCEPT !.bit = i \in s3.addr1 .. s3.addr2 /\ Holds(s3, i) = k]]]))))

-----------------------------------------------------------------------------
(* Files                                                                    *)

RECURSIVE NameFrom(_, _)
NameFrom(s, name) ==
  Then(getchar(s), LAMBDA t, c :
    IF c = "eof" \/ (c = "nl" /\ name = <<>>) THEN Lost(t)
    ELSE IF c = " " /\ name = <<>> THEN NameFrom(t, name)
    ELSE IF c # "nl" THEN NameFrom(t, Append(name, c))
    ELSE [t EXCEPT !.file = name, !.savedfile = IF @ = <<>> THEN name ELSE @])

filename(s) ==
  Then(getchar(s), LAMBDA t, c :
    IF c \in {"nl", "eof"} THEN [ErrIf(t, t.savedfile = <<>>) EXCEPT !.file = t.savedfile]
    ELSE IF c # " " THEN Lost(errfunc(t))
    ELSE NameFrom(t, <<>>))

init(s) ==
  [s EXCEPT !.temp = <<>>, !.dot = 0, !.dol = 0, !.grown = 0, !.core = [i \in 0 .. CoreMax |-> NoWord]]

\* caseread: a file that cannot be opened is an error, and reads as empty.
Read(s0) ==
  With(filename(s0), LAMBDA s : IF s.lost THEN s ELSE
    With(s.file \in DOMAIN s.disk, LAMBDA there :
      With(setall(IF there THEN s ELSE errfunc([s EXCEPT !.lastc = "nl"])), LAMBDA t :
        append([t EXCEPT !.unread = IF there THEN t.disk[t.file] ELSE <<>>],
               "getfile", t.addr2))))

Content(s) ==
  FlattenSeq([i \in 1 .. s.addr2 - s.addr1 + 1 |->
                Append(Text(s, s.core[s.addr1 + i - 1]), "nl")])

\* putfile() writes from the start of the file; the kernel's open() leaves the
\* old contents in place, O_TRUNC or not.
putfile(s) ==
  With(IF s.file \in DOMAIN s.disk THEN s.disk[s.file] ELSE <<>>, LAMBDA old :
    With(Content(s), LAMBDA new :
      [s EXCEPT !.disk = (s.file :> (new \o SubSeq(old, Len(new) + 1, Len(old)))) @@ @]))

-----------------------------------------------------------------------------
(* The loop of commands()                                                   *)

Init ==
  \E script \in Scripts, disk \in Disks :
    ed = [inp |-> script, peekc |-> "", lastc |-> "", inglob |-> FALSE, globp |-> <<>>,
          frames |-> <<>>, pflag |-> FALSE, addr1 |-> NoAddr, addr2 |-> NoAddr,
          dot |-> 0, dol |-> 0, grown |-> 0, core |-> [i \in 0 .. CoreMax |-> NoWord],
          temp |-> <<>>, linebp |-> <<>>, unread |-> <<>>,
          re |-> [exp |-> <<>>, circ |-> FALSE, rest |-> <<>>, bad |-> FALSE],
          names |-> [x \in Letters |-> -1], file |-> <<>>, savedfile |-> <<>>,
          disk |-> disk, errs |-> 0, lost |-> FALSE, phase |-> "top", c |-> ""]

\* The addresses and the letter of the next command.
ReadCommand ==
  /\ ed.phase = "top" /\ ~ed.lost
  /\ ed' = IF ed.pflag
             THEN [ed EXCEPT !.pflag = FALSE, !.addr1 = ed.dot, !.addr2 = ed.dot,
                             !.phase = "cmd", !.c = "print"]
             ELSE Then(Addresses([ed EXCEPT !.addr1 = NoAddr, !.addr2 = NoAddr]),
                    LAMBDA s, c : [s EXCEPT !.addr1 = IF @ = NoAddr THEN s.addr2 ELSE @,
                                            !.phase = "cmd", !.c = c])

Cmd(cs) == ed.phase = "cmd" /\ ed.c \in cs /\ ~ed.lost
Becomes(s) == ed' = [s EXCEPT !.phase = "top"]

CmdAppend == Cmd({"a"}) /\ With(newline(setdot(ed)), LAMBDA s : Becomes(append(s, "gettty", s.addr2)))
CmdInsert ==
  Cmd({"i"}) /\ With(newline(nonzero(setdot(ed))), LAMBDA s : Becomes(append(s, "gettty", s.addr2 - 1)))
CmdChange ==
  Cmd({"c"}) /\ With(delete(ed), LAMBDA s : Becomes(append(s, "gettty", s.addr1 - 1)))
CmdDelete == Cmd({"d"}) /\ Becomes(delete(ed))
CmdMove == Cmd({"m", "t"}) /\ Becomes(move(ed, ed.c = "t"))
CmdSubstitute == Cmd({"s"}) /\ Becomes(substitute(ed))
CmdGlobal ==
  Cmd({"g", "v"}) /\ ed' = [global(ed, ed.c = "g") EXCEPT !.phase = "global"]
CmdMark ==
  /\ Cmd({"k"})
  /\ Then(getchar(ed), LAMBDA s, c :
       IF c \notin Letters THEN ed' = Lost(errfunc(s))
       ELSE With(nonzero(setdot(newline(s))), LAMBDA t :
              Becomes(IF t.lost THEN t ELSE [t EXCEPT !.names[c] = t.core[t.addr2].tl])))

\* A bare newline prints the next line or the one addressed, p and l their range.
CmdPrint ==
  /\ Cmd({"nl", "p", "l", "print"})
  /\ With(IF ed.c \in {"p", "l"} THEN newline(ed)
          ELSE IF ed.c = "print" THEN ed
          ELSE [ed EXCEPT !.addr2 = IF @ = NoAddr THEN ed.dot + 1 ELSE @,
                          !.addr1 = IF ed.addr2 = NoAddr THEN ed.dot + 1 ELSE ed.addr2],
       LAMBDA s : With(nonzero(setdot(s)), LAMBDA t : Becomes([t EXCEPT !.dot = t.addr2])))

CmdEdit ==
  /\ Cmd({"e"})
  /\ Then(getchar(setnoaddr(ed)), LAMBDA s, c :
       Becomes(Read([init(ErrIf([s EXCEPT !.peekc = c], c # " ")) EXCEPT
                       !.savedfile = <<>>, !.addr2 = 0])))
CmdRead == Cmd({"r"}) /\ Becomes(Read(ed))
CmdFile ==
  /\ Cmd({"f"})
  /\ Then(getchar(setnoaddr(ed)), LAMBDA s, c :
       Becomes(IF c = "nl" THEN s ELSE filename([s EXCEPT !.peekc = c, !.savedfile = <<>>])))

\* Where open() fails the error is printed and the writes go nowhere.
CmdWrite ==
  /\ Cmd({"w"})
  /\ With(nonzero(setall(ed)), LAMBDA s : IF s.lost THEN ed' = s ELSE
       With(filename(s), LAMBDA t : \E opened \in BOOLEAN :
         Becomes(IF t.lost THEN t ELSE IF opened THEN putfile(t) ELSE errfunc(t))))

CmdCount == Cmd({"="}) /\ Becomes(newline(setall(ed)))
CmdUnix == Cmd({"!"}) /\ Becomes(setnoaddr(ed))
CmdQuit == Cmd({"q"}) /\ ed' = [newline(setnoaddr(ed)) EXCEPT !.phase = "done"]
CmdOther ==
  /\ ed.phase = "cmd" /\ ~ed.lost
  /\ ed.c \notin {"a", "i", "c", "d", "m", "t", "s", "g", "v", "k", "nl", "p", "l", "print",
                  "e", "r", "f", "w", "=", "!", "q", "eof"}
  /\ Becomes(errfunc(ed))

\* End of input: commands() returns, to main() or to the loop of global().
CmdEof ==
  Cmd({"eof"}) /\ ed' = [ed EXCEPT !.phase = IF ed.frames = <<>> THEN "done" ELSE "global"]

\* global() runs its list on the first line still marked, until none is.
NextMarked ==
  /\ ed.phase = "global" /\ ~ed.lost
  /\ With({a \in 0 .. ed.dol : ed.core[a].bit}, LAMBDA marked :
       ed' = IF marked = {} THEN [ed EXCEPT !.frames = Front(@), !.phase = "top"]
             ELSE [ed EXCEPT !.core[Min(marked)].bit = FALSE, !.dot = Min(marked),
                             !.inglob = TRUE, !.globp = Last(ed.frames), !.phase = "top"])

Next ==
  \/ ReadCommand \/ CmdAppend \/ CmdInsert \/ CmdChange \/ CmdDelete \/ CmdMove
  \/ CmdSubstitute \/ CmdGlobal \/ CmdMark \/ CmdPrint \/ CmdEdit \/ CmdRead
  \/ CmdFile \/ CmdWrite \/ CmdCount \/ CmdUnix \/ CmdQuit \/ CmdOther \/ CmdEof
  \/ NextMarked

Spec == Init /\ [][Next]_ed

-----------------------------------------------------------------------------
(* Properties                                                               *)

Tls(s) == [i \in 1 .. s.dol |-> s.core[i].tl]
Texts(s, tls) == [i \in DOMAIN tls |-> s.temp[tls[i] + 1]]

\* Until the first "?" dot stands on a line of the buffer, or on 0 before the first: delete,
\* move, read and global commands all set it anew.
DotInBuffer == ed.errs = 0 /\ ~ed.lost => ed.dot \in 0 .. ed.dol

\* No two words of core name the same line of the temporary file, and every one names a line
\* that is there: the block copies of append, delete and move neither lose nor double one.
WordsDistinct ==
  ed.errs = 0 /\ ~ed.lost =>
    /\ \A i, j \in 1 .. ed.dol : i # j => ed.core[i].tl # ed.core[j].tl
    /\ \A i \in 1 .. ed.dol : ed.core[i].tl + 1 \in DOMAIN ed.temp

\* The range of the command read, with the defaults of setdot().
Lo == IF ed.addr2 = NoAddr THEN ed.dot ELSE ed.addr1
Hi == IF ed.addr2 = NoAddr THEN ed.dot ELSE ed.addr2

Cut(q, a, b) == SubSeq(q, 1, a - 1) \o SubSeq(q, b + 1, Len(q))
Put(q, new, a) == SubSeq(q, 1, a) \o new \o SubSeq(q, a + 1, Len(q))

\* New words stand behind address a of old, and dot is on the last of them.
Grows(old, a) ==
  With(Len(Tls(ed')) - Len(old), LAMBDA n :
    /\ n >= 0
    /\ Tls(ed') = Put(old, SubSeq(Tls(ed'), a + 1, a + n), a)
    /\ ed'.dot = a + n)

\* The lines of the words tls, as a file holds them.
AsFile(s, tls) == FlattenSeq([i \in DOMAIN tls |-> Append(Texts(s, tls)[i], "nl")])

\* The lines from address a to dot are those of a file, which it has up to its last newline.
FileLines(a) ==
  With(ed.disk[ed'.file], LAMBDA text :
    AsFile(ed', SubSeq(Tls(ed'), a + 1, ed'.dot))
      = SubSeq(text, 1, Max({k \in DOMAIN text : text[k] = "nl"} \cup {0})))

\* Where m and t put their lines.
Destination == address(setdot(ed)).c

\* The words of the range whose lines match the expression of a substitution.
Matching(old) == {old[i] : i \in {j \in Lo .. Hi : Holds([ed EXCEPT !.re = ed'.re], j)}}

\* A substitution replaces the words of its range that match by new ones, in their place,
\* and leaves dot on the last of those.
Substituted(old) ==
  With({i \in 1 .. ed'.dol : Tls(ed')[i] \notin ToSet(old)}, LAMBDA made :
    /\ SelectSeq(Tls(ed'), LAMBDA w : w \in ToSet(old))
         = SelectSeq(old, LAMBDA w : w \notin Matching(old))
    /\ made \subseteq Lo .. ed'.dol - (ed.dol - Hi)
    /\ Cardinality(made) >= Cardinality(Matching(old))
    /\ ed'.dot = IF made = {} THEN ed.dot ELSE Max(made))

\* The buffer and dot stay.
Untouched(old) == Tls(ed') = old /\ ed'.dot = ed.dot

\* Until the first "?" every command does to the sequence of lines what it is for: a, i, c,
\* t and r put lines behind an address, t those of its range and r those of the file; e has
\* those of the file only; d takes the range away; m moves it, whole and in order, behind
\* the address it is given (reverse() three times); s replaces the lines of its range that
\* match; w stores its range; p, l and a newline move dot to the line they print; and the
\* others change neither lines nor dot.  Dot is left on the line that was made or moved, or
\* on the one behind what was deleted.
EditsAreSequenceEdits ==
  ed.phase = "cmd" /\ ed'.errs = 0 /\ ~ed'.lost =>
       With(Tls(ed), LAMBDA old :
         CASE ed.c = "a" -> Grows(old, Hi)
           [] ed.c = "i" -> Grows(old, Hi - 1)
           [] ed.c = "c" -> Grows(Cut(old, Lo, Hi), Lo - 1)
           [] ed.c = "r" -> With(IF ed.addr2 = NoAddr THEN ed.dol ELSE Hi, LAMBDA a :
                                 Grows(old, a) /\ FileLines(a))
           [] ed.c = "e" -> ed'.dot = ed'.dol /\ FileLines(0)
           [] ed.c = "d" -> /\ Tls(ed') = Cut(old, Lo, Hi)
                            /\ ed'.dot = IF Lo > ed'.dol THEN ed'.dol ELSE Lo
           [] ed.c = "m" ->
                With(IF Destination < Lo THEN Destination ELSE Destination - (Hi - Lo + 1),
                  LAMBDA at :
                    /\ Tls(ed') = Put(Cut(old, Lo, Hi), SubSeq(old, Lo, Hi), at)
                    /\ ed'.dot = at + (Hi - Lo + 1))
           [] ed.c = "t" ->
                /\ Grows(old, Destination)
                /\ Texts(ed', SubSeq(Tls(ed'), Destination + 1, ed'.dot))
                     = Texts(ed, SubSeq(old, Lo, Hi))
           [] ed.c = "s" -> Substituted(old)
           [] ed.c \in {"p", "l"} -> Tls(ed') = old /\ ed'.dot = Hi
           [] ed.c = "nl" ->
                Tls(ed') = old /\ ed'.dot = IF ed.addr2 = NoAddr THEN ed.dot + 1 ELSE Hi
           [] ed.c = "w" ->
                /\ Untouched(old)
                /\ IsPrefix(AsFile(ed, IF ed.addr2 = NoAddr THEN old ELSE SubSeq(old, Lo, Hi)),
                            ed'.disk[ed'.file])
           [] OTHER -> Untouched(old))

Marks(s) == {s.core[i].tl : i \in {j \in 1 .. s.dol : s.core[j].bit}}

\* While a global command runs, its commands mark no line: the marks global() set are only
\* taken, so every marked line is visited once and the loop ends.
MarksShrink ==
  Len(ed.frames) > 0 /\ Len(ed'.frames) = Len(ed.frames) => Marks(ed') \subseteq Marks(ed)
=============================================================================
