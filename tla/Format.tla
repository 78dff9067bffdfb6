------------------------------- MODULE Format -------------------------------
(* Numbers and text: vsnprintf, iprintf, vsscanf and the simple_strto*      *)
(* functions of kernel/util/printf.c, their copies in the C library, and    *)
(* strtol.  A string is a sequence of one-character strings, without its    *)
(* NUL; At answers NUL past the end.  int and long have LongBits bits,      *)
(* short and long long ShortBits and QuadBits.                              *)
EXTENDS Integers, Sequences, SequencesExt, FiniteSetsExt, TLC

CONSTANTS ShortBits, LongBits, QuadBits

NUL == "NUL"
With(x, Rest(_)) == Rest(x)
At(s, p) == IF p \in 1..Len(s) THEN s[p] ELSE NUL

(* ctype: the value of a digit in any base up to 36, -1 of anything else.   *)
Letters  == <<"0","1","2","3","4","5","6","7","8","9","a","b","c","d","e","f","g","h","i","j",
              "k","l","m","n","o","p","q","r","s","t","u","v","w","x","y","z">>
Capitals == <<"0","1","2","3","4","5","6","7","8","9","A","B","C","D","E","F","G","H","I","J",
              "K","L","M","N","O","P","Q","R","S","T","U","V","W","X","Y","Z">>
Digit(c) ==
    IF \E i \in 1..36 : Letters[i] = c \/ Capitals[i] = c
    THEN (CHOOSE i \in 1..36 : Letters[i] = c \/ Capitals[i] = c) - 1 ELSE -1
isdigit(c)  == Digit(c) \in 0..9
isxdigit(c) == Digit(c) \in 0..15
isspace(c)  == c = " "

Signed(n, bits)   == IF n % 2^bits >= 2^(bits - 1) THEN (n % 2^bits) - 2^bits ELSE n % 2^bits
Unsigned(n, bits) == n % 2^bits

RECURSIVE Skip(_, _)
Skip(s, p) == IF isspace(At(s, p)) THEN Skip(s, p + 1) ELSE p

-----------------------------------------------------------------------------

(* Numbers from text.  The base is 8 after a 0 and 16 after 0x when the     *)
(* caller gives none.                                                       *)
Base(s, p, base) ==
    IF base # 0 THEN [base |-> base, p |-> p]
    ELSE IF At(s, p) # "0" THEN [base |-> 10, p |-> p]
    ELSE IF At(s, p + 1) = "x" /\ isxdigit(At(s, p + 2)) THEN [base |-> 16, p |-> p + 2]
    ELSE [base |-> 8, p |-> p + 1]

RECURSIVE Accumulate(_, _, _, _, _)
Accumulate(s, p, base, result, bits) ==
    IF isxdigit(At(s, p)) /\ Digit(At(s, p)) < base
    THEN Accumulate(s, p + 1, base, Unsigned(result * base + Digit(At(s, p)), bits), bits)
    ELSE [val |-> result, p |-> p]

StrToU(s, p, base, bits) ==
    With(Base(s, p, base), LAMBDA b : Accumulate(s, b.p, b.base, 0, bits))
StrToS(s, p, base, bits) ==
    IF At(s, p) = "-"
    THEN With(StrToU(s, p + 1, base, bits), LAMBDA r :
              [val |-> Signed(-r.val, bits), p |-> r.p])
    ELSE With(StrToU(s, p, base, bits), LAMBDA r :
              [val |-> Signed(r.val, bits), p |-> r.p])

simple_strtoul(s, p, base)  == StrToU(s, p, base, LongBits)
simple_strtol(s, p, base)   == StrToS(s, p, base, LongBits)
simple_strtoull(s, p, base) == StrToU(s, p, base, QuadBits)
simple_strtoll(s, p, base)  == StrToS(s, p, base, QuadBits)

RECURSIVE skip_atoi(_, _, _)
skip_atoi(s, p, i) ==
    IF isdigit(At(s, p)) THEN skip_atoi(s, p + 1, i * 10 + Digit(At(s, p)))
                         ELSE [val |-> i, p |-> p]

(* strtol: the value is held at the limits of long and errno tells.         *)
RECURSIVE Collect(_, _, _, _, _, _)
Collect(s, p, base, top, acc, any) ==
    IF Digit(At(s, p)) = -1 \/ Digit(At(s, p)) >= base THEN [acc |-> acc, any |-> any, p |-> p]
    ELSE IF any < 0 \/ acc > top \div base
                    \/ (acc = top \div base /\ Digit(At(s, p)) > top % base)
    THEN Collect(s, p + 1, base, top, acc, -1)
    ELSE Collect(s, p + 1, base, top, acc * base + Digit(At(s, p)), 1)

LONG_MAX == 2^(LongBits - 1) - 1

StrtolBase(s, p, base) ==
    IF base \in {0, 16} /\ At(s, p) = "0" /\ At(s, p + 1) \in {"x", "X"} /\ isxdigit(At(s, p + 2))
    THEN [base |-> 16, p |-> p + 2]
    ELSE [base |-> IF base # 0 THEN base ELSE IF At(s, p) = "0" THEN 8 ELSE 10, p |-> p]

Converted(r, neg, nptr) ==
    [val   |-> IF r.any < 0 THEN IF neg THEN -LONG_MAX - 1 ELSE LONG_MAX
               ELSE IF neg THEN -r.acc ELSE r.acc,
     errno |-> IF r.any < 0 THEN "ERANGE" ELSE IF r.any = 0 THEN "EINVAL" ELSE "",
     end   |-> IF r.any # 0 THEN r.p ELSE nptr]

strtol(s, base) ==
    With(Skip(s, 1), LAMBDA q :
    With(StrtolBase(s, IF At(s, q) \in {"-", "+"} THEN q + 1 ELSE q, base), LAMBDA b :
         IF b.base < 2 \/ b.base > 36 THEN [val |-> 0, errno |-> "EINVAL", end |-> 1]
         ELSE Converted(Collect(s, b.p, b.base, IF At(s, q) = "-" THEN LONG_MAX + 1 ELSE LONG_MAX,
                                0, 0), At(s, q) = "-", 1)))

-----------------------------------------------------------------------------
(* Text from numbers.  o holds the cells written so far, the index of the   *)
(* next one, the last one allowed, the arguments left and what %n stored.   *)
Emit(o, c) ==
    [o EXCEPT !.mem = IF o.str <= o.end THEN (o.str :> c) @@ @ ELSE @, !.str = @ + 1]
EmitAll(o, cs) == FoldLeft(Emit, o, cs)
Fill(c, n) == [i \in 1..(IF n > 0 THEN n ELSE 0) |-> c]

RECURSIVE Numeral(_, _, _)
Numeral(n, base, digits) ==
    IF n < base THEN <<digits[n + 1]>>
    ELSE Append(Numeral(n \div base, base, digits), digits[(n % base) + 1])

SignOf(num, type) ==
    CASE "SIGN" \notin type -> <<>>
      [] "SIGN" \in type /\ num < 0 -> <<"-">>
      [] "SIGN" \in type /\ num >= 0 /\ "PLUS" \in type -> <<"+">>
      [] "SIGN" \in type /\ num >= 0 /\ "PLUS" \notin type ->
             IF "SPACE" \in type THEN <<" ">> ELSE <<>>
Prefix(base, type) ==
    CASE "SPECIAL" \in type /\ base = 16 -> <<"0", IF "LARGE" \in type THEN "X" ELSE "x">>
      [] "SPECIAL" \in type /\ base = 8  -> <<"0">>
      [] OTHER -> <<>>

number(num, base, size, precision, type) ==
    With(SignOf(num, type) \o Prefix(base, type), LAMBDA head :
    With(Numeral(IF "SIGN" \in type /\ num < 0 THEN -num ELSE Unsigned(num, QuadBits), base,
                 IF "LARGE" \in type THEN Capitals ELSE Letters), LAMBDA digits :
    With(Max({precision, Len(digits)}), LAMBDA prec :
    With(size - Len(head) - prec, LAMBDA pad :
         (IF type \cap {"ZEROPAD", "LEFT"} = {} THEN Fill(" ", pad) ELSE <<>>)
         \o head
         \o (IF "ZEROPAD" \in type /\ "LEFT" \notin type THEN Fill("0", pad) ELSE <<>>)
         \o Fill("0", prec - Len(digits)) \o digits
         \o (IF "LEFT" \in type THEN Fill(" ", pad) ELSE <<>>)))))

FlagOf(c) ==
    CASE c = "-" -> {"LEFT"} [] c = "+" -> {"PLUS"} [] c = " " -> {"SPACE"}
      [] c = "#" -> {"SPECIAL"} [] c = "0" -> {"ZEROPAD"} [] OTHER -> {}
RECURSIVE Flags(_, _, _)
Flags(fmt, p, flags) ==
    IF FlagOf(At(fmt, p)) = {} THEN [flags |-> flags, p |-> p]
    ELSE Flags(fmt, p + 1, flags \cup FlagOf(At(fmt, p)))

(* A directive is read in the order flags, width, precision, qualifier; d   *)
(* collects it, and a * takes the next argument.                            *)
ReadFlags(fmt, p, args) ==
    With(Flags(fmt, p, {}), LAMBDA r :
         [flags |-> r.flags, p |-> r.p, args |-> args, width |-> -1, prec |-> -1, qual |-> ""])

ReadWidth(fmt, d) ==
    IF isdigit(At(fmt, d.p))
    THEN With(skip_atoi(fmt, d.p, 0), LAMBDA r : [d EXCEPT !.width = r.val, !.p = r.p])
    ELSE IF At(fmt, d.p) = "*"
    THEN [d EXCEPT !.p = @ + 1, !.args = Tail(@),
                   !.width = IF d.args[1] < 0 THEN -d.args[1] ELSE d.args[1],
                   !.flags = IF d.args[1] < 0 THEN @ \cup {"LEFT"} ELSE @]
    ELSE d

ReadPrecision(fmt, d) ==
    IF At(fmt, d.p) # "." THEN d
    ELSE IF isdigit(At(fmt, d.p + 1))
    THEN With(skip_atoi(fmt, d.p + 1, 0), LAMBDA r : [d EXCEPT !.prec = r.val, !.p = r.p])
    ELSE IF At(fmt, d.p + 1) = "*"
    THEN [d EXCEPT !.p = @ + 2, !.args = Tail(@), !.prec = Max({0, d.args[1]})]
    ELSE [d EXCEPT !.p = @ + 1, !.prec = 0]

ReadQualifier(fmt, d) ==
    With(IF At(fmt, d.p) \notin {"h", "l", "L", "Z"} THEN d
         ELSE IF At(fmt, d.p) = "l" /\ At(fmt, d.p + 1) = "l"
         THEN [d EXCEPT !.qual = "L", !.p = @ + 2]
         ELSE [d EXCEPT !.qual = At(fmt, d.p), !.p = @ + 1], LAMBDA e :
         IF At(fmt, e.p) = "q" THEN [e EXCEPT !.qual = "L", !.p = @ + 1] ELSE e)

Directive(fmt, p, args) ==
    ReadQualifier(fmt, ReadPrecision(fmt, ReadWidth(fmt, ReadFlags(fmt, p, args))))

(* The argument of an integer conversion, as the long long given to number. *)
Fetch(arg, qual, sign) ==
    CASE qual = "L" -> Signed(arg, QuadBits)
      [] qual = "Z" -> Unsigned(arg, LongBits)
      [] qual = "h" -> IF sign THEN Signed(arg, ShortBits) ELSE Unsigned(arg, ShortBits)
      [] OTHER      -> IF sign THEN Signed(arg, LongBits) ELSE Unsigned(arg, LongBits)

IntegerConv ==
    [c \in {"o", "X", "x", "d", "i", "u"} |->
        CASE c = "o" -> [base |-> 8,  flags |-> {}]
          [] c = "X" -> [base |-> 16, flags |-> {"LARGE"}]
          [] c = "x" -> [base |-> 16, flags |-> {}]
          [] c = "u" -> [base |-> 10, flags |-> {}]
          [] OTHER   -> [base |-> 10, flags |-> {"SIGN"}]]

Padded(text, width, flags) ==
    IF "LEFT" \in flags THEN text \o Fill(" ", width - Len(text))
                        ELSE Fill(" ", width - Len(text)) \o text
NullText == <<"<", "N", "U", "L", "L", ">">>
Limited(s, prec) == IF prec = -1 \/ prec > Len(s) THEN s ELSE SubSeq(s, 1, prec)

(* What the directive d with conversion letter c writes.                    *)
Text(c, d) ==
    CASE c = "c" -> Padded(<<d.args[1]>>, d.width, d.flags)
      [] c = "s" -> Padded(Limited(IF d.args[1] = <<NUL>> THEN NullText ELSE d.args[1], d.prec),
                           d.width, d.flags)
      [] c = "p" -> IF d.width = -1
                    THEN number(Unsigned(d.args[1], LongBits), 16, LongBits \div 4, d.prec,
                                d.flags \cup {"ZEROPAD"})
                    ELSE number(Unsigned(d.args[1], LongBits), 16, d.width, d.prec, d.flags)
      [] c \in DOMAIN IntegerConv ->
             number(Fetch(d.args[1], d.qual, c \in {"d", "i"}), IntegerConv[c].base,
                    d.width, d.prec, d.flags \cup IntegerConv[c].flags)
      [] c = "n" -> <<>>
      [] c = "%" -> <<"%">>
      [] c = NUL -> <<"%">>
      [] OTHER   -> <<"%", c>>

Takes == {"c", "s", "p", "n"} \cup DOMAIN IntegerConv

(* refused: the conversions that end the call with -1.                      *)
RECURSIVE FormatFrom(_, _, _, _)
FormatFrom(fmt, p, o, refused) ==
    IF p > Len(fmt) THEN o
    ELSE IF fmt[p] # "%" THEN FormatFrom(fmt, p + 1, Emit(o, fmt[p]), refused)
    ELSE With(Directive(fmt, p + 1, o.args), LAMBDA d :
         With(At(fmt, d.p), LAMBDA c :
              IF c \in refused THEN [o EXCEPT !.failed = TRUE]
              ELSE FormatFrom(fmt, d.p + 1,
                     EmitAll([o EXCEPT !.args = IF c \in Takes THEN Tail(d.args) ELSE d.args,
                                       !.n = IF c = "n" THEN Append(@, o.str) ELSE @],
                             Text(c, d)), refused)))

Terminate(o, size) ==
    [o EXCEPT !.mem = IF o.str <= o.end THEN (o.str :> NUL) @@ @
                      ELSE IF size > 0 THEN (o.end :> NUL) @@ @ ELSE @]

(* A size whose end wraps around the address space leaves no limit.         *)
Everything == 1000

Start(size, args) ==
    [mem |-> <<>>, str |-> 0, end |-> IF size = Everything THEN Everything ELSE size - 1,
     args |-> args, n |-> <<>>, failed |-> FALSE]

vsnprintf(size, fmt, args) ==
    With(Terminate(FormatFrom(fmt, 1, Start(size, args), {}), size), LAMBDA o :
         [mem |-> o.mem, ret |-> o.str, n |-> o.n])
vsprintf(fmt, args) == vsnprintf(Everything, fmt, args)

libc_vsnprintf(size, fmt, args) ==
    With(FormatFrom(fmt, 1, Start(size, args), {"f", "F", "g", "G"}), LAMBDA o :
         IF o.failed THEN [mem |-> o.mem, ret |-> -1, n |-> o.n]
         ELSE [mem |-> Terminate(o, size).mem, ret |-> o.str, n |-> o.n])

(* iprintf: appends to a buffer of which at is the next cell and size what  *)
(* is left; b.mem is the whole buffer.                                      *)
iprintf(b, fmt, args) ==
    With(vsnprintf(b.size, fmt, args), LAMBDA r :
    With(Min({r.ret, b.size - 1}), LAMBDA len :
         [mem  |-> [a \in {b.at + i : i \in DOMAIN r.mem} |-> r.mem[a - b.at]] @@ b.mem,
          at   |-> b.at + len, size |-> b.size - len]))

-----------------------------------------------------------------------------
(* vsscanf.  f and s are the places in the format and in the input, out the *)
(* values stored through the arguments, num the count returned.             *)
RECURSIVE ToSpace(_, _)
ToSpace(s, p) == IF At(s, p) = NUL \/ isspace(At(s, p)) THEN p ELSE ToSpace(s, p + 1)

ScanQualifier(fmt, f) ==
    IF At(fmt, f) \notin {"h", "l", "L", "Z", "z"} THEN [qual |-> "", p |-> f]
    ELSE IF At(fmt, f) = "h" /\ At(fmt, f + 1) = "h" THEN [qual |-> "H", p |-> f + 2]
    ELSE IF At(fmt, f) = "l" /\ At(fmt, f + 1) = "l" THEN [qual |-> "L", p |-> f + 2]
    ELSE [qual |-> At(fmt, f), p |-> f + 1]

ScanBase(c) == CASE c = "o" -> 8 [] c \in {"x", "X"} -> 16 [] c = "i" -> 0 [] OTHER -> 10

NoNumber(digit, base) ==
    \/ ~isxdigit(digit)
    \/ base \in {0, 10} /\ ~isdigit(digit)
    \/ base = 8 /\ Digit(digit) > 7

CharBits == ShortBits - 1
Stored(str, s, base, qual, sign) ==
    With(IF qual = "L" THEN IF sign THEN simple_strtoll(str, s, base) ELSE simple_strtoull(str, s, base)
         ELSE IF sign /\ qual \notin {"Z", "z"} THEN simple_strtol(str, s, base)
         ELSE simple_strtoul(str, s, base), LAMBDA r :
    With(CASE qual = "H" -> CharBits [] qual = "h" -> ShortBits
           [] qual = "L" -> QuadBits [] OTHER -> LongBits, LAMBDA bits :
         [r EXCEPT !.val = IF sign /\ qual \notin {"Z", "z"} THEN Signed(@, bits)
                                                             ELSE Unsigned(@, bits)]))

(* One conversion c of the given width at s: what it stores and where it    *)
(* leaves the input; stop ends the call.                                    *)
ScanOne(c, width, qual, str, s) ==
    CASE c = "c" -> With(Min({Len(str) - s + 1, IF width < 1 THEN 1 ELSE width}), LAMBDA n :
                         [s |-> s + n, out |-> <<SubSeq(str, s, s + n - 1)>>, num |-> 1, stop |-> FALSE])
      [] c = "s" -> With(Skip(str, s), LAMBDA q :
                    With(IF width = -1 THEN ToSpace(str, q) ELSE Min({ToSpace(str, q), q + width}),
                         LAMBDA e :
                         [s |-> e, out |-> <<SubSeq(str, q, e - 1)>>, num |-> 1, stop |-> FALSE]))
      [] c = "n" -> [s |-> s, out |-> <<s - 1>>, num |-> 0, stop |-> FALSE]
      [] c = "%" -> [s |-> s + 1, out |-> <<>>, num |-> 0, stop |-> str[s] # "%"]
      [] c \in DOMAIN IntegerConv ->
             With(Skip(str, s), LAMBDA q :
                  IF NoNumber(At(str, IF c \in {"i", "d"} /\ At(str, q) = "-" THEN q + 1 ELSE q),
                              ScanBase(c))
                  THEN [s |-> q, out |-> <<>>, num |-> 0, stop |-> TRUE]
                  ELSE With(Stored(str, q, ScanBase(c), qual, c \in {"i", "d"}), LAMBDA r :
                            [s |-> r.p, out |-> <<r.val>>, num |-> 1, stop |-> FALSE]))
      [] OTHER -> [s |-> s, out |-> <<>>, num |-> 0, stop |-> TRUE]

RECURSIVE ScanFrom(_, _, _)
ScanDirective(str, fmt, v) ==
    IF At(fmt, v.f) = "*"
    THEN ScanFrom(str, fmt, [v EXCEPT !.f = ToSpace(fmt, @), !.s = ToSpace(str, @)])
    ELSE With(IF isdigit(At(fmt, v.f)) THEN skip_atoi(fmt, v.f, 0) ELSE [val |-> -1, p |-> v.f],
              LAMBDA w :
         With(ScanQualifier(fmt, w.p), LAMBDA q :
              IF At(fmt, q.p) = NUL \/ At(str, v.s) = NUL THEN v
              ELSE With(ScanOne(fmt[q.p], w.val, q.qual, str, v.s), LAMBDA r :
                   With([f |-> q.p + 1, s |-> r.s, num |-> v.num + r.num, out |-> v.out \o r.out],
                        LAMBDA n : IF r.stop THEN n ELSE ScanFrom(str, fmt, n)))))

ScanFrom(str, fmt, v) ==
    IF At(fmt, v.f) = NUL \/ At(str, v.s) = NUL THEN v
    ELSE With(IF isspace(At(fmt, v.f)) THEN [v EXCEPT !.f = Skip(fmt, @), !.s = Skip(str, @)]
              ELSE v, LAMBDA w :
         IF At(fmt, w.f) = NUL THEN w
         ELSE IF At(fmt, w.f) = "%" THEN ScanDirective(str, fmt, [w EXCEPT !.f = @ + 1])
         ELSE IF At(fmt, w.f) # At(str, w.s) THEN [w EXCEPT !.f = @ + 1, !.s = @ + 1]
         ELSE ScanFrom(str, fmt, [w EXCEPT !.f = @ + 1, !.s = @ + 1]))

vsscanf(str, fmt) == ScanFrom(str, fmt, [f |-> 1, s |-> 1, num |-> 0, out |-> <<>>])

(* The C library's copy of the scanner is the same text.                    *)
libc_vsscanf(str, fmt) == vsscanf(str, fmt)
-----------------------------------------------------------------------------
(* For every size, vsnprintf writes no cell outside the buffer, ends what   *)
(* it wrote with a NUL unless the size is zero, keeps a prefix of the whole *)
(* text, and returns the length of the whole text.  The C library's copy    *)
(* does the same, but for the conversions it answers with -1.               *)
SnprintfBounded(size, fmt, args) ==
    LET full == vsprintf(fmt, args)
        r    == vsnprintf(size, fmt, args)
        last == Min({full.ret, size - 1})
    IN  /\ r.ret = full.ret
        /\ DOMAIN r.mem = 0..last
        /\ size > 0 => r.mem[last] = NUL
        /\ \A i \in 0..(last - 1) : r.mem[i] = full.mem[i]
        /\ libc_vsnprintf(size, fmt, args).ret # -1 => libc_vsnprintf(size, fmt, args) = r

TextOf(mem) == [i \in 1..(Cardinality(DOMAIN mem) - 1) |-> mem[i - 1]]

(* What a directive prints, vsscanf with the directive back reads as the    *)
(* same number, and a field is never narrower than its width.               *)
ReadsBack(n, print, back, width, sign) ==
    LET r == vsprintf(print, <<n>>)
    IN  /\ r.ret >= width
        /\ libc_vsscanf(TextOf(libc_vsnprintf(Everything, print, <<n>>).mem), back).out =
               vsscanf(TextOf(r.mem), back).out
        /\ vsscanf(TextOf(r.mem), back).out =
               <<IF sign THEN Signed(n, LongBits) ELSE Unsigned(n, LongBits)>>

(* Any run of iprintf calls leaves the text written so far, cut at the end  *)
(* of the buffer, in the buffer, and room for at least the NUL.             *)
IprintfAppends(size, calls) ==
    LET b == FoldLeft(LAMBDA x, c : iprintf(x, c[1], c[2]), [mem |-> <<>>, at |-> 0, size |-> size], calls)
        whole == FoldLeft(LAMBDA x, c : x \o TextOf(vsprintf(c[1], c[2]).mem), <<>>, calls)
    IN  calls # <<>> =>
        /\ b.size >= 1 /\ b.at + b.size = size
        /\ DOMAIN b.mem \subseteq 0..(size - 1)
        /\ b.mem[b.at] = NUL
        /\ b.at = Min({Len(whole), size - 1})
        /\ \A i \in 1..b.at : b.mem[i - 1] = whole[i]

(* strtol gives the value its digits spell, held at the limits of long      *)
(* exactly when it lies beyond them, and stops at the first character that  *)
(* is not a digit of the base.                                              *)
StrtolExact(s, base) ==
    LET r    == strtol(s, base)
        q    == Skip(s, 1)
        neg  == At(s, q) = "-"
        b    == StrtolBase(s, IF At(s, q) \in {"-", "+"} THEN q + 1 ELSE q, base)
        n    == FoldLeft(LAMBDA acc, c : acc * b.base + Digit(c), 0, SubSeq(s, b.p, r.end - 1))
        v    == IF neg THEN -n ELSE n
    IN  r.errno # "EINVAL" =>
          /\ Digit(At(s, r.end)) = -1 \/ Digit(At(s, r.end)) >= b.base
          /\ r.val = Max({-LONG_MAX - 1, Min({LONG_MAX, v})})
          /\ r.errno = "ERANGE" <=> r.val # v
=============================================================================
