------------------------------- MODULE EdRegex -------------------------------
(***************************************************************************)
(* The regular expressions of ed (user/bin/ed.c): compile(), execute(),     *)
(* advance(), cclass() and the substitution dosub().                        *)
(*                                                                          *)
(* A line and a pattern are sequences of characters.  A compiled expression *)
(* is a sequence of items, the bytes of expbuf up to CEOF: op is CHR, DOT,  *)
(* DOL, CCL, NCCL, BRA or KET, arg the character, set of characters or      *)
(* number of the bracket, and star the STAR bit of the op.  Positions are   *)
(* offsets from the start of linebuf.                                       *)
(***************************************************************************)
EXTENDS Integers, Sequences, FiniteSets, SequencesExt

CONSTANT NBRA          \* brackets an expression may have

NoPos == -1
With(x, Rest(_)) == Rest(x)

Item(op, arg) == [op |-> op, arg |-> arg, star |-> FALSE]

-----------------------------------------------------------------------------
(* compile(): in is what follows the opening delimiter eof.  The result has *)
(* the rest of the input, and bad when the code calls error: what it then   *)
(* leaves in expbuf is not an expression.  (A star after a bracket is       *)
(* reported and then compiled all the same, to an op advance() does not     *)
(* know; here it ends the compilation like the other errors.)               *)

Compiled(exp, circ, rest) == [exp |-> exp, circ |-> circ, rest |-> rest, bad |-> FALSE]
Cerror(rest) == [exp |-> <<>>, circ |-> FALSE, rest |-> rest, bad |-> TRUE]

\* Characters up to the closing bracket of a class, the first one always taken.
ClassEnd(in) ==
  LET ends == {k \in 2 .. Len(in) : in[k] = "]"}
  IN IF ends = {} THEN 0 ELSE CHOOSE k \in ends : \A j \in ends : k <= j

RECURSIVE CompileFrom(_, _, _, _, _, _)
CompileFrom(in, eof, exp, circ, open, nbra) ==
  IF in = <<>> \/ Head(in) = "nl" THEN Cerror(in)
  ELSE IF Head(in) = eof THEN Compiled(exp, circ, Tail(in))
  ELSE IF Head(in) = "\\" /\ Len(in) > 1 THEN
         IF in[2] = "(" THEN
           IF nbra >= NBRA THEN Cerror(in)
           ELSE CompileFrom(SubSeq(in, 3, Len(in)), eof, Append(exp, Item("BRA", nbra)),
                            circ, Append(open, nbra), nbra + 1)
         ELSE IF in[2] = ")" THEN
           IF open = <<>> THEN Cerror(in)
           ELSE CompileFrom(SubSeq(in, 3, Len(in)), eof,
                            Append(exp, Item("KET", Last(open))), circ, Front(open), nbra)
         ELSE IF in[2] = "nl" THEN Cerror(in)
         ELSE CompileFrom(SubSeq(in, 3, Len(in)), eof, Append(exp, Item("CHR", in[2])),
                          circ, open, nbra)
  ELSE IF Head(in) = "." THEN
         CompileFrom(Tail(in), eof, Append(exp, Item("DOT", 0)), circ, open, nbra)
  ELSE IF Head(in) = "*" THEN
         IF Last(exp).op \in {"BRA", "KET"} THEN Cerror(in)
         ELSE CompileFrom(Tail(in), eof, [exp EXCEPT ![Len(exp)].star = TRUE],
                          circ, open, nbra)
  ELSE IF Head(in) = "$" /\ Len(in) > 1 /\ in[2] = eof THEN
         CompileFrom(Tail(in), eof, Append(exp, Item("DOL", 0)), circ, open, nbra)
  ELSE IF Head(in) = "[" THEN
         With(IF Len(in) > 1 /\ in[2] = "^" THEN 2 ELSE 1, LAMBDA skip :
           With(SubSeq(in, skip + 1, Len(in)), LAMBDA class :
             With(ClassEnd(class), LAMBDA k :
               IF k = 0 \/ "nl" \in ToSet(SubSeq(class, 1, k)) THEN Cerror(in)
               ELSE CompileFrom(SubSeq(class, k + 1, Len(class)), eof,
                      Append(exp, Item(IF skip = 2 THEN "NCCL" ELSE "CCL",
                                       ToSet(SubSeq(class, 1, k - 1)))),
                      circ, open, nbra))))
  ELSE CompileFrom(Tail(in), eof, Append(exp, Item("CHR", Head(in))), circ, open, nbra)

\* An empty expression stands for the one compiled last, held in old.
compile(in, eof, old) ==
  IF in # <<>> /\ Head(in) = eof
    THEN IF old.exp = <<>> THEN Cerror(in) ELSE [old EXCEPT !.rest = Tail(in)]
    ELSE With(in # <<>> /\ Head(in) = "^", LAMBDA circ :
           With(IF circ THEN Tail(in) ELSE in, LAMBDA body :
             IF body # <<>> /\ Head(body) = "*" THEN Cerror(body)
             ELSE CompileFrom(body, eof, <<>>, circ, <<>>, 0)))

-----------------------------------------------------------------------------
(* advance() and execute()                                                  *)

\* The character at offset p, or the terminating zero.
At(line, p) == IF p < Len(line) THEN line[p + 1] ELSE "nul"

\* One character accepted by a simple item.
Accepts(item, c) ==
  /\ c # "nul"
  /\ CASE item.op = "CHR" -> c = item.arg
       [] item.op = "DOT" -> TRUE
       [] item.op = "CCL" -> c \in item.arg
       [] item.op = "NCCL" -> c \notin item.arg

Fail == [ok |-> FALSE, loc2 |-> NoPos, bras |-> <<>>, braes |-> <<>>]

\* bras and braes are braslist and braelist as far as this attempt set them.
RECURSIVE advance(_, _, _, _, _, _, _)
advance(line, lp, exp, k, locs, bras, braes) ==
  IF k > Len(exp) THEN [ok |-> TRUE, loc2 |-> lp, bras |-> bras, braes |-> braes]
  ELSE IF exp[k].op = "DOL" THEN
         IF At(line, lp) = "nul" THEN advance(line, lp, exp, k + 1, locs, bras, braes)
                                 ELSE Fail
  ELSE IF exp[k].op = "BRA" THEN
         advance(line, lp, exp, k + 1, locs, [bras EXCEPT ![exp[k].arg] = lp], braes)
  ELSE IF exp[k].op = "KET" THEN
         advance(line, lp, exp, k + 1, locs, bras, [braes EXCEPT ![exp[k].arg] = lp])
  ELSE IF ~exp[k].star THEN
         IF Accepts(exp[k], At(line, lp))
           THEN advance(line, lp + 1, exp, k + 1, locs, bras, braes) ELSE Fail
  ELSE \* star: from the longest run of the item back to none, not below locs
       LET run == CHOOSE e \in lp .. Len(line) :
                    /\ \A p \in lp .. e - 1 : Accepts(exp[k], At(line, p))
                    /\ ~Accepts(exp[k], At(line, e))
           down[p \in lp - 1 .. run] ==
             IF p < lp \/ p = locs THEN Fail
             ELSE LET r == advance(line, p, exp, k + 1, locs, bras, braes)
                  IN IF r.ok THEN r ELSE down[p - 1]
       IN down[run]

NoBra == [i \in 0 .. NBRA - 1 |-> NoPos]

\* The leftmost start at or after p1 from which advance() succeeds.  The test
\* of the first character skips only starts advance() would reject.
RECURSIVE Search(_, _, _, _)
Search(line, p1, exp, locs) ==
  LET r == advance(line, p1, exp, 1, locs, NoBra, NoBra)
  IN IF r.ok THEN r @@ [loc1 |-> p1]
     ELSE IF p1 = Len(line) THEN Fail @@ [loc1 |-> NoPos]
     ELSE Search(line, p1 + 1, exp, locs)

\* from is 0 for a fresh line (gf = 0), or loc2 after a substitution (gf = 1).
execute(line, re, gf, from) ==
  IF gf /\ re.circ THEN Fail @@ [loc1 |-> NoPos]
  ELSE IF re.circ
    THEN advance(line, 0, re.exp, 1, NoPos, NoBra, NoBra) @@ [loc1 |-> 0]
    ELSE Search(line, from, re.exp, IF gf THEN from ELSE NoPos)

-----------------------------------------------------------------------------
(* Substitution                                                             *)

\* What rhsbuf puts in place of the match: <<"chr", c>>, <<"all", 0>> for an
\* ampersand and <<"bra", n>> for a bracket.
Expand(line, rhs, r) ==
  FlattenSeq([i \in DOMAIN rhs |->
    CASE rhs[i][1] = "chr" -> <<rhs[i][2]>>
      [] rhs[i][1] = "all" -> SubSeq(line, r.loc1 + 1, r.loc2)
      [] rhs[i][1] = "bra" -> SubSeq(line, r.bras[rhs[i][2]] + 1, r.braes[rhs[i][2]])])

\* dosub(): the new line and the offset behind the replacement.
dosub(line, rhs, r) ==
  With(SubSeq(line, 1, r.loc1) \o Expand(line, rhs, r), LAMBDA head :
    [line |-> head \o SubSeq(line, r.loc2 + 1, Len(line)), loc2 |-> Len(head)])

-----------------------------------------------------------------------------
(* A second reading of a compiled expression: the positions where a match   *)
(* can stand after each item, all at once instead of by backtracking.       *)

Step(line, P, item) ==
  CASE item.op = "DOL" -> P \cap {Len(line)}
    [] item.op \in {"BRA", "KET"} -> P
    [] item.star -> {e \in 0 .. Len(line) : \E q \in P : q <= e
                        /\ \A p \in q .. e - 1 : Accepts(item, At(line, p))}
    [] OTHER -> {q + 1 : q \in {p \in P : Accepts(item, At(line, p))}}

Ends(line, exp, p) == FoldLeft(LAMBDA P, item : Step(line, P, item), {p}, exp)

\* Where a match may begin.
Begins(line, re) ==
  {p \in IF re.circ THEN {0} ELSE 0 .. Len(line) : Ends(line, re.exp, p) # {}}

\* The backtracking of advance() and the walk of execute() lose no match: a line matches
\* exactly when some start does, loc1 is the leftmost of them, loc2 a place where a match
\* from there ends, and a bracket that was closed lies between the two.
ExecuteMatches(line, in) ==
  LET re == compile(in, "/", Cerror(<<>>))
      r == execute(line, re, FALSE, 0)
      begins == Begins(line, re)
  IN ~re.bad =>
       /\ r.ok <=> begins # {}
       /\ r.ok => /\ r.loc1 \in begins /\ \A p \in begins : r.loc1 <= p
                  /\ r.loc2 \in Ends(line, re.exp, r.loc1)
                  /\ \A k \in DOMAIN re.exp : re.exp[k].op = "KET" =>
                       LET n == re.exp[k].arg
                       IN r.loc1 <= r.bras[n] /\ r.bras[n] <= r.braes[n]
                                             /\ r.braes[n] <= r.loc2

\* A global substitution goes on behind what it replaced and gets on: the next match does not
\* begin before loc2, and one of an expression with a starred item, which could match nothing
\* for ever, ends behind it (the test against locs).
GlobalAdvances(line, in) ==
  LET re == compile(in, "/", Cerror(<<>>))
  IN ~re.bad => \A from \in 0 .. Len(line) :
       LET r == execute(line, re, TRUE, from)
       IN r.ok => /\ ~re.circ
                  /\ r.loc1 >= from
                  /\ r.loc2 > from \/ (\A k \in DOMAIN re.exp : ~re.exp[k].star)
=============================================================================
