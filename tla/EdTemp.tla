------------------------------- MODULE EdTemp -------------------------------
(***************************************************************************)
(* The temporary file of ed (user/bin/ed.c): putline() and getline(), which *)
(* place lines in blocks, and getblock() and blkio(), which keep two blocks *)
(* in memory, ibuff for reading and obuff for writing.                      *)
(*                                                                          *)
(* A block is scaled from 512 bytes to 2 * Units.  A place (tl) counts      *)
(* units of two bytes.                                                      *)
(***************************************************************************)
EXTENDS Integers, Sequences, FiniteSets, SequencesExt

CONSTANTS Units,       \* units of a block: 256 in the code
          MaxBlock,    \* the block number getblock() refuses: 255
          Lines        \* lines the editor stores, as sequences of bytes

VARIABLES tmp,         \* file, ibuff, obuff, iblock, oblock, ichanged, tline
          stored       \* lines stored so far: [tl, line]

vars == <<tmp, stored>>

Bytes == 2 * Units
NUL == "nul"
Empty == [i \in 0 .. Bytes - 1 |-> NUL]
With(x, Rest(_)) == Rest(x)

\* blkio() seeks to byte b, not to block b.  A short read leaves the rest of
\* the buffer as it was.
WriteBlock(file, b, buf) ==
  [i \in 0 .. (IF Len(file) > b + Bytes THEN Len(file) ELSE b + Bytes) - 1 |->
     IF i \in b .. b + Bytes - 1 THEN buf[i - b]
     ELSE IF i < Len(file) THEN file[i + 1] ELSE NUL]
AsSeq(f) == [i \in 1 .. Cardinality(DOMAIN f) |-> f[i - 1]]
ReadBlock(file, b, buf) ==
  [i \in 0 .. Bytes - 1 |-> IF b + i < Len(file) THEN file[b + i + 1] ELSE buf[i]]

Bno(tl) == tl \div Units
Off(tl) == ((2 * tl) % Bytes) - ((2 * tl) % 4)

BlockUnwritten(t, tl, write) ==
  With(Bno(tl), LAMBDA bno :
    IF bno = t.iblock THEN [t EXCEPT !.ichanged = @ \/ write, !.which = "i"]
    ELSE IF bno = t.oblock THEN [t EXCEPT !.which = "o"]
    ELSE IF ~write
      THEN [t EXCEPT !.ichanged = FALSE, !.iblock = bno,
                     !.ibuff = ReadBlock(t.file, bno, @), !.which = "i"]
      ELSE [t EXCEPT !.oblock = bno, !.which = "o"])

\* The buffer that holds the block of tl afterwards: "i" or "o".
getblock(t, tl, write) ==
  With(Bno(tl), LAMBDA bno :
    IF bno = t.iblock THEN [t EXCEPT !.ichanged = @ \/ write, !.which = "i"]
    ELSE IF bno = t.oblock THEN [t EXCEPT !.which = "o"]
    ELSE IF ~write
      THEN With(IF t.ichanged THEN AsSeq(WriteBlock(t.file, t.iblock, t.ibuff)) ELSE t.file,
             LAMBDA file : [t EXCEPT !.file = file, !.ichanged = FALSE, !.iblock = bno,
                                     !.ibuff = ReadBlock(file, bno, @), !.which = "i"])
      ELSE [t EXCEPT !.file = IF t.oblock >= 0 THEN AsSeq(WriteBlock(@, t.oblock, t.obuff)) ELSE @,
                     !.oblock = bno, !.which = "o"])

Poke(t, off, b) ==
  IF t.which = "i" THEN [t EXCEPT !.ibuff[off] = b] ELSE [t EXCEPT !.obuff[off] = b]
Peek(t, off) == IF t.which = "i" THEN t.ibuff[off] ELSE t.obuff[off]

NextBlock(tl) == (Bno(tl) + 1) * Units

\* The loop of putline(): byte k of the line, or the zero behind it, at off.
RECURSIVE PutFrom(_, _, _, _, _)
PutFrom(t, tl, off, line, k) ==
  IF k > Len(line) THEN Poke(t, off, NUL)
  ELSE IF off + 1 < Bytes THEN PutFrom(Poke(t, off, line[k]), tl, off + 1, line, k + 1)
  ELSE PutFrom(getblock(Poke(t, off, line[k]), NextBlock(tl), TRUE), NextBlock(tl), 0, line, k + 1)

putline(t, line) ==
  [PutFrom(getblock(t, t.tline, TRUE), t.tline, Off(t.tline), line, 1) EXCEPT
     !.tline = @ + ((Len(line) + 4) \div 4) * 2]

RECURSIVE GetFrom(_, _, _, _)
GetFrom(t, tl, off, line) ==
  IF Peek(t, off) = NUL THEN [t |-> t, line |-> line]
  ELSE IF Bno(tl) >= MaxBlock THEN [t |-> t, line |-> line]
  ELSE IF off + 1 < Bytes THEN GetFrom(t, tl, off + 1, Append(line, Peek(t, off)))
  ELSE GetFrom(getblock(t, NextBlock(tl), FALSE), NextBlock(tl), 0, Append(line, Peek(t, off)))

getline(t, tl) == GetFrom(getblock(t, tl, FALSE), tl, Off(tl), <<>>)

Init ==
  /\ tmp = [file |-> <<>>, ibuff |-> Empty, obuff |-> Empty, iblock |-> -1, oblock |-> -1,
            ichanged |-> FALSE, tline |-> 0, which |-> "o"]
  /\ stored = {}

\* A line of the most bytes ends in the block it starts in or in the next.
Put(line) ==
  /\ Bno(tmp.tline + Len(line) \div 2 + 1) < MaxBlock
  /\ tmp' = putline(tmp, line)
  /\ stored' = stored \cup {[tl |-> tmp.tline, line |-> line]}

Get(s) ==
  /\ tmp' = getline(tmp, s.tl).t
  /\ UNCHANGED stored

Next == (\E line \in Lines : Put(line)) \/ (\E s \in stored : Get(s))

Spec == Init /\ [][Next]_vars

\* Every line stored reads back as it was stored, whatever was read before,
\* until block 2 is begun: blkio() then writes block 1 over block 0.
ReadBack ==
  tmp.oblock <= 1 => \A s \in stored : getline(tmp, s.tl).line = s.line

\* Places handed out by putline() do not overlap.
PlacesDisjoint ==
  \A s1, s2 \in stored :
     s1 # s2 => \/ 2 * s1.tl + Len(s1.line) < 2 * s2.tl
                \/ 2 * s2.tl + Len(s2.line) < 2 * s1.tl
=============================================================================
