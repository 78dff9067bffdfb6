--------------------------- MODULE VirtTerm_proofs ---------------------------
(* VirtTerm for displays of any size, any number of terminals and any       *)
(* buffer with two rows more than the display.  The first half takes the    *)
(* modular arithmetic of the ring apart into cases that are linear; then    *)
(* one lemma for each thing that happens to a terminal; then the invariant. *)
EXTENDS VirtTerm, TLAPS

(* The positions of the ring, and the numbers that are whole rows.          *)
Pos == 0..(SCROLL_BUFSIZE - 1)
Whole(p) == \E r \in Int : p = DISPLAY_WIDTH * r

(* What the sizes of the display and of the buffer come to, without         *)
(* products.                                                                *)
LEMMA Sizes ==
    ASSUME SizesOK
    PROVE  /\ DISPLAY_WIDTH \in Nat /\ DISPLAY_WIDTH >= 1
           /\ SCROLL_BUFSIZE \in Nat /\ DISPLAY_SIZE \in Nat
           /\ DISPLAY_SIZE >= DISPLAY_WIDTH
           /\ SCROLL_BUFSIZE >= DISPLAY_SIZE + 2 * DISPLAY_WIDTH
  BY SMT DEF SizesOK, SCROLL_BUFSIZE, DISPLAY_SIZE

(* % of a number below three times the modulus is at most two subtractions. *)
LEMMA Remainder ==
    ASSUME NEW m \in Nat, m >= 1, NEW x \in Int, 0 <= x, x < 3 * m
    PROVE  /\ x < m => x % m = x
           /\ m <= x /\ x < 2 * m => x % m = x - m
           /\ 2 * m <= x => x % m = x - 2 * m
  BY SMT

(* A number is a multiple of the width exactly if the remainder is zero.    *)
LEMMA WholeIs ==
    ASSUME SizesOK, NEW p \in Int
    PROVE  p % DISPLAY_WIDTH = 0 <=> Whole(p)
<1>1. \A w \in Nat : w >= 1 => /\ p = w * (p \div w) + (p % w)
                              /\ p \div w \in Int /\ p % w \in Int BY SMT
<1>2. \A w \in Nat : w >= 1 => \A r \in Int : (w * r) % w = 0 BY SMT
<1>3. p % DISPLAY_WIDTH = 0 => Whole(p)
  <2> DEFINE d == p \div DISPLAY_WIDTH
             m == p % DISPLAY_WIDTH
  <2>1. p = DISPLAY_WIDTH * d + m /\ d \in Int /\ m \in Int BY <1>1, Sizes
  <2> HIDE DEF d, m
  <2>2. m = 0 => p = DISPLAY_WIDTH * d BY <2>1, Sizes, SMT
  <2>3. QED BY <2>1, <2>2 DEF Whole, m
<1>4. Whole(p) => p % DISPLAY_WIDTH = 0 BY <1>2, Sizes DEF Whole
<1>5. QED BY <1>3, <1>4

(* Two different row starts are at least one width apart.                   *)
LEMMA WholeGap ==
    ASSUME SizesOK, NEW p \in Int, NEW q \in Int, Whole(p), Whole(q), p < q
    PROVE  p + DISPLAY_WIDTH <= q
<1>1. PICK r \in Int : p = DISPLAY_WIDTH * r BY DEF Whole
<1>2. PICK s \in Int : q = DISPLAY_WIDTH * s BY DEF Whole
<1>3. r + 1 <= s BY <1>1, <1>2, Sizes, SMT
<1>4. QED BY <1>1, <1>2, <1>3, Sizes, SMT

(* Sums and differences of row starts are row starts.                       *)
LEMMA WholeSum ==
    ASSUME SizesOK, NEW p \in Int, NEW q \in Int, Whole(p), Whole(q)
    PROVE  Whole(p + q) /\ Whole(p - q)
<1>1. PICK r \in Int : p = DISPLAY_WIDTH * r BY DEF Whole
<1>2. PICK s \in Int : q = DISPLAY_WIDTH * s BY DEF Whole
<1>3. p + q = DISPLAY_WIDTH * (r + s) /\ p - q = DISPLAY_WIDTH * (r - s)
  BY <1>1, <1>2, Sizes, SMT
<1>4. r + s \in Int /\ r - s \in Int OBVIOUS
<1>5. QED BY <1>3, <1>4 DEF Whole

(* What next_row computes: the end of the row that position i is in, around *)
(* the end of the buffer.                                                   *)
LEMMA RowStart ==
    ASSUME SizesOK, NEW i \in Pos
    PROVE  LET r == (i \div DISPLAY_WIDTH) * DISPLAY_WIDTH
           IN  /\ r \in Int /\ Whole(r) /\ 0 <= r /\ r <= i /\ i < r + DISPLAY_WIDTH
               /\ r + DISPLAY_WIDTH <= SCROLL_BUFSIZE
               /\ next_row(i) = IF r + DISPLAY_WIDTH = SCROLL_BUFSIZE THEN 0
                                ELSE r + DISPLAY_WIDTH
<1> DEFINE d == i \div DISPLAY_WIDTH
           r == d * DISPLAY_WIDTH
<1>0. i \in Int /\ 0 <= i /\ i < SCROLL_BUFSIZE BY Sizes, SMT DEF Pos
<1>1. \A w \in Nat : w >= 1 => /\ i \div w \in Int /\ 0 <= i \div w
                                /\ (i \div w) * w <= i /\ i < (i \div w) * w + w BY <1>0, SMT
<1>2. d \in Int /\ 0 <= d /\ r <= i /\ i < r + DISPLAY_WIDTH BY <1>1, Sizes
<1> HIDE DEF d
<1>3. r = DISPLAY_WIDTH * d /\ 0 <= r /\ r \in Int BY <1>2, Sizes, SMT
<1>4. Whole(r) BY <1>2, <1>3 DEF Whole
<1>5. Whole(SCROLL_BUFSIZE) BY Sizes, SMT DEF Whole, SCROLL_BUFSIZE, SizesOK
<1>6. r + DISPLAY_WIDTH <= SCROLL_BUFSIZE
  <2> HIDE DEF r
  <2>1. r < SCROLL_BUFSIZE BY <1>0, <1>2, <1>3, Sizes
  <2>2. QED BY <2>1, <1>3, <1>4, <1>5, Sizes, WholeGap
<1>7. (d + 1) * DISPLAY_WIDTH = r + DISPLAY_WIDTH BY <1>2, Sizes, SMT
<1>8. next_row(i) = (r + DISPLAY_WIDTH) % SCROLL_BUFSIZE BY <1>7 DEF next_row, d
<1>9. next_row(i) = IF r + DISPLAY_WIDTH = SCROLL_BUFSIZE THEN 0 ELSE r + DISPLAY_WIDTH
  <2> HIDE DEF r
  <2> DEFINE x == r + DISPLAY_WIDTH
             m == x % SCROLL_BUFSIZE
  <2>1. x \in Int /\ 0 <= x /\ x <= SCROLL_BUFSIZE /\ SCROLL_BUFSIZE >= 1
    BY <1>3, <1>6, Sizes, SMT
  <2>2. x < 3 * SCROLL_BUFSIZE BY <2>1, Sizes, SMT
  <2>3. /\ x < SCROLL_BUFSIZE => m = x
        /\ SCROLL_BUFSIZE <= x /\ x < 2 * SCROLL_BUFSIZE => m = x - SCROLL_BUFSIZE
    <3> HIDE DEF x
    <3>1. QED BY Zenon, <2>1, <2>2, Sizes, Remainder
  <2>4. next_row(i) = m BY <1>8
  <2> HIDE DEF x, m
  <2>5. next_row(i) = IF x = SCROLL_BUFSIZE THEN 0 ELSE x BY <2>1, <2>3, <2>4, Sizes, SMT
  <2>6. QED BY <2>5 DEF x
<1>10. QED BY <1>2, <1>3, <1>4, <1>6, <1>9 DEF d

(* One turn around the buffer, as circ_dist and buf_add compute it.         *)
LEMMA Around ==
    ASSUME SizesOK, NEW x \in Int, -SCROLL_BUFSIZE <= x, x < 2 * SCROLL_BUFSIZE
    PROVE  (x + SCROLL_BUFSIZE) % SCROLL_BUFSIZE =
               IF x < 0 THEN x + SCROLL_BUFSIZE
               ELSE IF x < SCROLL_BUFSIZE THEN x ELSE x - SCROLL_BUFSIZE
<1> DEFINE y == x + SCROLL_BUFSIZE
           m == y % SCROLL_BUFSIZE
<1>1. y \in Int /\ 0 <= y /\ y < 3 * SCROLL_BUFSIZE /\ SCROLL_BUFSIZE >= 1 BY Sizes, SMT
<1>2. /\ y < SCROLL_BUFSIZE => m = y
      /\ SCROLL_BUFSIZE <= y /\ y < 2 * SCROLL_BUFSIZE => m = y - SCROLL_BUFSIZE
      /\ 2 * SCROLL_BUFSIZE <= y => m = y - 2 * SCROLL_BUFSIZE
  <2> HIDE DEF y
  <2>1. QED BY <1>1, Sizes, Remainder
<1> HIDE DEF m
<1>3. m = IF x < 0 THEN x + SCROLL_BUFSIZE
          ELSE IF x < SCROLL_BUFSIZE THEN x ELSE x - SCROLL_BUFSIZE
  BY <1>1, <1>2, Sizes, SMT
<1>4. QED BY <1>3 DEF m

(* circ_dist without %.                                                     *)
LEMMA Distance ==
    ASSUME SizesOK, NEW a \in Pos, NEW b \in Pos
    PROVE  circ_dist(a, b) = IF b <= a THEN a - b ELSE a - b + SCROLL_BUFSIZE
<1> DEFINE x == a - b
<1>0. a \in Int /\ b \in Int /\ 0 <= a /\ 0 <= b /\ a < SCROLL_BUFSIZE /\ b < SCROLL_BUFSIZE
  BY Sizes, SMT DEF Pos
<1>1. x \in Int /\ -SCROLL_BUFSIZE <= x /\ x < SCROLL_BUFSIZE /\ x < 2 * SCROLL_BUFSIZE
  BY <1>0, Sizes, SMT
<1>2. circ_dist(a, b) = (x + SCROLL_BUFSIZE) % SCROLL_BUFSIZE BY DEF circ_dist
<1>3. circ_dist(a, b) = IF x < 0 THEN x + SCROLL_BUFSIZE
                        ELSE IF x < SCROLL_BUFSIZE THEN x ELSE x - SCROLL_BUFSIZE
  <2> HIDE DEF x
  <2>1. QED BY <1>1, <1>2, Around
<1>4. QED BY <1>0, <1>1, <1>3, Sizes, SMT

(* buf_add without %.                                                       *)
LEMMA Added ==
    ASSUME SizesOK, NEW p \in Pos, NEW n \in Int, -SCROLL_BUFSIZE <= n, n < SCROLL_BUFSIZE
    PROVE  buf_add(p, n) = IF p + n < 0 THEN p + n + SCROLL_BUFSIZE
                           ELSE IF p + n < SCROLL_BUFSIZE THEN p + n ELSE p + n - SCROLL_BUFSIZE
<1> DEFINE x == p + n
<1>1. x \in Int /\ -SCROLL_BUFSIZE <= x /\ x < 2 * SCROLL_BUFSIZE BY Sizes, SMT DEF Pos
<1>2. buf_add(p, n) = (x + SCROLL_BUFSIZE) % SCROLL_BUFSIZE BY DEF buf_add
<1>3. buf_add(p, n) = IF x < 0 THEN x + SCROLL_BUFSIZE
                      ELSE IF x < SCROLL_BUFSIZE THEN x ELSE x - SCROLL_BUFSIZE
  <2> HIDE DEF x
  <2>1. QED BY <1>1, <1>2, Around
<1>4. QED BY <1>3, <1>1, Sizes, SMT DEF Pos

(* What is true of every terminal at any time.                              *)
Good(vt) ==
    /\ vt \in [head : Pos, tail : Pos, top : Pos, cursor : Pos,
               buf : [Pos -> Printable \cup {BLANK}]]
    /\ Whole(vt.head) /\ Whole(vt.tail) /\ Whole(vt.top)
    /\ vt.head # vt.tail
    /\ circ_dist(vt.cursor, vt.head) < circ_dist(vt.tail, vt.head)

(* Membership in the ring as two inequalities.                              *)
LEMMA PosIs ==
    ASSUME SizesOK, NEW p
    PROVE  p \in Pos <=> p \in Int /\ 0 <= p /\ p < SCROLL_BUFSIZE
  BY Sizes, SMT DEF Pos

(* The sizes themselves are whole rows.                                     *)
LEMMA WholeSizes ==
    ASSUME SizesOK
    PROVE  Whole(0) /\ Whole(DISPLAY_WIDTH) /\ Whole(DISPLAY_SIZE) /\ Whole(SCROLL_BUFSIZE)
<1>1. 0 = DISPLAY_WIDTH * 0 /\ DISPLAY_WIDTH = DISPLAY_WIDTH * 1 BY Sizes, SMT
<1>2. DISPLAY_HEIGHT \in Int /\ ScrollRows \in Int BY SMT DEF SizesOK
<1>3. Whole(0) BY <1>1, 0 \in Int DEF Whole
<1>4. Whole(DISPLAY_WIDTH) BY <1>1, 1 \in Int DEF Whole
<1>5. Whole(DISPLAY_SIZE) BY <1>2 DEF Whole, DISPLAY_SIZE
<1>6. Whole(SCROLL_BUFSIZE) BY <1>2 DEF Whole, SCROLL_BUFSIZE
<1>7. QED BY <1>3, <1>4, <1>5, <1>6

(* next_row is the nearest row start after i: no other is passed on the way *)
(* to it.                                                                   *)
LEMMA NextRow ==
    ASSUME SizesOK, NEW i \in Pos
    PROVE  /\ next_row(i) \in Pos /\ Whole(next_row(i))
           /\ \A t \in Pos : Whole(t) /\ t # i => circ_dist(next_row(i), i) <= circ_dist(t, i)
           /\ circ_dist(next_row(i), i) >= 1 /\ circ_dist(next_row(i), i) <= DISPLAY_WIDTH
           /\ Whole(i) => next_row(i) = IF i + DISPLAY_WIDTH = SCROLL_BUFSIZE THEN 0
                                        ELSE i + DISPLAY_WIDTH
           /\ (i \div DISPLAY_WIDTH) * DISPLAY_WIDTH \in Pos
<1>0. PICK r : /\ r = (i \div DISPLAY_WIDTH) * DISPLAY_WIDTH
               /\ r \in Int /\ Whole(r) /\ 0 <= r /\ r <= i /\ i < r + DISPLAY_WIDTH
               /\ r + DISPLAY_WIDTH <= SCROLL_BUFSIZE
               /\ next_row(i) = IF r + DISPLAY_WIDTH = SCROLL_BUFSIZE THEN 0
                                ELSE r + DISPLAY_WIDTH
  BY RowStart
<1>1. i \in Int /\ 0 <= i /\ i < SCROLL_BUFSIZE BY PosIs
<1>2. next_row(i) \in Pos /\ r \in Pos BY <1>0, <1>1, Sizes, PosIs, SMT
<1>3. Whole(next_row(i))
  <2>1. Whole(r + DISPLAY_WIDTH) BY <1>0, Sizes, WholeSizes, WholeSum
  <2>2. QED BY <1>0, <2>1, WholeSizes
<1>4. circ_dist(next_row(i), i) = r + DISPLAY_WIDTH - i
  <2>1. PICK n \in Pos : n = next_row(i) BY <1>2
  <2>2. circ_dist(n, i) = IF i <= n THEN n - i ELSE n - i + SCROLL_BUFSIZE BY Distance
  <2>3. n = IF r + DISPLAY_WIDTH = SCROLL_BUFSIZE THEN 0 ELSE r + DISPLAY_WIDTH BY <1>0, <2>1
  <2>4. circ_dist(n, i) = r + DISPLAY_WIDTH - i BY <1>0, <1>1, <2>2, <2>3, Sizes, SMT
  <2>5. QED BY <2>1, <2>4
<1>5. ASSUME NEW t \in Pos, Whole(t), t # i
      PROVE  r + DISPLAY_WIDTH - i <= circ_dist(t, i)
  <2>1. t \in Int /\ 0 <= t /\ t < SCROLL_BUFSIZE BY PosIs
  <2>2. r < t => r + DISPLAY_WIDTH <= t BY <1>0, <1>5, <2>1, WholeGap
  <2>3. QED BY <1>0, <1>1, <1>5, <2>1, <2>2, Sizes, Distance, SMT
<1>6. Whole(i) => i = r
  <2>1. Whole(i) /\ r < i => r + DISPLAY_WIDTH <= i BY <1>0, <1>1, WholeGap
  <2>2. QED BY <2>1, <1>0, <1>1, Sizes, SMT
<1>7. r + DISPLAY_WIDTH - i >= 1 /\ r + DISPLAY_WIDTH - i <= DISPLAY_WIDTH
  BY <1>0, <1>1, Sizes, SMT
<1>8. QED BY <1>0, <1>2, <1>3, <1>4, <1>5, <1>6, <1>7

(* handle_tail, for a cursor that moves on by no more than what is left     *)
(* before the tail: the terminal stays good, and the tail moves, by one     *)
(* row, exactly when the cursor reached it. Head gives way when the tail    *)
(* would reach it.                                                          *)
LEMMA Advance ==
    ASSUME SizesOK, NEW vt, Good(vt), NEW new \in Pos,
           1 <= circ_dist(new, vt.cursor), circ_dist(new, vt.cursor) <= circ_dist(vt.tail, vt.cursor)
    PROVE  LET nt == handle_tail(vt, new)
           IN  /\ Good(nt) /\ nt.top = vt.top /\ nt.cursor = new
               /\ \/ nt.tail = vt.tail /\ nt.buf = vt.buf
                  \/ /\ new = vt.tail
                     /\ nt.tail = next_row(vt.tail)
                     /\ nt.buf = Cleared(vt.buf, vt.tail, nt.tail)
<1> DEFINE nt == handle_tail(vt, new)
           nr == next_row(vt.tail)
<1>1. /\ vt.head \in Pos /\ vt.tail \in Pos /\ vt.top \in Pos /\ vt.cursor \in Pos
      /\ vt.buf \in [Pos -> Printable \cup {BLANK}]
      /\ vt.head # vt.tail
      /\ circ_dist(vt.cursor, vt.head) < circ_dist(vt.tail, vt.head)
      /\ vt = [head |-> vt.head, tail |-> vt.tail, top |-> vt.top, cursor |-> vt.cursor, buf |-> vt.buf]
  BY DEF Good
<1>2. CASE circ_dist(new, vt.cursor) < circ_dist(vt.tail, vt.cursor)
  <2>1. nt = [vt EXCEPT !.cursor = new] BY <1>2 DEF handle_tail
  <2>2. circ_dist(new, vt.head) < circ_dist(vt.tail, vt.head)
    BY <1>1, <1>2, Sizes, PosIs, Distance, SMT
  <2>3. QED BY <1>1, <2>1, <2>2, Zenon DEF Good
<1>3. CASE ~(circ_dist(new, vt.cursor) < circ_dist(vt.tail, vt.cursor))
  <2>1. new = vt.tail BY <1>1, <1>3, Sizes, PosIs, Distance, SMT
  <2>2. /\ nr \in Pos /\ Whole(nr)
        /\ nr = IF vt.tail + DISPLAY_WIDTH = SCROLL_BUFSIZE THEN 0 ELSE vt.tail + DISPLAY_WIDTH
    BY <1>1, NextRow DEF Good
  <2> DEFINE h == IF circ_dist(vt.tail, vt.head) >= circ_dist(vt.tail, nr) THEN next_row(nr)
                  ELSE vt.head
  <2>3. nt = [vt EXCEPT !.head = h, !.buf = Cleared(vt.buf, vt.tail, nr), !.tail = nr, !.cursor = new]
    BY <1>3, <2>1 DEF handle_tail, With
  <2>4. /\ next_row(nr) \in Pos /\ Whole(next_row(nr))
        /\ next_row(nr) = IF nr + DISPLAY_WIDTH = SCROLL_BUFSIZE THEN 0 ELSE nr + DISPLAY_WIDTH
    <3> HIDE DEF nr
    <3>1. QED BY <2>2, NextRow
  <2>5. h \in Pos /\ Whole(h) BY <1>1, <2>4 DEF Good
  <2>6. h # nr /\ circ_dist(vt.tail, h) < circ_dist(nr, h)
    <3>1. vt.tail < vt.head => vt.tail + DISPLAY_WIDTH <= vt.head
      BY <1>1, PosIs, WholeGap DEF Good
    <3>2. vt.tail + DISPLAY_WIDTH <= SCROLL_BUFSIZE
      BY <1>1, PosIs, Sizes, WholeGap, WholeSizes DEF Good
    <3>3. nr + DISPLAY_WIDTH <= SCROLL_BUFSIZE
      <4> HIDE DEF nr
      <4>1. QED BY <2>2, PosIs, Sizes, WholeGap, WholeSizes
    <3>4. /\ circ_dist(vt.tail, vt.head) = IF vt.head <= vt.tail THEN vt.tail - vt.head
                                           ELSE vt.tail - vt.head + SCROLL_BUFSIZE
          /\ circ_dist(vt.tail, nr) = IF nr <= vt.tail THEN vt.tail - nr
                                      ELSE vt.tail - nr + SCROLL_BUFSIZE
          /\ circ_dist(vt.tail, h) = IF h <= vt.tail THEN vt.tail - h
                                     ELSE vt.tail - h + SCROLL_BUFSIZE
          /\ circ_dist(nr, h) = IF h <= nr THEN nr - h ELSE nr - h + SCROLL_BUFSIZE
      <4> HIDE DEF nr, h
      <4>1. QED BY <1>1, <2>2, <2>5, Distance
    <3>5. PICK t \in Int, g \in Int, n \in Int, m \in Int, e \in Int :
              t = vt.tail /\ g = vt.head /\ n = nr /\ m = next_row(nr) /\ e = h
      <4> HIDE DEF nr, h
      <4>1. QED BY <1>1, <2>2, <2>4, <2>5, PosIs
    <3>6. h = IF circ_dist(vt.tail, vt.head) >= circ_dist(vt.tail, nr) THEN next_row(nr)
              ELSE vt.head OBVIOUS
    <3>7. /\ 0 <= t /\ 0 <= g /\ 0 <= n /\ g < SCROLL_BUFSIZE /\ g # t
          /\ t < g => t + DISPLAY_WIDTH <= g
          /\ t + DISPLAY_WIDTH <= SCROLL_BUFSIZE /\ n + DISPLAY_WIDTH <= SCROLL_BUFSIZE
          /\ n = IF t + DISPLAY_WIDTH = SCROLL_BUFSIZE THEN 0 ELSE t + DISPLAY_WIDTH
          /\ m = IF n + DISPLAY_WIDTH = SCROLL_BUFSIZE THEN 0 ELSE n + DISPLAY_WIDTH
      <4> HIDE DEF nr, h
      <4>1. QED BY <1>1, <2>2, <2>4, <3>1, <3>2, <3>3, <3>5, PosIs
    <3> DEFINE a == circ_dist(vt.tail, vt.head)
               b == circ_dist(vt.tail, nr)
               c == circ_dist(vt.tail, h)
               d == circ_dist(nr, h)
    <3>8. /\ a = IF g <= t THEN t - g ELSE t - g + SCROLL_BUFSIZE
          /\ b = IF n <= t THEN t - n ELSE t - n + SCROLL_BUFSIZE
          /\ c = IF e <= t THEN t - e ELSE t - e + SCROLL_BUFSIZE
          /\ d = IF e <= n THEN n - e ELSE n - e + SCROLL_BUFSIZE
          /\ e = IF a >= b THEN m ELSE g
      <4> HIDE DEF nr, h
      <4>1. QED BY <3>4, <3>5, <3>6
    <3>9. e # n /\ c < d
      <4> HIDE DEF a, b, c, d
      <4>1. QED BY <3>7, <3>8, Sizes, SMT
    <3>10. QED BY <3>5, <3>9
  <2>7. Cleared(vt.buf, vt.tail, nr) \in [Pos -> Printable \cup {BLANK}] BY <1>1 DEF Cleared
  <2> HIDE DEF nr, h
  <2>8. nt = [head |-> h, tail |-> nr, top |-> vt.top, cursor |-> vt.tail, buf |-> Cleared(vt.buf, vt.tail, nr)]
    BY <1>1, <2>1, <2>3, Zenon
  <2>9. Good(nt)
    <3> HIDE DEF nt
    <3>1. QED BY <1>1, <2>2, <2>5, <2>6, <2>7, <2>8 DEF Good
  <2>10. /\ nt.top = vt.top /\ nt.cursor = new /\ nt.tail = nr
         /\ nt.buf = Cleared(vt.buf, vt.tail, nt.tail)
    <3> HIDE DEF nt
    <3>1. QED BY <2>1, <2>8
  <2>11. QED BY <2>1, <2>9, <2>10 DEF nr
<1>4. QED BY <1>2, <1>3

(* The fields of a good terminal.                                           *)
LEMMA Parts ==
    ASSUME NEW vt, Good(vt)
    PROVE  /\ vt.head \in Pos /\ vt.tail \in Pos /\ vt.top \in Pos /\ vt.cursor \in Pos
           /\ vt.buf \in [Pos -> Printable \cup {BLANK}]
           /\ Whole(vt.head) /\ Whole(vt.tail) /\ Whole(vt.top)
           /\ vt.head # vt.tail
           /\ circ_dist(vt.cursor, vt.head) < circ_dist(vt.tail, vt.head)
           /\ vt = [head |-> vt.head, tail |-> vt.tail, top |-> vt.top, cursor |-> vt.cursor, buf |-> vt.buf]
  BY DEF Good

(* The cursor is never at the tail.                                         *)
LEMMA CursorBeforeTail ==
    ASSUME SizesOK, NEW vt, Good(vt)
    PROVE  vt.cursor # vt.tail /\ circ_dist(vt.tail, vt.cursor) >= 1
<1>1. vt.cursor # vt.tail
  <2>1. \A n \in Int : ~(n < n) BY SMT
  <2>2. circ_dist(vt.tail, vt.head) \in Int BY Parts, PosIs, Sizes, Distance, SMT
  <2>3. QED BY <2>1, <2>2, Parts
<1>2. PICK c \in Pos, t \in Pos : c = vt.cursor /\ t = vt.tail BY Parts
<1>3. circ_dist(t, c) >= 1 BY <1>1, <1>2, Distance, PosIs, Sizes, SMT
<1>4. QED BY <1>1, <1>2, <1>3

(* A backspace that is not at the head stays behind the head.               *)
LEMMA BackGood ==
    ASSUME SizesOK, NEW vt, Good(vt), vt.cursor # vt.head
    PROVE  Good([vt EXCEPT !.cursor = buf_add(vt.cursor, -1)])
<1>1. PICK c \in Pos, h \in Pos, t \in Pos : c = vt.cursor /\ h = vt.head /\ t = vt.tail
  BY Parts
<1>2. /\ c \in Int /\ 0 <= c /\ c < SCROLL_BUFSIZE /\ h \in Int /\ 0 <= h /\ h < SCROLL_BUFSIZE
  BY PosIs
<1>3. PICK b : b = buf_add(c, -1) OBVIOUS
<1>4. b = IF c + (-1) < 0 THEN c + (-1) + SCROLL_BUFSIZE
          ELSE IF c + (-1) < SCROLL_BUFSIZE THEN c + (-1) ELSE c + (-1) - SCROLL_BUFSIZE
  <2>1. -1 \in Int /\ -SCROLL_BUFSIZE <= -1 /\ -1 < SCROLL_BUFSIZE BY Sizes, SMT
  <2>2. QED BY <1>3, <2>1, Added
<1>5. b \in Pos BY <1>2, <1>4, Sizes, PosIs, SMT
<1>6. circ_dist(b, h) < circ_dist(t, h)
  <2>1. circ_dist(c, h) < circ_dist(t, h) BY <1>1, Parts
  <2>2. circ_dist(b, h) = circ_dist(c, h) - 1
    <3>1. c # h BY <1>1
    <3>2. circ_dist(b, h) = IF h <= b THEN b - h ELSE b - h + SCROLL_BUFSIZE BY <1>5, Distance
    <3>3. circ_dist(c, h) = IF h <= c THEN c - h ELSE c - h + SCROLL_BUFSIZE BY Distance
    <3>4. QED BY <3>1, <3>2, <3>3, <1>2, <1>4, Sizes, SMT
  <2>3. circ_dist(c, h) \in Int /\ circ_dist(t, h) \in Int BY PosIs, Sizes, Distance, SMT
  <2>4. QED BY <2>1, <2>2, <2>3, SMT
<1>7. QED BY <1>1, <1>3, <1>5, <1>6, Parts, Zenon DEF Good

(* A carriage return stays behind the head, which is at the start of a row. *)
LEMMA ReturnGood ==
    ASSUME SizesOK, NEW vt, Good(vt)
    PROVE  Good([vt EXCEPT !.cursor = (vt.cursor \div DISPLAY_WIDTH) * DISPLAY_WIDTH])
<1>1. PICK c \in Pos, h \in Pos, t \in Pos : c = vt.cursor /\ h = vt.head /\ t = vt.tail
  BY Parts
<1>2. /\ c \in Int /\ 0 <= c /\ c < SCROLL_BUFSIZE /\ h \in Int /\ 0 <= h /\ h < SCROLL_BUFSIZE
  BY PosIs
<1>3. PICK r : /\ r = (c \div DISPLAY_WIDTH) * DISPLAY_WIDTH
               /\ r \in Int /\ Whole(r) /\ 0 <= r /\ r <= c /\ c < r + DISPLAY_WIDTH
  BY RowStart
<1>4. r \in Pos BY <1>2, <1>3, Sizes, PosIs, SMT
<1>5. r < h => r + DISPLAY_WIDTH <= h BY <1>1, <1>2, <1>3, Parts, WholeGap
<1>6. circ_dist(r, h) < circ_dist(t, h)
  <2>1. circ_dist(c, h) < circ_dist(t, h) BY <1>1, Parts
  <2>2. circ_dist(r, h) <= circ_dist(c, h) BY <1>1, <1>2, <1>3, <1>4, <1>5, Sizes, Distance, SMT
  <2>3. circ_dist(c, h) \in Int /\ circ_dist(t, h) \in Int /\ circ_dist(r, h) \in Int
    BY <1>4, PosIs, Sizes, Distance, SMT
  <2>4. QED BY <2>1, <2>2, <2>3, SMT
<1>7. QED BY <1>1, <1>3, <1>4, <1>6, Parts, Zenon DEF Good

(* The character is written before the cursor moves.                        *)
Put(vt, c) == [vt EXCEPT !.buf[vt.cursor] = c]

(* Writing a character into the buffer keeps the terminal good and moves    *)
(* nothing.                                                                 *)
LEMMA PutGood ==
    ASSUME SizesOK, NEW vt, Good(vt), NEW c \in Printable
    PROVE  /\ Good(Put(vt, c))
           /\ Put(vt, c).buf = [vt.buf EXCEPT ![vt.cursor] = c]
           /\ Put(vt, c).head = vt.head /\ Put(vt, c).tail = vt.tail
           /\ Put(vt, c).top = vt.top /\ Put(vt, c).cursor = vt.cursor
<1>1. Put(vt, c) = [head |-> vt.head, tail |-> vt.tail, top |-> vt.top, cursor |-> vt.cursor,
                    buf |-> [vt.buf EXCEPT ![vt.cursor] = c]]
  BY Parts, SMT DEF Put
<1>2. [vt.buf EXCEPT ![vt.cursor] = c] \in [Pos -> Printable \cup {BLANK}] BY Parts
<1>3. QED BY <1>1, <1>2, Parts DEF Good

(* The cursor after a character is one further.                             *)
LEMMA OneOn ==
    ASSUME SizesOK, NEW p \in Pos
    PROVE  buf_add(p, 1) \in Pos /\ circ_dist(buf_add(p, 1), p) = 1
<1>1. p \in Int /\ 0 <= p /\ p < SCROLL_BUFSIZE BY PosIs
<1>2. PICK b : b = buf_add(p, 1) OBVIOUS
<1>3. b = IF p + 1 < 0 THEN p + 1 + SCROLL_BUFSIZE
          ELSE IF p + 1 < SCROLL_BUFSIZE THEN p + 1 ELSE p + 1 - SCROLL_BUFSIZE
  <2>1. 1 \in Int /\ -SCROLL_BUFSIZE <= 1 /\ 1 < SCROLL_BUFSIZE BY Sizes, SMT
  <2>2. QED BY <1>2, <2>1, Added
<1>4. b \in Pos BY <1>1, <1>3, Sizes, PosIs, SMT
<1>5. circ_dist(b, p) = 1 BY <1>1, <1>3, <1>4, Sizes, Distance, SMT
<1>6. QED BY <1>2, <1>4, <1>5

(* How the tail of a terminal and its buffer can change in one character:   *)
(* not at all, or by one cleared row, and that only if the cursor was in    *)
(* the last row.                                                            *)
Grown(vt, nt) ==
    /\ nt.top = vt.top
    /\ \/ nt.tail = vt.tail /\ nt.buf = vt.buf
       \/ /\ circ_dist(vt.tail, vt.cursor) <= DISPLAY_WIDTH
          /\ nt.tail = next_row(vt.tail)
          /\ nt.buf = Cleared(vt.buf, vt.tail, nt.tail)

Chars == Printable \cup {"BS", "CR", "NL"}

(* vt_handle_char keeps a terminal good, does not move its top, and changes *)
(* the buffer by the character and by a cleared row at most.                *)
LEMMA HandleGood ==
    ASSUME SizesOK, NEW vt, Good(vt), NEW c \in Chars
    PROVE  /\ Good(vt_handle_char(vt, c))
           /\ Grown(IF c \in Printable THEN Put(vt, c) ELSE vt, vt_handle_char(vt, c))
<1> DEFINE nt == vt_handle_char(vt, c)
<1>1. CASE c = "BS"
  <2>1. c \notin Printable BY <1>1 DEF SizesOK
  <2>2. nt = IF vt.cursor # vt.head THEN [vt EXCEPT !.cursor = buf_add(@, -1)] ELSE vt
    BY <1>1, <2>1 DEF vt_handle_char
  <2>3. CASE vt.cursor = vt.head BY <2>1, <2>2, <2>3 DEF Grown
  <2>4. CASE vt.cursor # vt.head
    <3>1. nt = [vt EXCEPT !.cursor = buf_add(vt.cursor, -1)] BY <2>2, <2>4
    <3>2. Good(nt) BY <2>4, <3>1, BackGood
    <3>3. nt.top = vt.top /\ nt.tail = vt.tail /\ nt.buf = vt.buf BY <3>1, Parts
    <3>4. QED BY <2>1, <3>2, <3>3 DEF Grown
  <2>5. QED BY <2>3, <2>4
<1>2. CASE c = "CR"
  <2>1. c \notin Printable /\ c # "BS" BY <1>2 DEF SizesOK
  <2>2. nt = [vt EXCEPT !.cursor = (vt.cursor \div DISPLAY_WIDTH) * DISPLAY_WIDTH]
    BY <1>2, <2>1 DEF vt_handle_char
  <2>3. Good(nt) BY <2>2, ReturnGood
  <2>4. nt.top = vt.top /\ nt.tail = vt.tail /\ nt.buf = vt.buf BY <2>2, Parts
  <2>5. QED BY <2>1, <2>3, <2>4 DEF Grown
<1>3. CASE c = "NL"
  <2>1. c \notin Printable /\ c # "BS" /\ c # "CR" BY <1>3 DEF SizesOK
  <2>2. nt = handle_tail(vt, next_row(vt.cursor)) BY <1>3, <2>1 DEF vt_handle_char
  <2>3. vt.cursor \in Pos /\ vt.tail \in Pos /\ Whole(vt.tail) /\ vt.tail # vt.cursor
    BY Parts, CursorBeforeTail
  <2>4. /\ next_row(vt.cursor) \in Pos
        /\ circ_dist(next_row(vt.cursor), vt.cursor) <= circ_dist(vt.tail, vt.cursor)
        /\ 1 <= circ_dist(next_row(vt.cursor), vt.cursor)
        /\ circ_dist(next_row(vt.cursor), vt.cursor) <= DISPLAY_WIDTH
    <3>1. \A n : n >= 1 <=> 1 <= n BY SMT
    <3>2. QED BY <2>3, <3>1, NextRow
  <2>5. QED BY <2>1, <2>2, <2>4, Advance DEF Grown
<1>4. CASE c \in Printable
  <2>1. c # "BS" /\ c # "CR" /\ c # "NL" BY <1>4 DEF SizesOK
  <2>2. nt = handle_tail(Put(vt, c), buf_add(vt.cursor, 1))
    BY <1>4, <2>1 DEF vt_handle_char, Put
  <2>3. PICK pt : pt = Put(vt, c) OBVIOUS
  <2>4. Good(pt) /\ pt.cursor = vt.cursor BY <1>4, <2>3, PutGood
  <2>5. buf_add(pt.cursor, 1) \in Pos /\ circ_dist(buf_add(pt.cursor, 1), pt.cursor) = 1
    BY <2>4, Parts, OneOn
  <2>6. 1 <= circ_dist(pt.tail, pt.cursor)
    <3>1. \A n : n >= 1 <=> 1 <= n BY SMT
    <3>2. QED BY <2>4, <3>1, CursorBeforeTail
  <2>7. 1 <= 1 /\ 1 <= DISPLAY_WIDTH BY Sizes, SMT
  <2>8. nt = handle_tail(pt, buf_add(pt.cursor, 1)) BY <2>2, <2>3, <2>4
  <2>9. Good(nt) /\ Grown(pt, nt) BY <2>4, <2>5, <2>6, <2>7, <2>8, Advance DEF Grown
  <2>10. QED BY <1>4, <2>3, <2>9
<1>5. QED BY <1>1, <1>2, <1>3, <1>4 DEF Chars

(* The position of cell i of the screen.                                    *)
Cell(top, i) == IF top + i < SCROLL_BUFSIZE THEN top + i ELSE top + i - SCROLL_BUFSIZE

(* A cell shows exactly the position that is so far from the top.           *)
LEMMA CellIs ==
    ASSUME SizesOK, NEW top \in Pos, NEW i \in 0..(DISPLAY_SIZE - 1)
    PROVE  /\ Cell(top, i) \in Pos
           /\ (top + i) % SCROLL_BUFSIZE = Cell(top, i)
           /\ circ_dist(Cell(top, i), top) = i
           /\ \A p \in Pos : circ_dist(p, top) = i => p = Cell(top, i)
<1>1. top \in Int /\ 0 <= top /\ top < SCROLL_BUFSIZE BY PosIs
<1>2. i \in Int /\ 0 <= i /\ i < SCROLL_BUFSIZE BY Sizes, SMT
<1>3. PICK e : e = Cell(top, i) OBVIOUS
<1>4. e = IF top + i < SCROLL_BUFSIZE THEN top + i ELSE top + i - SCROLL_BUFSIZE
  BY <1>3 DEF Cell
<1>5. e \in Pos BY <1>1, <1>2, <1>4, PosIs, Sizes, SMT
<1>6. (top + i) % SCROLL_BUFSIZE = e
  <2> DEFINE x == top + i
             m == x % SCROLL_BUFSIZE
  <2>1. x \in Int /\ 0 <= x /\ x < 2 * SCROLL_BUFSIZE /\ x < 3 * SCROLL_BUFSIZE /\ SCROLL_BUFSIZE >= 1
    BY <1>1, <1>2, Sizes, SMT
  <2>2. /\ x < SCROLL_BUFSIZE => m = x
        /\ SCROLL_BUFSIZE <= x /\ x < 2 * SCROLL_BUFSIZE => m = x - SCROLL_BUFSIZE
    <3> HIDE DEF x
    <3>1. QED BY <2>1, Sizes, Remainder
  <2>3. e = IF x < SCROLL_BUFSIZE THEN x ELSE x - SCROLL_BUFSIZE BY <1>1, <1>2, <1>4, Sizes, SMT
  <2>4. m = e
    <3> HIDE DEF x, m
    <3>1. QED BY <2>1, <2>2, <2>3, Sizes, SMT
  <2>5. QED BY <2>4
<1>7. circ_dist(e, top) = i BY <1>1, <1>2, <1>4, <1>5, Sizes, Distance, SMT
<1>8. ASSUME NEW p \in Pos, circ_dist(p, top) = i
      PROVE  p = e
  <2>1. p \in Int /\ 0 <= p /\ p < SCROLL_BUFSIZE BY PosIs
  <2>2. i = IF top <= p THEN p - top ELSE p - top + SCROLL_BUFSIZE BY <1>8, Distance
  <2>3. QED BY <1>1, <1>2, <1>4, <2>1, <2>2, Sizes, SMT
<1>9. QED BY <1>3, <1>5, <1>6, <1>7, <1>8

(* What vt_redraw shows, without % and without its two cases.               *)
LEMMA ShownIs ==
    ASSUME SizesOK, NEW vt, Good(vt)
    PROVE  Shown(vt) = [i \in 0..(DISPLAY_SIZE - 1) |->
                           IF i < circ_dist(vt.tail, vt.top) THEN vt.buf[Cell(vt.top, i)]
                           ELSE BLANK]
<1>1. vt.top \in Pos /\ vt.tail \in Pos BY Parts
<1>2. circ_dist(vt.tail, vt.top) = IF vt.top <= vt.tail THEN vt.tail - vt.top
                                   ELSE SCROLL_BUFSIZE - vt.top + vt.tail
  <2>1. PICK p \in Pos, t \in Pos : p = vt.top /\ t = vt.tail BY <1>1
  <2>2. circ_dist(t, p) = IF p <= t THEN t - p ELSE SCROLL_BUFSIZE - p + t
    BY Distance, PosIs, Sizes, SMT
  <2>3. QED BY <2>1, <2>2
<1>3. Shown(vt) = [i \in 0..(DISPLAY_SIZE - 1) |->
                      IF i < circ_dist(vt.tail, vt.top) THEN vt.buf[(vt.top + i) % SCROLL_BUFSIZE]
                      ELSE BLANK]
  BY <1>2, Zenon DEF Shown, With
<1>4. \A i \in 0..(DISPLAY_SIZE - 1) : (vt.top + i) % SCROLL_BUFSIZE = Cell(vt.top, i)
  BY <1>1, CellIs
<1>5. QED BY <1>3, <1>4, Zenon

(* Putting one character changes one cell, if the cursor is in the rows     *)
(* that are shown.                                                          *)
LEMMA ShownPut ==
    ASSUME SizesOK, NEW vt, Good(vt), NEW c \in Printable,
           RelCursor(vt) < DISPLAY_SIZE, RelCursor(vt) < circ_dist(vt.tail, vt.top)
    PROVE  Shown(Put(vt, c)) = [Shown(vt) EXCEPT ![RelCursor(vt)] = c]
<1> DEFINE pt == Put(vt, c)
           n  == circ_dist(vt.tail, vt.top)
           D  == 0..(DISPLAY_SIZE - 1)
<1>1. /\ Good(pt) /\ pt.tail = vt.tail /\ pt.top = vt.top
      /\ pt.buf = [vt.buf EXCEPT ![vt.cursor] = c]
  BY PutGood
<1>2. vt.cursor \in Pos /\ vt.top \in Pos /\ vt.buf \in [Pos -> Printable \cup {BLANK}] BY Parts
<1>3. RelCursor(vt) \in D /\ RelCursor(vt) = circ_dist(vt.cursor, vt.top)
  <2>1. RelCursor(vt) = circ_dist(vt.cursor, vt.top) BY DEF RelCursor
  <2>2. PICK p \in Pos, q \in Pos : p = vt.cursor /\ q = vt.top BY <1>2
  <2>3. circ_dist(p, q) \in Int /\ 0 <= circ_dist(p, q) BY Distance, PosIs, Sizes, SMT
  <2>4. QED BY <2>1, <2>2, <2>3, Sizes, SMT
<1>4. Shown(pt) = [i \in D |-> IF i < n THEN pt.buf[Cell(vt.top, i)] ELSE BLANK]
  <2> HIDE DEF pt
  <2>1. Shown(pt) = [i \in D |-> IF i < circ_dist(pt.tail, pt.top) THEN pt.buf[Cell(pt.top, i)]
                                 ELSE BLANK]
    BY <1>1, ShownIs
  <2>2. QED BY <1>1, <2>1, Zenon
<1>5. Shown(vt) = [i \in D |-> IF i < n THEN vt.buf[Cell(vt.top, i)] ELSE BLANK] BY ShownIs
<1>6. ASSUME NEW i \in D
      PROVE  (IF i < n THEN pt.buf[Cell(vt.top, i)] ELSE BLANK) =
             IF i = RelCursor(vt) THEN c ELSE IF i < n THEN vt.buf[Cell(vt.top, i)] ELSE BLANK
  <2>1. Cell(vt.top, i) \in Pos BY <1>2, CellIs
  <2>2. Cell(vt.top, i) = vt.cursor <=> i = RelCursor(vt) BY <1>2, <1>3, CellIs
  <2> HIDE DEF pt, n
  <2>3. pt.buf[Cell(vt.top, i)] = IF i = RelCursor(vt) THEN c ELSE vt.buf[Cell(vt.top, i)]
    BY <1>1, <1>2, <2>1, <2>2
  <2>4. i = RelCursor(vt) => i < n BY DEF n
  <2>5. QED BY <2>3, <2>4
<1> HIDE DEF pt, n, D
<1>7. [Shown(vt) EXCEPT ![RelCursor(vt)] = c] =
          [i \in D |-> IF i = RelCursor(vt) THEN c
                       ELSE IF i < n THEN vt.buf[Cell(vt.top, i)] ELSE BLANK]
  BY <1>3, <1>5
<1>8. QED BY <1>4, <1>6, <1>7, Zenon DEF pt

(* A row that the tail takes in is blank, as was the part of the screen     *)
(* that shows it: the buffer is at least two rows larger than the screen,   *)
(* so the new tail does not come round to the top.                          *)
LEMMA ShownGrown ==
    ASSUME SizesOK, NEW vt, Good(vt), NEW nt, Good(nt), Grown(vt, nt),
           RelCursor(vt) < DISPLAY_SIZE, RelCursor(vt) < circ_dist(vt.tail, vt.top)
    PROVE  Shown(nt) = Shown(vt)
<1> DEFINE n == circ_dist(vt.tail, vt.top)
           m == circ_dist(nt.tail, vt.top)
           D == 0..(DISPLAY_SIZE - 1)
<1>1. /\ vt.cursor \in Pos /\ vt.top \in Pos /\ vt.tail \in Pos /\ nt.tail \in Pos
      /\ vt.buf \in [Pos -> Printable \cup {BLANK}] /\ Whole(vt.tail) /\ nt.top = vt.top
  BY Parts DEF Grown
<1>2. Shown(nt) = [i \in D |-> IF i < m THEN nt.buf[Cell(vt.top, i)] ELSE BLANK]
  BY <1>1, ShownIs
<1>3. Shown(vt) = [i \in D |-> IF i < n THEN vt.buf[Cell(vt.top, i)] ELSE BLANK] BY ShownIs
<1>4. CASE nt.tail = vt.tail /\ nt.buf = vt.buf BY <1>2, <1>3, <1>4
<1>5. CASE /\ circ_dist(vt.tail, vt.cursor) <= DISPLAY_WIDTH
           /\ nt.tail = next_row(vt.tail)
           /\ nt.buf = Cleared(vt.buf, vt.tail, nt.tail)
  <2>1. PICK p \in Pos, c \in Pos, t \in Pos, u \in Pos :
            p = vt.top /\ c = vt.cursor /\ t = vt.tail /\ u = nt.tail BY <1>1
  <2>2. /\ p \in Int /\ 0 <= p /\ p < SCROLL_BUFSIZE
        /\ c \in Int /\ 0 <= c /\ c < SCROLL_BUFSIZE
        /\ t \in Int /\ 0 <= t /\ t < SCROLL_BUFSIZE
        /\ u \in Int /\ 0 <= u /\ u < SCROLL_BUFSIZE
    BY PosIs
  <2>3. u = IF t + DISPLAY_WIDTH = SCROLL_BUFSIZE THEN 0 ELSE t + DISPLAY_WIDTH
    BY <1>1, <1>5, <2>1, NextRow
  <2>4. n = IF p <= t THEN t - p ELSE t - p + SCROLL_BUFSIZE BY <2>1, Distance
  <2>5. m = IF p <= u THEN u - p ELSE u - p + SCROLL_BUFSIZE BY <2>1, Distance
  <2>6. RelCursor(vt) = IF p <= c THEN c - p ELSE c - p + SCROLL_BUFSIZE
    BY <2>1, Distance DEF RelCursor
  <2>7. circ_dist(t, c) = IF c <= t THEN t - c ELSE t - c + SCROLL_BUFSIZE BY Distance
  <2>8. circ_dist(t, c) <= DISPLAY_WIDTH BY <1>5, <2>1
  <2>9. m = n + DISPLAY_WIDTH
    <3>1. RelCursor(vt) < n OBVIOUS
    <3> HIDE DEF n, m
    <3>2. QED BY <2>2, <2>3, <2>4, <2>5, <2>6, <2>7, <2>8, <3>1, Sizes, SMT
  <2>10. ASSUME NEW i \in D
         PROVE  (IF i < m THEN nt.buf[Cell(vt.top, i)]
                 ELSE BLANK) = IF i < n THEN vt.buf[Cell(vt.top, i)] ELSE BLANK
    <3>1. PICK e \in Pos : e = Cell(p, i) BY CellIs
    <3>2. e \in Int /\ 0 <= e /\ e < SCROLL_BUFSIZE BY PosIs
    <3>3. i = IF p <= e THEN e - p ELSE e - p + SCROLL_BUFSIZE BY <3>1, CellIs, Distance
    <3>4. i \in Int /\ 0 <= i BY Sizes, SMT
    <3> DEFINE In == \/ t <= u /\ e >= t /\ e < u
                     \/ t > u /\ (e >= t \/ e < u)
    <3>5. nt.buf[e] = IF In THEN BLANK ELSE vt.buf[e] BY <1>1, <1>5, <2>1 DEF Cleared
    <3> HIDE DEF n, m
    <3>6. i < n => ~In /\ i < m BY <2>2, <2>3, <2>4, <2>5, <2>9, <3>2, <3>3, <3>4, Sizes, SMT
    <3>7. ~(i < n) /\ i < m => In BY <2>2, <2>3, <2>4, <2>5, <2>9, <3>2, <3>3, <3>4, Sizes, SMT
    <3> HIDE DEF In
    <3>8. QED BY <2>1, <3>1, <3>5, <3>6, <3>7
  <2> HIDE DEF n, m, D
  <2>11. QED BY <1>2, <1>3, <2>10, Zenon
<1>6. QED BY <1>4, <1>5 DEF Grown

(* A cursor on the screen that is not misplaced is in the rows shown.       *)
LEMMA NotMisplaced ==
    ASSUME SizesOK, NEW vt, Good(vt), RelCursor(vt) < DISPLAY_SIZE, ~Misplaced(vt)
    PROVE  RelCursor(vt) < circ_dist(vt.tail, vt.top)
<1>1. PICK p \in Pos, e \in Pos, f \in Pos : p = vt.top /\ e = vt.cursor /\ f = vt.tail BY Parts
<1>2. circ_dist(e, p) \in Int /\ circ_dist(f, p) \in Int BY Distance, PosIs, Sizes, SMT
<1>3. RelCursor(vt) = circ_dist(e, p) /\ circ_dist(vt.tail, vt.top) = circ_dist(f, p)
  BY <1>1 DEF RelCursor
<1>4. ~(circ_dist(vt.tail, vt.top) <= RelCursor(vt)) BY DEF Misplaced
<1>5. QED BY <1>2, <1>3, <1>4, SMT

(* A misplaced cursor is at least a row before the tail: the tail does not  *)
(* move, and what the screen should show changes by the character only.     *)
LEMMA MisplacedKept ==
    ASSUME SizesOK, NEW vt, Good(vt), NEW nt, Good(nt), Grown(vt, nt), Misplaced(vt)
    PROVE  Shown(nt) = Shown(vt)
<1>1. PICK p \in Pos, c \in Pos, t \in Pos : p = vt.top /\ c = vt.cursor /\ t = vt.tail BY Parts
<1>2. /\ p \in Int /\ 0 <= p /\ p < SCROLL_BUFSIZE
      /\ c \in Int /\ 0 <= c /\ c < SCROLL_BUFSIZE
      /\ t \in Int /\ 0 <= t /\ t < SCROLL_BUFSIZE
  BY PosIs
<1> DEFINE n == circ_dist(t, p)
           r == circ_dist(c, p)
           d == circ_dist(t, c)
<1>3. n <= r /\ r < DISPLAY_SIZE BY <1>1 DEF Misplaced, RelCursor
<1>4. /\ n = IF p <= t THEN t - p ELSE t - p + SCROLL_BUFSIZE
      /\ r = IF p <= c THEN c - p ELSE c - p + SCROLL_BUFSIZE
      /\ d = IF c <= t THEN t - c ELSE t - c + SCROLL_BUFSIZE
  BY Distance
<1>5. d >= 1 BY <1>1, CursorBeforeTail
<1> HIDE DEF n, r, d
<1>6. ~(d <= DISPLAY_WIDTH) BY <1>2, <1>3, <1>4, <1>5, Sizes, SMT
<1>7. nt.top = vt.top /\ nt.tail = vt.tail /\ nt.buf = vt.buf BY <1>1, <1>6 DEF Grown, d
<1>8. QED BY <1>7, ShownIs, Zenon

(* Moving a row start by whole rows gives a row start.                      *)
LEMMA RowAdded ==
    ASSUME SizesOK, NEW p \in Pos, Whole(p), NEW n \in Int, Whole(n),
           -SCROLL_BUFSIZE <= n, n < SCROLL_BUFSIZE
    PROVE  buf_add(p, n) \in Pos /\ Whole(buf_add(p, n))
<1>1. p \in Int /\ 0 <= p /\ p < SCROLL_BUFSIZE BY PosIs
<1>2. PICK x \in Int : x = p + n BY <1>1
<1>3. Whole(x) /\ Whole(x + SCROLL_BUFSIZE) /\ Whole(x - SCROLL_BUFSIZE)
  <2>1. Whole(x) BY <1>1, <1>2, WholeSum
  <2>2. SCROLL_BUFSIZE \in Int BY Sizes
  <2>3. QED BY <2>1, <2>2, WholeSizes, WholeSum
<1>4. buf_add(p, n) = IF x < 0 THEN x + SCROLL_BUFSIZE
                      ELSE IF x < SCROLL_BUFSIZE THEN x ELSE x - SCROLL_BUFSIZE
  <2>1. buf_add(p, n) = IF p + n < 0 THEN p + n + SCROLL_BUFSIZE
                        ELSE IF p + n < SCROLL_BUFSIZE THEN p + n ELSE p + n - SCROLL_BUFSIZE
    BY Added
  <2>2. QED BY <1>1, <1>2, <2>1, Sizes, SMT
<1>5. buf_add(p, n) \in Pos BY <1>1, <1>2, <1>4, Sizes, PosIs, SMT
<1>6. QED BY <1>3, <1>4, <1>5

(* The amounts by which rows are moved.                                     *)
LEMMA Back ==
    ASSUME SizesOK
    PROVE  /\ -DISPLAY_SIZE \in Int /\ Whole(-DISPLAY_SIZE)
           /\ -SCROLL_BUFSIZE <= -DISPLAY_SIZE /\ -DISPLAY_SIZE < SCROLL_BUFSIZE
           /\ -DISPLAY_WIDTH \in Int /\ Whole(-DISPLAY_WIDTH)
           /\ -SCROLL_BUFSIZE <= -DISPLAY_WIDTH /\ -DISPLAY_WIDTH < SCROLL_BUFSIZE
           /\ DISPLAY_SIZE \in Int /\ Whole(DISPLAY_SIZE)
           /\ -SCROLL_BUFSIZE <= DISPLAY_SIZE /\ DISPLAY_SIZE < SCROLL_BUFSIZE
<1>1. -DISPLAY_SIZE = 0 - DISPLAY_SIZE /\ -DISPLAY_WIDTH = 0 - DISPLAY_WIDTH BY Sizes, SMT
<1>2. Whole(0 - DISPLAY_SIZE) /\ Whole(0 - DISPLAY_WIDTH)
  <2>1. 0 \in Int /\ DISPLAY_SIZE \in Int /\ DISPLAY_WIDTH \in Int BY Sizes
  <2>2. QED BY <2>1, WholeSizes, WholeSum
<1>3. QED BY <1>1, <1>2, Sizes, WholeSizes, SMT

(* A top that is moved for the cursor is a row start, and another one than  *)
(* before.                                                                  *)
LEMMA FollowGood ==
    ASSUME SizesOK, NEW vt, Good(vt)
    PROVE  /\ Good(Follow(vt))
           /\ Follow(vt).top = vt.top => Follow(vt) = vt /\ RelCursor(vt) < DISPLAY_SIZE
<1>1. PICK c \in Pos, p \in Pos : c = vt.cursor /\ p = vt.top BY Parts
<1>2. c \in Int /\ 0 <= c /\ c < SCROLL_BUFSIZE /\ p \in Int /\ 0 <= p /\ p < SCROLL_BUFSIZE
  BY PosIs
<1>3. RelCursor(vt) = IF p <= c THEN c - p ELSE c - p + SCROLL_BUFSIZE
  BY <1>1, Distance DEF RelCursor
<1>4. CASE ~(RelCursor(vt) >= DISPLAY_SIZE)
  <2>1. RelCursor(vt) < DISPLAY_SIZE BY <1>2, <1>3, <1>4, Sizes, SMT
  <2>2. QED BY <1>4, <2>1 DEF Follow
<1>5. CASE RelCursor(vt) >= DISPLAY_SIZE
  <2>1. PICK n \in Pos : n = next_row(c) /\ Whole(n) BY NextRow
  <2>2. n \in Int /\ 0 <= n /\ n < SCROLL_BUFSIZE BY PosIs
  <2>3. PICK d \in Int : d = -DISPLAY_SIZE BY Back
  <2>4. PICK b : b = buf_add(n, d) OBVIOUS
  <2>5. Follow(vt) = [vt EXCEPT !.top = b] BY <1>1, <1>5, <2>1, <2>3, <2>4 DEF Follow
  <2>6. b \in Pos /\ Whole(b) BY <2>1, <2>3, <2>4, RowAdded, Back
  <2>7. b # p
    <3>1. circ_dist(n, c) >= 1 /\ circ_dist(n, c) <= DISPLAY_WIDTH BY <2>1, NextRow
    <3>2. circ_dist(n, c) = IF c <= n THEN n - c ELSE n - c + SCROLL_BUFSIZE BY Distance
    <3>3. b = IF n + d < 0 THEN n + d + SCROLL_BUFSIZE
              ELSE IF n + d < SCROLL_BUFSIZE THEN n + d
                   ELSE n + d - SCROLL_BUFSIZE BY <2>3, <2>4, Added, Back
    <3>4. QED BY <1>2, <1>3, <1>5, <2>2, <2>3, <3>1, <3>2, <3>3, Sizes, SMT
  <2>8. Good(Follow(vt)) BY <2>5, <2>6, Parts, Zenon DEF Good
  <2>9. Follow(vt).top = b BY <2>5, Parts
  <2>10. QED BY <1>1, <2>7, <2>8, <2>9
<1>6. QED BY <1>4, <1>5

(* Scrolling moves the top to a row start.                                  *)
LEMMA ScrolledGood ==
    ASSUME SizesOK, NEW vt, Good(vt), NEW up \in BOOLEAN
    PROVE  Good(Scrolled(vt, DISPLAY_HEIGHT, up))
<1>1. -DISPLAY_HEIGHT * DISPLAY_WIDTH = -DISPLAY_SIZE /\ DISPLAY_HEIGHT * DISPLAY_WIDTH = DISPLAY_SIZE
  BY SMT DEF SizesOK, DISPLAY_SIZE
<1>2. PICK b : /\ Scrolled(vt, DISPLAY_HEIGHT, up) = [vt EXCEPT !.top = b]
               /\ \/ b = vt.head
                  \/ b = buf_add(vt.top, -DISPLAY_SIZE)
                  \/ b = buf_add(vt.tail, -DISPLAY_WIDTH)
                  \/ b = buf_add(vt.top, DISPLAY_SIZE)
  BY <1>1, Zenon DEF Scrolled
<1>3. vt.head \in Pos /\ Whole(vt.head) /\ vt.tail \in Pos /\ Whole(vt.tail) /\ vt.top \in Pos /\ Whole(vt.top)
  BY Parts
<1>4. b \in Pos /\ Whole(b) BY <1>2, <1>3, Back, RowAdded
<1>5. QED BY <1>2, <1>4, Parts, Zenon DEF Good

-----------------------------------------------------------------------------
(* The inductive invariant: every terminal is good, and the current one     *)
(* exists.                                                                  *)
Terms == 0..(NTERMS - 1)

IInv ==
    /\ DOMAIN term = Terms /\ term = [t \in Terms |-> term[t]]
    /\ \A t \in Terms : Good(term[t])
    /\ cur \in Terms

(* A new terminal is good.                                                  *)
LEMMA NewGood ==
    ASSUME SizesOK
    PROVE  Good(NewTerm)
<1>1. 0 \in Pos /\ DISPLAY_WIDTH \in Pos BY PosIs, Sizes, SMT
<1>2. circ_dist(0, 0) < circ_dist(DISPLAY_WIDTH, 0) BY <1>1, Sizes, Distance, SMT
<1>3. 0 # DISPLAY_WIDTH BY Sizes, SMT
<1>4. [i \in 0..(SCROLL_BUFSIZE - 1) |-> BLANK] \in [Pos -> Printable \cup {BLANK}] BY DEF Pos
<1>5. QED BY <1>1, <1>2, <1>3, <1>4, WholeSizes DEF Good, NewTerm

(* The invariant holds after vt_init.                                       *)
LEMMA InitIInv ==
    ASSUME SizesOK
    PROVE  vt_init => IInv
<1>1. 0 \in Terms BY SMT DEF SizesOK, Terms
<1>2. QED BY <1>1, NewGood DEF vt_init, IInv, Terms

(* A character for any terminal, shown or not, keeps the invariant, and the *)
(* screen follows.                                                          *)
LEMMA ProvideIInv ==
    ASSUME SizesOK, IInv, NEW t \in Terms, NEW c \in Chars, vt_provide_char(t, c)
    PROVE  IInv' /\ ScreenFollows
<1> DEFINE vt == term[t]
           nt == vt_handle_char(Follow(vt), c)
<1>1. Good(vt) BY DEF IInv
<1>2. Good(Follow(vt)) BY <1>1, FollowGood
<1>3. Good(nt) /\ Grown(IF c \in Printable THEN Put(Follow(vt), c) ELSE Follow(vt), nt)
  BY <1>2, HandleGood
<1>4. /\ term' = [term EXCEPT ![t] = nt] /\ cur' = cur
      /\ screen' = IF cur = t THEN Drawn(vt, nt, c) ELSE screen
  BY DEF vt_provide_char
<1>5. IInv'
  <2> HIDE DEF nt
  <2>1. QED BY <1>3, <1>4 DEF IInv
<1>6. CASE cur # t
  <2>1. term'[cur] = term[cur] BY <1>4, <1>6 DEF IInv
  <2>2. QED BY <1>4, <1>5, <1>6, <2>1 DEF ScreenFollows, ScreenShows
<1>7. CASE cur = t
  <2>1. term'[cur] = nt /\ term[cur] = vt BY <1>4, <1>7 DEF IInv
  <2>2. CASE vt.top # nt.top
    <3>1. screen' = vt_redraw(nt) BY <1>4, <1>7, <2>2 DEF Drawn
    <3>2. QED BY <1>4, <1>5, <2>1, <3>1 DEF ScreenFollows, ScreenShows
  <2>3. CASE vt.top = nt.top
    <3>1. nt.top = Follow(vt).top BY <1>2, <1>3, PutGood DEF Grown
    <3>2. Follow(vt) = vt /\ RelCursor(vt) < DISPLAY_SIZE BY <1>1, <2>3, <3>1, FollowGood
    <3>3. SUFFICES ASSUME ScreenShows, ~WritesMisplaced PROVE screen' = vt_redraw(nt)
      BY <1>4, <1>5, <2>1, <2>3 DEF ScreenFollows, ScreenShows
    <3>4. c \in Printable => RelCursor(vt) < circ_dist(vt.tail, vt.top)
      <4>1. SUFFICES ASSUME c \in Printable PROVE RelCursor(vt) < circ_dist(vt.tail, vt.top)
        OBVIOUS
      <4>2. ~Misplaced(vt) BY <1>7, <2>1, <3>3, <4>1 DEF WritesMisplaced
      <4>3. QED BY <1>1, <3>2, <4>2, NotMisplaced
    <3>5. screen.cells = Shown(vt) BY <2>1, <3>3 DEF ScreenShows, vt_redraw
    <3>6. screen' = [cells |-> IF c \in Printable THEN [screen.cells EXCEPT ![RelCursor(vt)] = c]
                               ELSE screen.cells,
                     cursor |-> RelCursor(nt)]
      BY Zenon, <1>4, <1>7, <2>3 DEF Drawn, RelCursor
    <3>7. CASE c \notin Printable
      <4>1. Grown(vt, nt) BY <1>3, <3>2, <3>7
      <4>2. Shown(nt) = Shown(vt)
        <5>1. CASE Misplaced(vt) BY <1>1, <1>3, <4>1, <5>1, MisplacedKept
        <5>2. CASE ~Misplaced(vt)
          <6>1. RelCursor(vt) < circ_dist(vt.tail, vt.top) BY Zenon, <1>1, <3>2, <5>2, NotMisplaced
          <6>2. QED BY <1>1, <1>3, <3>2, <4>1, <6>1, ShownGrown
        <5>3. QED BY <5>1, <5>2
      <4>3. QED BY <3>5, <3>6, <3>7, <4>2 DEF vt_redraw
    <3>8. CASE c \in Printable
      <4>1. PICK pt : pt = Put(vt, c) OBVIOUS
      <4>2. Grown(pt, nt) BY <1>3, <3>2, <3>8, <4>1
      <4>3. Good(pt) /\ pt.tail = vt.tail /\ pt.top = vt.top /\ pt.cursor = vt.cursor
        BY <1>1, <3>8, <4>1, PutGood
      <4>4. RelCursor(pt) = RelCursor(vt) BY <4>3 DEF RelCursor
      <4>5. Shown(nt) = Shown(pt) BY <1>3, <3>2, <3>4, <3>8, <4>2, <4>3, <4>4, ShownGrown
      <4>6. Shown(pt) = [Shown(vt) EXCEPT ![RelCursor(vt)] = c]
        BY <1>1, <3>2, <3>4, <3>8, <4>1, ShownPut
      <4>7. QED BY <3>5, <3>6, <3>8, <4>5, <4>6 DEF vt_redraw
    <3>9. QED BY Zenon, <3>7, <3>8
  <2>4. QED BY <2>2, <2>3
<1>8. QED BY <1>5, <1>6, <1>7

(* Scrolling keeps the invariant and draws the whole screen.                *)
LEMMA ScrollIInv ==
    ASSUME SizesOK, IInv, NEW up \in BOOLEAN, vt_scroll(up)
    PROVE  IInv' /\ ScreenFollows
<1> DEFINE nt == Scrolled(term[cur], DISPLAY_HEIGHT, up)
<1>1. Good(nt) BY ScrolledGood DEF IInv
<1>2. term' = [term EXCEPT ![cur] = nt] /\ cur' = cur /\ screen' = vt_redraw(term'[cur])
  BY DEF vt_scroll
<1> HIDE DEF nt
<1>3. IInv' BY <1>1, <1>2 DEF IInv
<1>4. QED BY <1>2, <1>3 DEF ScreenFollows, ScreenShows

(* So does switching to a terminal; to one that does not exist, it changes  *)
(* nothing.                                                                 *)
LEMMA SwitchIInv ==
    ASSUME SizesOK, IInv, NEW t \in 0..NTERMS, vt_switch(t)
    PROVE  IInv' /\ ScreenFollows
<1>1. term' = term BY DEF vt_switch
<1>2. CASE t \in 0..(NTERMS - 1)
  <2>1. cur' = t /\ screen' = vt_redraw(term[t]) BY <1>2 DEF vt_switch
  <2>2. QED BY <1>1, <1>2, <2>1 DEF IInv, Terms, ScreenFollows, ScreenShows
<1>3. CASE t \notin 0..(NTERMS - 1)
  <2>1. cur' = cur /\ screen' = screen BY <1>3 DEF vt_switch
  <2>2. QED BY <1>1, <2>1 DEF IInv, ScreenFollows, ScreenShows
<1>4. QED BY <1>2, <1>3

(* Keys that only change the modifiers, or go to a callback, leave the      *)
(* terminals alone.                                                         *)
LEMMA UnseenIInv ==
    ASSUME IInv, Unseen
    PROVE  IInv' /\ ScreenFollows
  BY DEF Unseen, IInv, ScreenFollows, ScreenShows

(* Every step keeps the invariant, and the screen follows it.               *)
LEMMA NextIInv ==
    ASSUME SizesOK, IInv, Next
    PROVE  IInv' /\ ScreenFollows
<1>1. CASE \E t \in Terms, c \in Chars : vt_provide_char(t, c) BY <1>1, ProvideIInv
<1>2. CASE \E key \in {"shift", "ctrl", "escape"} \cup Keys : KeyReleased(key)
  BY <1>2, UnseenIInv DEF KeyReleased
<1>3. CASE \E key \in {"shift", "ctrl"} : ModifierPressed(key)
  BY <1>3, UnseenIInv DEF ModifierPressed
<1>4. CASE \E t \in 0..NTERMS : SwitchKey(t) BY <1>4, SwitchIInv DEF SwitchKey
<1>5. CASE \E key \in {"enter", "backspace"} : ScrollKey(key)
  <2>1. PICK key : vt_scroll(key = "backspace") BY <1>5 DEF ScrollKey
  <2>2. (key = "backspace") \in BOOLEAN OBVIOUS
  <2>3. QED BY <2>1, <2>2, ScrollIInv
<1>6. CASE \E key \in Keys : OtherKey(key) BY <1>6, UnseenIInv DEF OtherKey
<1>7. QED BY <1>1, <1>2, <1>3, <1>4, <1>5, <1>6 DEF Next, Terms, Chars

(* The invariant holds in every state.                                      *)
LEMMA IInvHolds ==
    ASSUME SizesOK
    PROVE  Spec => []IInv
<1>1. vt_init => IInv BY InitIInv
<1>2. IInv /\ [Next]_vars => IInv'
  <2>1. IInv /\ UNCHANGED vars => IInv' BY DEF IInv, vars
  <2>2. QED BY <2>1, NextIInv
<1>3. QED BY <1>1, <1>2, PTL DEF Spec

(* Whatever is written, backspaced or scrolled, on a display and a buffer   *)
(* of any size: head, tail and top are starts of rows, the tail never       *)
(* reaches the head and the cursor is in the rows between them (virtterm.c, *)
(* vt_handle_char and vt_provide_char).                                     *)
THEOREM CursorKept ==
    ASSUME SizesOK
    PROVE  Spec => []CursorInBuffer
<1>1. IInv => CursorInBuffer
  <2>1. SUFFICES ASSUME IInv, NEW t \in Terms
                 PROVE  /\ \A p \in {term[t].head, term[t].tail, term[t].top} : p % DISPLAY_WIDTH = 0
                        /\ term[t].head # term[t].tail
                        /\ circ_dist(term[t].cursor, term[t].head) < circ_dist(term[t].tail, term[t].head)
    BY DEF CursorInBuffer, IInv
  <2>2. Good(term[t]) BY <2>1 DEF IInv
  <2>3. \A p \in Pos : p \in Int BY PosIs
  <2>4. QED BY <2>2, <2>3, Parts, WholeIs
<1>2. QED BY <1>1, IInvHolds, PTL

(* Drawing one cell is as good as drawing all (vt_provide_char): a screen   *)
(* that shows the current terminal goes on showing it through every         *)
(* character, key and switch, unless a character is written where the       *)
(* cursor is above the top row and taken for one below it; and whenever the *)
(* top or the terminal changes the screen is right again.                   *)
THEOREM ScreenKept ==
    ASSUME SizesOK
    PROVE  Spec => [][ScreenFollows]_vars
<1>1. IInv /\ [Next]_vars => [ScreenFollows]_vars BY NextIInv
<1>2. QED BY <1>1, IInvHolds, PTL DEF Spec
=============================================================================
