-------------------------------- MODULE Quad --------------------------------
(* Division of double-length integers, by which the 32-bit kernel and the   *)
(* C library do the 64-bit divisions of number() and others: __qdivrem of   *)
(* math.c and quad.c, which hold the same text, and the functions on top of *)
(* it.  A long has 2 * HALF_BITS bits and a quad twice as many; arithmetic  *)
(* on longs is modulo their width.                                          *)
EXTENDS Integers, Sequences, SequencesExt

CONSTANT HALF_BITS

B    == 2 ^ HALF_BITS
LONG == B * B
QUAD == LONG * LONG

With(x, Rest(_)) == Rest(x)

HHALF(t) == t \div B
LHALF(t) == t % B
COMBINE(a, b) == (a * B + b) % LONG

(* The four digits of a quad, and the quad of four digits.                  *)
ToDigits(q) == <<(q \div (B * LONG)) % B, (q \div LONG) % B, (q \div B) % B, q % B>>
OfDigits(d) == COMBINE(d[1], d[2]) * LONG + COMBINE(d[3], d[4])

RECURSIVE Strip(_)
Strip(d) == IF d[1] # 0 THEN d ELSE Strip(Tail(d))

(* Shifts the digits left by sh bits; the last one takes in zeros.          *)
shl(p, sh) ==
    [i \in DOMAIN p |->
        IF i < Len(p) THEN LHALF(p[i] * 2 ^ sh) + p[i + 1] \div 2 ^ (HALF_BITS - sh)
                      ELSE LHALF(p[i] * 2 ^ sh)]

RECURSIVE ShiftFor(_)
ShiftFor(t) == IF t < B \div 2 THEN 1 + ShiftFor(2 * t) ELSE 0

-----------------------------------------------------------------------------
(* A divisor of one digit: schoolbook division, digit by digit.             *)
OneDigit(u, t) ==
    FoldLeft(LAMBDA s, d : With(COMBINE(s.r, d), LAMBDA rbj :
                 [q |-> Append(s.q, rbj \div t), r |-> rbj % t]),
             [q |-> <<>>, r |-> 0], u)

(* D3: the quotient digit is guessed from the two leading digits of the     *)
(* divisor, and lowered while it is seen to be too big.                     *)
RECURSIVE Lower(_, _, _, _, _)
Lower(qhat, rhat, v1, v2, u2) ==
    IF v2 * qhat % LONG <= COMBINE(rhat, u2) THEN qhat
    ELSE IF rhat + v1 >= B THEN qhat - 1
    ELSE Lower(qhat - 1, rhat + v1, v1, v2, u2)

Guess(u0, u1, u2, v) ==
    IF u0 = v[1]
    THEN IF u1 + v[1] >= B THEN B - 1 ELSE Lower(B - 1, u1 + v[1], v[1], v[2], u2)
    ELSE With(COMBINE(u0, u1), LAMBDA nn : Lower(nn \div v[1], nn % v[1], v[1], v[2], u2))

(* D4: u[j..j+n] less qhat times v; t holds the borrow.  u is stored from   *)
(* index 1, so that u[0] of the code is u[1].                               *)
RECURSIVE Subtract(_, _, _, _, _, _)
Subtract(u, v, qhat, j, i, t) ==
    IF i = 0
    THEN With((u[j + 1] - t) % LONG, LAMBDA top :
              [u |-> [u EXCEPT ![j + 1] = LHALF(top)], borrow |-> HHALF(top) # 0])
    ELSE With((u[i + j + 1] - v[i] * qhat - t) % LONG, LAMBDA x :
              Subtract([u EXCEPT ![i + j + 1] = LHALF(x)], v, qhat, j, i - 1,
                       (B - HHALF(x)) % B))

NoAddBack(u, v, j, i, t) == u

(* D6: v is added back where qhat was too big by one.                       *)
RECURSIVE AddBack(_, _, _, _, _)
AddBack(u, v, j, i, t) ==
    IF i = 0 THEN [u EXCEPT ![j + 1] = LHALF(@ + t)]
    ELSE With(t + u[i + j + 1] + v[i], LAMBDA x :
              AddBack([u EXCEPT ![i + j + 1] = LHALF(x)], v, j, i - 1, HHALF(x)))

(* D2 to D7: one quotient digit for each j up to m.                         *)
RECURSIVE Divide(_, _, _, _, _)
Divide(u, v, j, m, q) ==
    IF j > m THEN [q |-> q, u |-> u]
    ELSE With(Guess(u[j + 1], u[j + 2], u[j + 3], v), LAMBDA qhat :
         With(Subtract(u, v, qhat, j, Len(v), 0), LAMBDA s :
              IF s.borrow
              THEN Divide(AddBack(s.u, v, j, Len(v), 0), v, j + 1, m, Append(q, qhat - 1))
              ELSE Divide(s.u, v, j + 1, m, Append(q, qhat))))

(* The last n digits of u, shifted back right by d bits, and u[m] cleared.  *)
(* Without a shift u stays as it is: the division left zeros in front.      *)
Remainder(u, m, d) ==
    [i \in 1..Len(u) |->
        CASE d = 0 \/ i < m + 1 -> u[i]
          [] d > 0 /\ i = m + 1 -> 0
          [] d > 0 /\ i > m + 1 -> u[i] \div 2 ^ d + LHALF(u[i - 1] * 2 ^ (HALF_BITS - d))]

RightFour(s) == SubSeq(<<0, 0, 0, 0>> \o s, Len(s) + 1, Len(s) + 4)

LongDivision(ud, v) ==
    With(Strip(ud), LAMBDA u :
    With(ShiftFor(v[1]), LAMBDA d :
    With(Divide(shl(<<0>> \o u, d), shl(v, d), 0, Len(u) - Len(v), <<>>), LAMBDA r :
        [q |-> OfDigits(RightFour(r.q)),
         r |-> OfDigits(RightFour(Remainder(r.u, Len(u) - Len(v), d)))])))

qdivrem(uq, vq) ==
    IF uq < vq THEN [q |-> 0, r |-> uq]
    ELSE With(Strip(ToDigits(vq)), LAMBDA v :
         IF Len(v) = 1
         THEN With(OneDigit(ToDigits(uq), v[1]), LAMBDA s : [q |-> OfDigits(s.q), r |-> s.r])
         ELSE LongDivision(ToDigits(uq), v))

udivdi3(a, b) == qdivrem(a, b).q
umoddi3(a, b) == qdivrem(a, b).r

(* Signed division of numbers in two's complement.                          *)
Neg(a) == (QUAD - a) % QUAD
Minus(a) == a >= QUAD \div 2
divdi3(a, b) ==
    With(udivdi3(IF Minus(a) THEN Neg(a) ELSE a, IF Minus(b) THEN Neg(b) ELSE b), LAMBDA q :
         IF Minus(a) # Minus(b) THEN Neg(q) ELSE q)

(* The C library's copy.                                                    *)
libc_qdivrem(uq, vq) == qdivrem(uq, vq)
libc_udivdi3(a, b) == libc_qdivrem(a, b).q
libc_umoddi3(a, b) == libc_qdivrem(a, b).r

RECURSIVE Bits(_)
Bits(x) == IF x = 0 THEN 0 ELSE 1 + Bits(x \div 2)

(* y is the greatest power of two up to x, and 0 for x = 0, where log2      *)
(* answers -1.                                                              *)
log2(x) == With(2 ^ Bits(x) \div 2, LAMBDA y : IF y = x THEN Bits(x) - 1 ELSE Bits(x))

-----------------------------------------------------------------------------
Signed(a) == IF Minus(a) THEN a - QUAD ELSE a
Abs(a) == IF a < 0 THEN -a ELSE a

(* For every dividend and divisor other than zero, the digit-by-digit       *)
(* algorithm finds the quotient and the remainder, through the guesses that *)
(* are too big and the digits added back.                                   *)
DividesExactly(a, b) ==
    /\ qdivrem(a, b) = [q |-> a \div b, r |-> a % b]
    /\ libc_udivdi3(a, b) * b + libc_umoddi3(a, b) = a
    /\ Signed(divdi3(a, b)) =
          LET n == Abs(Signed(a)) \div Abs(Signed(b))
          IN  IF Minus(a) # Minus(b) THEN -n ELSE IF n = QUAD \div 2 THEN -n ELSE n

(* log2 rounds up.                                                          *)
Log2RoundsUp(x) == x > 1 => 2 ^ log2(x) >= x /\ 2 ^ (log2(x) - 1) < x
=============================================================================
