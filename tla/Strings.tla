------------------------------ MODULE Strings ------------------------------
(***************************************************************************)
(* The string functions of the kernel (util/string.c) and of the C library *)
(* (user/lib/libc/string.c), which share all of their text but memcmp,     *)
(* memcpy and memset.                                                      *)
(*                                                                         *)
(* A buffer is a sequence of bytes 0 .. 2^CHAR_BITS - 1; 0 ends a string.  *)
(* A pointer into a buffer is an index, NULL is 0.  Comparisons subtract   *)
(* two chars into a signed char, so they keep the width.                   *)
(***************************************************************************)
EXTENDS Integers, Sequences, SequencesExt, FiniteSetsExt

CONSTANT CHAR_BITS

NULL == 0

\* the value a signed char holds after an assignment of x
Schar(x) == LET m == x % 2^CHAR_BITS
            IN  IF m >= 2^(CHAR_BITS - 1) THEN m - 2^CHAR_BITS ELSE m

-----------------------------------------------------------------------------
\* strlen: from p to the first NUL
strlen(b, p) == Min({n \in 0 .. Len(b) - p : b[p + n] = 0})

\* strnlen: the same, looking at no more than count bytes
strnlen(b, p, count) == Min({count} \cup {n \in 0 .. Len(b) - p : b[p + n] = 0})

\* the loop of strncmp and strcmp, count = -1 for no limit
RECURSIVE strncmp(_, _, _, _, _)
strncmp(s, p, t, q, count) ==
    LET res == Schar(s[p] - t[q])
    IN  IF count = 0 THEN 0
        ELSE IF res # 0 \/ s[p] = 0 THEN res
        ELSE strncmp(s, p + 1, t, q + 1, count - 1)

strcmp(s, p, t, q) == strncmp(s, p, t, q, -1)

\* memcmp of libc: the difference of the first two bytes that differ
libc_memcmp(s, p, t, q, count) ==
    LET diff == {n \in 0 .. count - 1 : s[p + n] # t[q + n]}
    IN  IF diff = {} THEN 0 ELSE Schar(s[p + Min(diff)] - t[q + Min(diff)])

\* memcmp of the kernel: repe cmpsb, then 1 or -1 from the zero and sign flags
memcmp(s, p, t, q, count) ==
    LET res == libc_memcmp(s, p, t, q, count)
    IN  IF res = 0 THEN 0 ELSE IF res < 0 THEN -1 ELSE 1

-----------------------------------------------------------------------------
\* memcpy: count bytes of s from p over those of d from q
memcpy(d, q, s, p, count) ==
    [n \in 1 .. Len(d) |-> IF n \in q .. q + count - 1 THEN s[p + n - q] ELSE d[n]]

\* strcpy: the string at p with its NUL
strcpy(d, q, s, p) == memcpy(d, q, s, p, strlen(s, p) + 1)

\* strncpy: at most count bytes, and the NUL only when it is among them; nothing is padded
strncpy(d, q, s, p, count) == memcpy(d, q, s, p, Min({count, strlen(s, p) + 1}))

\* strcat: strcpy over the NUL of d
strcat(d, q, s, p) == strcpy(d, q + strlen(d, q), s, p)

-----------------------------------------------------------------------------
\* the string at p without its NUL
Str(b, p) == SubSeq(b, p, p + strlen(b, p) - 1)

\* strchr: walk to c; the NUL is compared before it ends the walk
RECURSIVE strchr(_, _, _)
strchr(b, p, c) == IF b[p] = c THEN p
                   ELSE IF b[p] = 0 THEN NULL
                   ELSE strchr(b, p + 1, c)

\* strrchr: the last c, the NUL left out
strrchr(b, p, c) == LET at == {n \in p .. p + strlen(b, p) - 1 : b[n] = c}
                    IN  IF at = {} THEN NULL ELSE Max(at)

\* strstr: l1 counts the bytes left of s1; a window is compared while it is at least l2
RECURSIVE StrstrFrom(_, _, _, _, _)
StrstrFrom(s, p, t, l1, l2) ==
    IF l1 < l2 THEN NULL
    ELSE IF memcmp(s, p, t, 1, l2) = 0 THEN p
    ELSE StrstrFrom(s, p + 1, t, l1 - 1, l2)

strstr(s, t) == IF strlen(t, 1) = 0 THEN 1
                ELSE StrstrFrom(s, 1, t, strlen(s, 1), strlen(t, 1))

\* strpbrk: the first byte of the string that is in brkset; its NUL never is
RECURSIVE strpbrk(_, _, _)
strpbrk(b, p, brkset) ==
    IF Contains(Str(brkset, 1), b[p]) THEN p
    ELSE IF b[p] = 0 THEN NULL
    ELSE strpbrk(b, p + 1, brkset)

\* strspn: how many bytes at p are all in charset
RECURSIVE strspn(_, _, _)
strspn(b, p, charset) ==
    IF b[p] = 0 \/ ~Contains(Str(charset, 1), b[p]) THEN 0
    ELSE 1 + strspn(b, p + 1, charset)

\* strtok on the state [b, save]: string is NULL to go on from savept
strtok(st, string, sepset) ==
    LET p == IF string = NULL THEN st.save ELSE string
        q == p + strspn(st.b, p, sepset)
        r == strpbrk(st.b, q, sepset)
    IN  IF p = NULL THEN [st EXCEPT !.ret = NULL]
        ELSE IF st.b[q] = 0 THEN [st EXCEPT !.ret = NULL]
        ELSE IF r = NULL THEN [st EXCEPT !.save = NULL, !.ret = q]
        ELSE [b |-> [st.b EXCEPT ![r] = 0], save |-> r + 1, ret |-> q]

-----------------------------------------------------------------------------
\* The buffer of a string
CStr(s) == Append(s, 0)

\* The comparison functions call two strings equal exactly when their first n bytes are (as
\* far as both strings go), in both libraries, whatever the signed char they subtract into
\* does to the size of the difference; and while the first two bytes that differ are less
\* than half the range apart the sign says which one is larger.
ComparesAlike(s, t, n) ==
    LET a == CStr(s)  b == CStr(t)
        First(x) == SubSeq(x, 1, Min({n, Len(x)}))
        diff == {i \in 1 .. Min({Len(a), Len(b), n}) : a[i] # b[i]}
        k == Min(diff)
        near == diff # {} /\ a[k] - b[k] \in -(2^(CHAR_BITS - 1) - 1) .. 2^(CHAR_BITS - 1) - 1
        m == Min({n, Len(a), Len(b)})
    IN  /\ (strncmp(a, 1, b, 1, n) = 0) <=> First(a) = First(b)
        /\ (strcmp(a, 1, b, 1) = 0) <=> s = t
        /\ near => (strncmp(a, 1, b, 1, n) < 0) = (a[k] < b[k])
        /\ memcmp(a, 1, b, 1, m) = 0 <=> libc_memcmp(a, 1, b, 1, m) = 0
        /\ near => (memcmp(a, 1, b, 1, m) < 0) = (a[k] < b[k])

\* strstr finds the first place where t occurs in s and no other, with a window that never
\* runs past the NUL of s; strchr finds the first of a byte and nothing when strrchr does,
\* and what strrchr finds has no other after it.
FindsFirst(s, t) ==
    LET occurs == {i \in 1 .. Len(s) + 1 : i + Len(t) - 1 <= Len(s)
                                           /\ SubSeq(s, i, i + Len(t) - 1) = t}
    IN  /\ strstr(CStr(s), CStr(t)) = IF occurs = {} THEN NULL ELSE Min(occurs)
        /\ \A i \in 1 .. Len(t) :
              LET first == strchr(CStr(s), 1, t[i])
                  last == strrchr(CStr(s), 1, t[i])
              IN  IF Contains(s, t[i])
                  THEN /\ s[first] = t[i] /\ ~Contains(SubSeq(s, 1, first - 1), t[i])
                       /\ s[last] = t[i] /\ strchr(CStr(s), last + 1, t[i]) = NULL
                  ELSE first = NULL /\ last = NULL

\* the calls strtok(s), strtok(NULL), ... up to the first NULL
RECURSIVE TokensFrom(_, _, _)
TokensFrom(st, string, sepset) ==
    LET r == strtok(st, string, sepset)
    IN  IF r.ret = NULL THEN <<>>
        ELSE <<Str(r.b, r.ret)>> \o TokensFrom(r, NULL, sepset)

\* Repeated calls of strtok, which cuts the buffer as it goes and keeps its place in a static
\* pointer, return the maximal runs of bytes that are not separators, in order, and stop.
StrtokSplits(s, seps) ==
    LET In(i) == i \in 1 .. Len(s) /\ ~Contains(seps, s[i])
        starts == {i \in 1 .. Len(s) : In(i) /\ ~In(i - 1)}
        Run(i) == SubSeq(s, i, Max({j \in i .. Len(s) : \A k \in i .. j : In(k)}))
        order == SetToSortSeq(starts, LAMBDA x, y : x < y)
    IN  TokensFrom([b |-> CStr(s), save |-> NULL, ret |-> NULL], 1, CStr(seps))
            = [n \in 1 .. Len(order) |-> Run(order[n])]

\* A bounded copy changes no byte outside its count, leaves a terminated string exactly when
\* the source is shorter than the count, and strcat appends.
CopiesBounded(s, t, n) ==
    LET d == CStr(s) \o [i \in 1 .. 4 |-> 1]
        c == strncpy(d, 1, CStr(t), 1, n)
        k == Min({n, Len(t)})
    IN  /\ Len(c) = Len(d)
        /\ \A i \in 1 .. Len(d) : i > n => c[i] = d[i]
        /\ SubSeq(c, 1, k) = SubSeq(t, 1, k)
        /\ n > Len(t) => Str(c, 1) = t
        /\ strnlen(CStr(t), 1, n) = k
        /\ Str(strcat(d, 1, CStr(t), 1), 1) = s \o t
============================================================================
