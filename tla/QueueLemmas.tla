---------------------------- MODULE QueueLemmas ----------------------------
(***************************************************************************)
(* What appending, removing and concatenating do to the elements of a      *)
(* queue without duplicates: the facts about lists on which the proofs     *)
(* about the kernel's queues rest.                                         *)
(***************************************************************************)
EXTENDS QueueOps, SequenceTheorems, TLAPS

(* The elements of a sequence, by position.                                 *)
LEMMA RangeProperties ==
    ASSUME NEW S, NEW s \in Seq(S)
    PROVE  /\ Range(s) \subseteq S
           /\ \A x : x \in Range(s) <=> \E i \in 1..Len(s) : s[i] = x
           /\ s = <<>> <=> Range(s) = {}
BY EmptySeq DEF Range

(* Appending a new element keeps the others and adds it.                    *)
LEMMA AppendElements ==
    ASSUME NEW S, NEW s \in Seq(S), NEW e \in S
    PROVE  /\ Range(Append(s, e)) = Range(s) \cup {e}
           /\ IsInjective(s) /\ e \notin Range(s) => IsInjective(Append(s, e))
<1> DEFINE a == Append(s, e)
<1>1. /\ a \in Seq(S) /\ Len(a) = Len(s) + 1 /\ Len(s) \in Nat
      /\ DOMAIN a = 1..(Len(s) + 1) /\ DOMAIN s = 1..Len(s)
      /\ \A i \in 1..Len(s) : a[i] = s[i]
      /\ a[Len(s) + 1] = e
  BY AppendProperties, LenProperties
<1> HIDE DEF a
<1>2. \A i \in DOMAIN a : i \in DOMAIN s \/ i = Len(s) + 1
  BY <1>1
<1>3. \A i \in DOMAIN s : i \in DOMAIN a
  BY <1>1
<1>4. Len(s) + 1 \in DOMAIN a
  BY <1>1
<1>5. Range(a) = Range(s) \cup {e}
  BY <1>1, <1>2, <1>3, <1>4 DEF Range
<1>6. IsInjective(s) /\ e \notin Range(s) => IsInjective(a)
  BY <1>1, <1>2, <1>3, <1>4 DEF Range, IsInjective
<1> QED BY <1>5, <1>6 DEF a

(* Removing one position of a sequence without duplicates removes exactly   *)
(* that element.                                                            *)
LEMMA RemoveAtElements ==
    ASSUME NEW S, NEW s \in Seq(S), NEW k \in 1..Len(s), IsInjective(s)
    PROVE  /\ RemoveAt(s, k) \in Seq(S)
           /\ Len(RemoveAt(s, k)) = Len(s) - 1
           /\ Range(RemoveAt(s, k)) = Range(s) \ {s[k]}
           /\ IsInjective(RemoveAt(s, k))
<1> DEFINE l == SubSeq(s, 1, k - 1)
           r == SubSeq(s, k + 1, Len(s))
           d == RemoveAt(s, k)
<1>1. s \in [1..Len(s) -> S] /\ Len(s) \in Nat /\ DOMAIN s = 1..Len(s)
  BY LenProperties
<1>2. l \in Seq(S) /\ Len(l) = k - 1 /\ \A i \in 1..(k - 1) : l[i] = s[i]
  BY <1>1, SubSeqProperties
<1>3. /\ r \in Seq(S) /\ Len(r) = Len(s) - k
      /\ \A i \in 1..(Len(s) - k) : r[i] = s[k + i]
  <2>1. \A i \in (k + 1)..Len(s) : s[i] \in S
    BY <1>1
  <2>2. /\ r \in Seq(S)
        /\ Len(r) = IF k + 1 <= Len(s) THEN Len(s) - (k + 1) + 1 ELSE 0
        /\ \A i \in 1 .. Len(s) - (k + 1) + 1 : r[i] = s[k + 1 + i - 1]
    BY <1>1, <2>1, SubSeqProperties
  <2> HIDE DEF r
  <2>3. Len(r) = Len(s) - k
    <3>1. k \in Nat /\ Len(s) \in Nat /\ k <= Len(s)
      BY <1>1
    <3>2. CASE k + 1 <= Len(s)
      <4>1. Len(r) = Len(s) - (k + 1) + 1
        BY <3>2, <2>2
      <4> QED BY <4>1, <3>1, <1>1
    <3>3. CASE ~(k + 1 <= Len(s))
      <4>1. Len(r) = 0
        BY <3>3, <2>2
      <4>2. k = Len(s)
        BY <3>1, <3>3
      <4>3. Len(s) - k = 0
        BY <4>2, <1>1
      <4> QED BY <4>1, <4>3
    <3> QED BY <3>2, <3>3
  <2>4. ASSUME NEW i \in 1..(Len(s) - k) PROVE r[i] = s[k + i]
    <3>1. i \in 1 .. Len(s) - (k + 1) + 1 /\ k + 1 + i - 1 = k + i
      BY <1>1
    <3> QED BY <2>2, <3>1
  <2> QED BY <2>2, <2>3, <2>4
<1>4. d = l \o r
  BY DEF RemoveAt
<1> HIDE DEF l, r, d
<1>5. /\ d \in Seq(S) /\ Len(d) = Len(s) - 1
      /\ \A i \in 1..(Len(s) - 1) : d[i] = IF i < k THEN s[i] ELSE s[i + 1]
  <2>1. /\ d \in Seq(S) /\ Len(d) = Len(l) + Len(r)
        /\ \A i \in 1..Len(l) + Len(r) :
             d[i] = IF i <= Len(l) THEN l[i] ELSE r[i - Len(l)]
    BY <1>2, <1>3, <1>4, ConcatProperties
  <2>2. Len(l) + Len(r) = Len(s) - 1
    BY <1>1, <1>2, <1>3
  <2>3. ASSUME NEW i \in 1..(Len(s) - 1)
        PROVE  d[i] = IF i < k THEN s[i] ELSE s[i + 1]
    <3>1. CASE i < k
      <4>1. i \in 1..(k - 1) /\ i <= Len(l)
        BY <1>1, <1>2, <3>1
      <4> QED BY <4>1, <2>1, <2>2, <1>2, <3>1
    <3>2. CASE ~(i < k)
      <4>1. /\ ~(i <= Len(l)) /\ i - Len(l) \in 1..(Len(s) - k)
            /\ k + (i - Len(l)) = i + 1
        BY <1>1, <1>2, <3>2
      <4>2. d[i] = r[i - Len(l)]
        BY <4>1, <2>1, <2>2
      <4> QED BY <4>1, <4>2, <1>3, <3>2
    <3> QED BY <3>1, <3>2
  <2> QED BY <2>1, <2>2, <2>3
<1>6. DOMAIN d = 1..(Len(s) - 1)
  BY <1>1, <1>5, LenProperties
<1>7. IsInjective(d)
  <2>1. SUFFICES ASSUME NEW i \in 1..(Len(s) - 1), NEW j \in 1..(Len(s) - 1),
                        d[i] = d[j]
                 PROVE  i = j
    BY <1>6 DEF IsInjective
  <2> DEFINE pos(n) == IF n < k THEN n ELSE n + 1
  <2>2. pos(i) \in DOMAIN s /\ d[i] = s[pos(i)] /\ pos(j) \in DOMAIN s /\ d[j] = s[pos(j)]
    BY <1>1, <1>5
  <2>3. pos(i) = pos(j)
    <3> HIDE DEF pos
    <3> QED BY <2>1, <2>2 DEF IsInjective
  <2> QED BY <2>3, <1>1
<1>8. ASSUME NEW x \in Range(d) PROVE x \in Range(s) \ {s[k]}
  BY <1>1, <1>5, <1>6, <1>8 DEF Range, IsInjective
<1>9. ASSUME NEW x \in Range(s) \ {s[k]} PROVE x \in Range(d)
  <2>1. PICK i \in 1..Len(s) : s[i] = x
    BY <1>1 DEF Range
  <2>2. CASE i < k
    <3>1. i \in 1..(Len(s) - 1) /\ d[i] = x
      BY <1>1, <1>5, <2>1, <2>2
    <3> QED BY <3>1, <1>6 DEF Range
  <2>3. CASE i > k
    <3>1. i - 1 \in 1..(Len(s) - 1) /\ d[i - 1] = x
      BY <1>1, <1>5, <2>1, <2>3
    <3> QED BY <3>1, <1>6 DEF Range
  <2> QED BY <1>1, <2>1, <2>2, <2>3
<1> QED BY <1>5, <1>7, <1>8, <1>9 DEF d

(* The same for the first position, as Head and Tail.                       *)
LEMMA TailElements ==
    ASSUME NEW S, NEW s \in Seq(S), s # <<>>, IsInjective(s)
    PROVE  /\ Head(s) \in S /\ Head(s) \in Range(s)
           /\ Tail(s) \in Seq(S)
           /\ Len(Tail(s)) = Len(s) - 1
           /\ Range(Tail(s)) = Range(s) \ {Head(s)}
           /\ IsInjective(Tail(s))
<1>1. /\ Head(s) \in S /\ Head(s) = s[1] /\ Tail(s) \in Seq(S)
      /\ Len(s) \in Nat \ {0} /\ DOMAIN s = 1..Len(s)
      /\ Len(Tail(s)) = Len(s) - 1
      /\ \A i \in 1..(Len(s) - 1) : Tail(s)[i] = s[i + 1]
  BY HeadTailProperties, LenProperties, EmptySeq
<1>2. DOMAIN Tail(s) = 1..(Len(s) - 1)
  BY <1>1, LenProperties
<1> DEFINE d == Tail(s)
<1> HIDE DEF d
<1>3. IsInjective(d)
  BY <1>1, <1>2 DEF IsInjective, d
<1>4. ASSUME NEW x \in Range(d) PROVE x \in Range(s) \ {s[1]}
  BY <1>1, <1>2, <1>4 DEF Range, IsInjective, d
<1>5. ASSUME NEW x \in Range(s) \ {s[1]} PROVE x \in Range(d)
  <2>1. PICK i \in 1..Len(s) : s[i] = x
    BY <1>1 DEF Range
  <2>2. i - 1 \in 1..(Len(s) - 1) /\ d[i - 1] = x
    BY <1>1, <2>1, <1>5 DEF d
  <2> QED BY <2>2, <1>2 DEF Range, d
<1>6. Head(s) \in Range(s)
  BY <1>1 DEF Range
<1> QED BY <1>1, <1>3, <1>4, <1>5, <1>6 DEF d

(* Joining two queues that share no element.                                *)
LEMMA ConcatElements ==
    ASSUME NEW S, NEW s \in Seq(S), NEW r \in Seq(S)
    PROVE  /\ Range(s \o r) = Range(s) \cup Range(r)
           /\ IsInjective(s) /\ IsInjective(r) /\ Range(s) \cap Range(r) = {}
                => IsInjective(s \o r)
<1> DEFINE c == s \o r
<1>1. /\ c \in Seq(S) /\ Len(c) = Len(s) + Len(r)
      /\ Len(s) \in Nat /\ Len(r) \in Nat
      /\ DOMAIN c = 1..(Len(s) + Len(r)) /\ DOMAIN s = 1..Len(s) /\ DOMAIN r = 1..Len(r)
      /\ \A i \in 1..(Len(s) + Len(r)) :
           c[i] = IF i <= Len(s) THEN s[i] ELSE r[i - Len(s)]
  BY ConcatProperties, LenProperties
<1> HIDE DEF c
<1>2. \A i \in DOMAIN s : i \in DOMAIN c /\ c[i] = s[i]
  BY <1>1
<1>3. \A i \in DOMAIN r : i + Len(s) \in DOMAIN c /\ c[i + Len(s)] = r[i]
  BY <1>1
<1>4. \A i \in DOMAIN c : \/ i \in DOMAIN s /\ c[i] = s[i]
                          \/ i - Len(s) \in DOMAIN r /\ c[i] = r[i - Len(s)]
  BY <1>1
<1>5. Range(c) = Range(s) \cup Range(r)
  BY <1>2, <1>3, <1>4 DEF Range
<1>6. ASSUME IsInjective(s), IsInjective(r), Range(s) \cap Range(r) = {},
             NEW i \in DOMAIN c, NEW j \in DOMAIN c, c[i] = c[j]
      PROVE  i = j
  <2>1. CASE i \in DOMAIN s /\ c[i] = s[i] /\ j \in DOMAIN s /\ c[j] = s[j]
    BY <1>6, <2>1 DEF IsInjective
  <2>2. CASE /\ i - Len(s) \in DOMAIN r /\ c[i] = r[i - Len(s)]
             /\ j - Len(s) \in DOMAIN r /\ c[j] = r[j - Len(s)]
    <3>1. i - Len(s) = j - Len(s)
      BY <1>6, <2>2 DEF IsInjective
    <3> QED BY <3>1, <1>1
  <2>3. CASE /\ i \in DOMAIN s /\ c[i] = s[i]
             /\ j - Len(s) \in DOMAIN r /\ c[j] = r[j - Len(s)]
    BY <1>6, <2>3 DEF Range
  <2>4. CASE /\ i - Len(s) \in DOMAIN r /\ c[i] = r[i - Len(s)]
             /\ j \in DOMAIN s /\ c[j] = s[j]
    BY <1>6, <2>4 DEF Range
  <2> QED BY <1>4, <2>1, <2>2, <2>3, <2>4
<1>7. IsInjective(s) /\ IsInjective(r) /\ Range(s) \cap Range(r) = {} => IsInjective(c)
  BY <1>6 DEF IsInjective
<1> QED BY <1>5, <1>7 DEF c

(* Removing the link of an element, if it is there.                         *)
LEMMA WithoutElements ==
    ASSUME NEW S, NEW s \in Seq(S), NEW x
    PROVE  /\ Without(s, x) \in Seq(S)
           /\ IsInjective(s) => /\ Range(Without(s, x)) = Range(s) \ {x}
                                /\ IsInjective(Without(s, x))
<1>1. CASE x \notin Range(s)
  BY <1>1 DEF Without
<1>2. CASE x \in Range(s)
  <2> DEFINE k == CHOOSE i \in DOMAIN s : s[i] = x
  <2>1. k \in 1..Len(s) /\ s[k] = x
    BY <1>2, LenProperties DEF Range
  <2>2. Without(s, x) = RemoveAt(s, k)
    BY <1>2 DEF Without
  <2> HIDE DEF k
  <2>3. SubSeq(s, 1, k - 1) \in Seq(S) /\ SubSeq(s, k + 1, Len(s)) \in Seq(S)
    BY <2>1, SubSeqProperties, LenProperties
  <2>4. RemoveAt(s, k) \in Seq(S)
    BY <2>3, ConcatProperties DEF RemoveAt
  <2> QED BY <2>1, <2>2, <2>4, RemoveAtElements
<1> QED BY <1>1, <1>2
=============================================================================
