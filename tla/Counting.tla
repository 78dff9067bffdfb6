------------------------------ MODULE Counting ------------------------------
(* What the proofs about the file system and about open files use of        *)
(* numbers and of finite sets.  Those proofs take it as a hypothesis, which *)
(* their last lemma draws from the library of finite sets.                  *)
EXTENDS Integers, FiniteSets

(* A set of numbers has a least one.                                        *)
LeastNumber == \A S \in SUBSET Nat : S # {} => \E m \in S : \A n \in S : m <= n

(* Which sets are finite.                                                   *)
FiniteSetsClosed ==
    /\ \A a, b \in Int : IsFiniteSet(a..b)
    /\ \A S, T : IsFiniteSet(S) /\ IsFiniteSet(T) => IsFiniteSet(S \X T)
    /\ \A S, T : IsFiniteSet(T) /\ S \subseteq T => IsFiniteSet(S)

(* How many elements they have.                                             *)
SizesCounted ==
    /\ \A S : IsFiniteSet(S) => Cardinality(S) \in Nat
    /\ Cardinality({}) = 0
    /\ \A e : Cardinality({e}) = 1
    /\ \A S, e : IsFiniteSet(S) /\ e \notin S => Cardinality(S \cup {e}) = Cardinality(S) + 1
    /\ \A S, e : IsFiniteSet(S) /\ e \in S => Cardinality(S \ {e}) = Cardinality(S) - 1

Facts == LeastNumber /\ FiniteSetsClosed /\ SizesCounted

=============================================================================
