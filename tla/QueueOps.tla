------------------------------ MODULE QueueOps ------------------------------
(* The operations on queues that modules Sequences and Functions lack; they *)
(* are apart from SequencesExt to keep the obligations of the proofs small. *)
EXTENDS Integers, Sequences, Functions

(* list_remove of the link at position i (util/list.h).                     *)
RemoveAt(s, i) == SubSeq(s, 1, i - 1) \o SubSeq(s, i + 1, Len(s))

(* list_remove of the link of x, if x is on the list.                       *)
Without(s, x) == IF x \in Range(s) THEN RemoveAt(s, CHOOSE i \in DOMAIN s : s[i] = x) ELSE s

(* The first of a set of positions, as a set of one, or of none.            *)
FirstOf(T) == {i \in T : \A j \in T : i <= j}
=============================================================================
