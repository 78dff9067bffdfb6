----------------------------- MODULE InitCalls -----------------------------
(***************************************************************************)
(* kernel/util/init.c: init_call_all runs the functions recorded in the    *)
(* .init section, each after the functions it depends on.                  *)
(*                                                                         *)
(* A section is a sequence of records [name, deps] in link order.  The     *)
(* outcome of a boot is a record: the names called, in order, the number   *)
(* of the search that last reached each function (if_search), and how the  *)
(* walk ended ("ok", or the panic or failed KASSERT that stopped it).      *)
(***************************************************************************)
EXTENDS Naturals, Sequences, SequencesExt

\* the inner list_iterate of _init_call: the first function of that name, 0 when
\* there is none
Find(funcs, name) ==
    LET hits == {i \in 1 .. Len(funcs) : funcs[i].name = name}
    IN  IF hits = {} THEN 0 ELSE CHOOSE i \in hits : \A j \in hits : i <= j

CalledNever(b, i) == FALSE

Called(b, i) == Contains(b.called, i)

Panics(b, why) == [b EXCEPT !.end = why]

RECURSIVE _init_call(_, _, _), CallDeps(_, _, _, _)

\* _init_call: first every dependency, in the order of the list, then the function itself
_init_call(funcs, i, b) ==
    LET d == CallDeps(funcs, i, 1, b) IN
    IF d.end # "ok" THEN d
    ELSE IF Called(d, i) THEN Panics(d, "called twice")
    ELSE [d EXCEPT !.called = Append(@, i)]

CallDeps(funcs, i, k, b) ==
    IF b.end # "ok" \/ k > Len(funcs[i].deps) THEN b
    ELSE LET f == Find(funcs, funcs[i].deps[k]) IN
         IF f = 0 THEN Panics(b, "missing")
         ELSE IF b.search[i] = b.search[f] THEN Panics(b, "circular")
         ELSE CallDeps(funcs, i, k + 1,
                       IF Called(b, f) THEN b
                       ELSE _init_call(funcs, f, [b EXCEPT !.search[f] = b.search[i]]))

\* the list init_call_all builds: no function called, none reached by a search
Parsed(funcs) == [called |-> <<>>, count |-> 0, end |-> "ok",
                  search |-> [i \in 1 .. Len(funcs) |-> 0]]

\* init_call_all: a search for every function not called yet, in link order
init_call_all(funcs) ==
    FoldLeft(LAMBDA b, i :
                 IF b.end # "ok" \/ Called(b, i) THEN b
                 ELSE _init_call(funcs, i, [b EXCEPT !.count = @ + 1,
                                                     !.search[i] = b.count + 1]),
             Parsed(funcs), [i \in 1 .. Len(funcs) |-> i])

-----------------------------------------------------------------------------
Depends(funcs) == {e \in (1 .. Len(funcs)) \X (1 .. Len(funcs)) :
                      Contains(funcs[e[1]].deps, funcs[e[2]].name)}

RECURSIVE Reach(_, _)
Reach(R, S) == LET T == S \cup {e[2] : e \in {r \in R : r[1] \in S}}
               IN  IF T = S THEN S ELSE Reach(R, T)

After(R, S) == Reach(R, {e[2] : e \in {r \in R : r[1] \in S}})

Cyclic(funcs) == \E i \in 1 .. Len(funcs) : i \in After(Depends(funcs), {i})

\* no function is reached through two of another's dependencies
NoShortcut(funcs) ==
    \A i \in 1 .. Len(funcs) : \A j, k \in 1 .. Len(funcs[i].deps) :
        LET below(n) == Reach(Depends(funcs), {Find(funcs, funcs[i].deps[n])})
        IN  j # k => below(j) \cap below(k) = {}

\* A boot that gets through the section has called every function exactly once and each
\* one after all the functions it depends on: init.c's recursion, with its per-search
\* marks and already-called test, is a topological sort.
BootInOrder(funcs) ==
    LET b == init_call_all(funcs)
        At(i) == CHOOSE k \in 1 .. Len(b.called) : b.called[k] = i
    IN  b.end = "ok" =>
            /\ IsInjective(b.called)
            /\ ToSet(b.called) = 1 .. Len(funcs)
            /\ \A e \in Depends(funcs) : At(e[2]) < At(e[1])

\* The walk stops for the reason its panic names: a name nobody defines, or functions that
\* the dependencies lead back to; a section with neither boots, unless two dependencies of
\* one function meet again below it (init.c:46 takes that for a circle).
BootStopsFor(funcs) ==
    LET b == init_call_all(funcs)
        missing == \E i \in 1 .. Len(funcs) : \E k \in 1 .. Len(funcs[i].deps) :
                       Find(funcs, funcs[i].deps[k]) = 0
    IN  /\ b.end \in {"ok", "missing", "circular"}
        /\ b.end = "missing" => missing
        /\ b.end = "ok" => ~missing /\ ~Cyclic(funcs)
        /\ b.end = "circular" => Cyclic(funcs) \/ ~NoShortcut(funcs)
============================================================================
