------------------------------- MODULE MCVfs -------------------------------
(* Small instances of Vfs for TLC.                                          *)
EXTENDS Vfs

P(base, dirs, name) == [base |-> base, dirs |-> dirs, name |-> name]

(* "a", "/a/b" and "../b".                                                  *)
Paths == {P("cwd", <<>>, "a"), P("root", <<"a">>, "b"), P("up", <<>>, "b")}

(* The uninitialised pointer of do_open is NULL, points to no vnode, or to  *)
(* any of them.                                                             *)
LeftOver == Ino \cup {NULL, Wild}
=============================================================================
