--------------------------- MODULE MCOperationLock ---------------------------
(* Four contenders in three processes on two hosts: enough for a dead     *)
(* owner, two contenders that clear its lock and a fourth that arrives    *)
(* while they do, in the owner's host and in another one.                 *)
EXTENDS OperationLock, TLC

CONSTANTS c1, c2, c3, c4, p1, p2, p3, h1, h2

MCContenders == {c1, c2, c3, c4}
MCProcs == {p1, p2, p3}
MCProcOf == (c1 :> p1) @@ (c2 :> p2) @@ (c3 :> p2) @@ (c4 :> p3)
\* c2 and c3 differ in nothing but their token.
MCSymmetry == Permutations({c2, c3})
MCHostOf == (p1 :> h1) @@ (p2 :> h1) @@ (p3 :> h2)
=============================================================================
