----------------------- MODULE MCControlPlaneProcess -----------------------
(* Two process ids, two kubectl children, two commands that may overlap, and *)
(* two concurrent requests of a server.                                      *)
EXTENDS ControlPlaneProcess, TLC

CONSTANTS p1, p2, m1, m2, t1, t2, lifespan, q1, q2

MCPids == {p1, p2}
MCManagers == {m1, m2}
MCTunnels == {t1, t2}
MCThreads == {lifespan, q1, q2}

MCSymmetry == Permutations(MCPids) \cup Permutations(MCManagers)
                 \cup Permutations(MCTunnels) \cup Permutations({q1, q2})
=============================================================================
