------------------------------- MODULE MCMesh -------------------------------
(* Small meshes for MeshRouter.                                            *)
EXTENDS MeshRouter

CONSTANTS a, b, c, d    \* servers

Both(x, y, k) == {<<x, y, k>>, <<y, x, k>>}

\* Three servers, each connected to the two others once.
Triangle == Both(a, b, 1) \cup Both(b, c, 1) \cup Both(a, c, 1)

\* A triangle with a fourth server behind one of its corners: the shortest
\* way to it is two hops, the longest simple path three.  Two of the servers
\* dialled each other, so they hold two connections.
Kite == Triangle \cup Both(a, b, 2) \cup Both(c, d, 1)
=============================================================================
