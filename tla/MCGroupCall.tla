---------------------------- MODULE MCGroupCall ----------------------------
(* Small instances of GroupCall.                                           *)
EXTENDS GroupCall

\* Every server is connected to every other.
FullMesh == {l \in Server \X Server : l[1] # l[2]}
=============================================================================
