-------------------------- MODULE MCSubscriberSync --------------------------
(* Small instances of SubscriberSync.                                      *)
EXTENDS SubscriberSync

CONSTANTS a, b, c,    \* servers
          x, y        \* base stations, at a and at b

\* Every server dials every other, or a and c meet only through b.
FullMesh == {l \in Server \X Server : l[1] # l[2]}
Line == {<<a, b>>, <<b, a>>, <<b, c>>, <<c, b>>}

HomeOf == [s \in Client |-> IF s = x THEN a ELSE b]
=============================================================================
