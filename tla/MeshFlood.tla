------------------------------ MODULE MeshFlood ------------------------------
(***************************************************************************)
(* What the federation mesh promises about one flooded control message:    *)
(* it starts at one server, spreads only along federation links from a     *)
(* server that has it to one that has not, and is never handed back to the *)
(* server it is attributed to.  No queues, no TTL, no dedup table.         *)
(***************************************************************************)
EXTENDS FiniteSets

CONSTANTS Server,   \* server names (FEDERATION server_name)
          Link,     \* pairs <<a, b>>: a may send to b
          MsgId     \* message identifiers

VARIABLES birth,    \* birth[id]: {} or {<<starter, origin>>}
          holders   \* holders[id]: the servers that have acted on id

fvars == <<birth, holders>>

FloodInit ==
    /\ birth = [id \in MsgId |-> {}]
    /\ holders = [id \in MsgId |-> {}]

\* A server starts a flood, for itself or on behalf of another origin.
Start(n, id, o) ==
    /\ birth[id] = {}
    /\ birth' = [birth EXCEPT ![id] = {<<n, o>>}]
    /\ holders' = [holders EXCEPT ![id] = {n}]

\* b acts on id for the first time, having got it from a.
Spread(a, b, id) ==
    /\ <<a, b>> \in Link
    /\ a \in holders[id]
    /\ b \notin holders[id]
    /\ \A x \in birth[id] : x[2] # b
    /\ holders' = [holders EXCEPT ![id] = @ \cup {b}]
    /\ UNCHANGED birth

FloodNext ==
    \/ \E n, o \in Server, id \in MsgId : Start(n, id, o)
    \/ \E a, b \in Server, id \in MsgId : Spread(a, b, id)

FloodSpec == FloodInit /\ [][FloodNext]_fvars
=============================================================================
