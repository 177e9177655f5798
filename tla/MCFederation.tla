---------------------------- MODULE MCFederation ----------------------------
(***************************************************************************)
(* Small instances of the parts of the federation: part says which of them *)
(* a behaviour is about.  They share no state beyond what their modules    *)
(* take from one another (a flood, a registered peer).  The mesh, which    *)
(* this module extends, is also run as "lossy".                            *)
(***************************************************************************)
EXTENDS MCMesh, FederationParts

VARIABLES part,
          alive, outbox, stage, current, remembered, births, acted

\* Streams that break, full send buffers, copies that outlive the dedup window.
Los == INSTANCE MeshRouter WITH
           Server <- {a, b, c}, Stream <- Triangle, SendBuf <- 1,
           Lossy <- TRUE, LateDelivery <- TRUE,
           up <- alive, queue <- outbox, pc <- stage, cur <- current, seen <- remembered,
           birth <- births, handled <- acted
\* a and c meet through b.
OneLine == {<<a, b>>, <<b, a>>, <<b, c>>, <<c, b>>}
Up == [n \in {b, c} |-> IF n = b THEN a ELSE b]
Depth == [n \in {a, b, c} |-> IF n = a THEN 0 ELSE IF n = b THEN 1 ELSE 2]

losVars == <<alive, outbox, stage, current, remembered, births, acted>>
allVars == <<part, vars, losVars, regVars, prvVars, grpVars>>

\* What the theorems assume of their constants.
ASSUME RegistryInstance == Reg!RegistryConstants
ASSUME PrivateInstance == Prv!CallConstants
ASSUME GroupInstance == Grp!Tree(Up, Depth)

MCInit ==
    /\ part \in {"mesh", "lossy", "registry", "private", "group"}
    /\ Init
    /\ Los!Init
    /\ Reg!Init
    /\ Prv!Init
    /\ part = "group" \/ (source = "station" /\ local = TRUE)
    /\ Grp!Init

MCNext ==
    \/ part = "mesh" /\ Next
       /\ UNCHANGED <<part, losVars, regVars, prvVars, grpVars>>
    \/ part = "lossy" /\ Los!Next
       /\ UNCHANGED <<part, vars, regVars, prvVars, grpVars>>
    \/ part = "registry" /\ Reg!Next
       /\ UNCHANGED <<part, vars, losVars, prvVars, grpVars>>
    \/ part = "private" /\ Prv!Next
       /\ UNCHANGED <<part, vars, losVars, regVars, grpVars>>
    \/ part = "group" /\ Grp!Next
       /\ UNCHANGED <<part, vars, losVars, regVars, prvVars>>

\* The fairness of the parts' own modules.
MCFairness ==
    /\ \A s \in Kite : WF_vars(part = "mesh" /\ ReadLoop(s))
    /\ \A s \in Triangle : WF_losVars(part = "lossy" /\ Los!ReadLoop(s))
    /\ \A k \in Conn :
          /\ SF_regVars(part = "registry" /\ Reg!Own(k))
          /\ SF_regVars(part = "registry" /\ k \in done /\ Reg!EndLoop(k))
          /\ WF_regVars(part = "registry" /\ (Reg!TimerFire(k) \/ Reg!TimerDrop(k) \/ Reg!TimerCleanup(k)))
    /\ \A n \in {"A", "B"} :
          /\ WF_prvVars(part = "private" /\ Prv!ClientLoop(n))
          /\ WF_prvVars(part = "private" /\ Prv!PeerLoop(<<n, 1>>))
    /\ \A l \in Line : WF_grpVars(part = "group" /\ Grp!ReadLoop(l))
    /\ WF_grpVars(part = "group" /\ Grp!Speaker)

MCSpec == MCInit /\ [][MCNext]_allVars /\ MCFairness

-----------------------------------------------------------------------------
(* The parts' properties and types, under one name each (the registry's    *)
(* stand in FederationParts); what they say about the code stands where    *)
(* they are defined.                                                       *)

\* LoopFree and HopBudget, the refinement of the flood, and its end, whatever is
\* lost, broken or forgotten meanwhile.
FloodWithstands ==
    /\ [](Los!TypeOK /\ Los!LoopFree /\ Los!HopBudget)
    /\ Los!RefinesFlood
    /\ Los!FloodDies
\* EvictedLeaves and ParkedResolves: a peer that was replaced leaves, and a parked
\* table is redeemed or forgotten.
PeersResolve == Reg!EvictedLeaves /\ Reg!ParkedResolves
\* HangUpReaches, EndCarried and AnswerCarried: when the caller's side is over the
\* called radio is let go, and what the called radio does to a call that its server
\* has bound arrives at the caller.
PrivateFollows == Prv!HangUpReaches /\ Prv!EndCarried /\ Prv!AnswerCarried
\* A group call's start and end reach the radios of every server.
GroupFollows == Grp!GroupFollows
=============================================================================
