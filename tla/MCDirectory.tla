---------------------------- MODULE MCDirectory ----------------------------
(***************************************************************************)
(* How a server learns where the radios and the other servers are: small   *)
(* instances of SubscriberSync, which this module extends, and of          *)
(* PeerDiscovery; part says which of them a behaviour is about.            *)
(***************************************************************************)
EXTENDS MCSubscriberSync

VARIABLES part, known, loops, conns, losses

\* Each server is configured with the next one; or two with each other, whose
\* connections break.
Dsc == INSTANCE PeerDiscovery WITH
           Configured <- {<<a, b>>, <<b, c>>}, Advertised <- {a, b, c}, MaxBreaks <- 0,
           breaks <- losses
Two == INSTANCE PeerDiscovery WITH
           Server <- {a, b}, Configured <- {<<a, b>>, <<b, a>>}, Advertised <- {a, b},
           MaxBreaks <- 2, breaks <- losses

dscVars == <<known, loops, conns, losses>>

MCInit ==
    /\ part \in {"radios", "chain", "pair"}
    /\ Init
    /\ IF part = "pair" THEN Two!Init ELSE Dsc!Init

MCNext ==
    \/ part = "radios" /\ Next /\ UNCHANGED <<part, dscVars>>
    \/ part = "chain" /\ Dsc!Next /\ UNCHANGED <<part, vars>>
    \/ part = "pair" /\ Two!Next /\ UNCHANGED <<part, vars>>

\* The fairness of the parts' own modules.
MCFairness ==
    /\ \A l \in Link :
          /\ WF_vars(part = "radios" /\ ReadLoop(l))
          /\ WF_vars(part = "radios" /\ Return(l))
    /\ \A n \in Server : SF_vars(part = "radios" /\ AntiEntropy(n))
    /\ WF_dscVars(part # "radios" /\ Dsc!Dial)
    /\ WF_dscVars(part # "radios" /\ Dsc!ReadLoops)

MCSpec == MCInit /\ [][MCNext]_<<part, vars, dscVars>> /\ MCFairness

-----------------------------------------------------------------------------
\* Servers find one another and dial each of the others once: PeerDiscovery's
\* property, of the behaviours that are about it.
Discovery ==
    /\ part = "chain" => Dsc!Discovery
    /\ part = "pair" => Two!Discovery
=============================================================================
