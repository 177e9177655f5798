------------------------------ MODULE MCModules ------------------------------
(***************************************************************************)
(* Small instances of the modules that are Brew clients of the server, in  *)
(* processes of their own: part says which of them a behaviour is about.   *)
(* The proxy bridge is the one this module extends.                        *)
(***************************************************************************)
EXTENDS ProxyBridge, ModuleParts

VARIABLE part

\* Both calls are FreeTetra's.
Networks == [k \in Talk |-> "FT"]

allVars == <<part, vars, echVars, dmrVars, radVars, zelVars>>

\* What the theorems about these modules assume of their constants.
ASSUME ModuleInstance == ModuleConstants

MCInit ==
    /\ part \in {"proxy", "echo", "dmr", "radio", "zello"}
    /\ Init
    /\ Ech!Init
    /\ Dmr!Init
    /\ Rad!Init
    /\ Zel!Init

MCNext ==
    \/ part = "proxy" /\ Next /\ UNCHANGED <<part, echVars, dmrVars, radVars, zelVars>>
    \/ part = "echo" /\ Ech!Next /\ UNCHANGED <<part, vars, dmrVars, radVars, zelVars>>
    \/ part = "dmr" /\ Dmr!Next /\ UNCHANGED <<part, vars, echVars, radVars, zelVars>>
    \/ part = "radio" /\ Rad!Next /\ UNCHANGED <<part, vars, echVars, dmrVars, zelVars>>
    \/ part = "zello" /\ Zel!Next /\ UNCHANGED <<part, vars, echVars, dmrVars, radVars>>

\* The fairness of the parts' own modules.
MCFairness ==
    /\ WF_vars(part = "proxy" /\ Deliver)
    /\ WF_vars(part = "proxy" /\ Handle)
    /\ WF_vars(part = "proxy" /\ Reconnect)
    /\ \A p \in Proc : WF_vars(part = "proxy" /\ Enqueue(p))
    /\ \A k \in Call : WF_vars(part = "proxy" /\ life = "running" /\ DialTimeout(k))
    /\ WF_echVars(part = "echo" /\ \E s \in sleeping : Ech!TakeCapture(s))
    /\ WF_echVars(part = "echo" /\ \E t \in carrying : Ech!QueueCapture(t))
    /\ WF_echVars(part = "echo" /\ Ech!Player)
    /\ \A s \in {"FT", "BM"} :
          /\ WF_dmrVars(part = "dmr" /\ Dmr!Serve(s))
          /\ WF_dmrVars(part = "dmr" /\ Dmr!ReadLoop(s))
    /\ WF_dmrVars(part = "dmr" /\ Dmr!Sweep)
    /\ WF_radVars(part = "radio" /\ Rad!RunLoop)
    /\ WF_radVars(part = "radio" /\ Rad!Frame)
    /\ WF_radVars(part = "radio" /\ Rad!WatchStall)
    /\ WF_radVars(part = "radio" /\ Rad!CommandCancels)
    /\ WF_zelVars(part = "zello" /\ Zel!Loop)
    /\ WF_zelVars(part = "zello" /\ Zel!ReadLoop)
    /\ WF_zelVars(part = "zello" /\ Zel!OnEvent)

MCSpec == MCInit /\ [][MCNext]_allVars /\ MCFairness

-----------------------------------------------------------------------------
(* What must happen in the end, under one name for the proxy bridge and one *)
(* for the others; it is stated where it is defined.                       *)

\* BothLegsEnd and DialEnds: when one leg of a bridged call ends the other does,
\* and no call rings for ever.
LegsEnd == BothLegsEnd /\ DialEnds
\* What is recorded is played or dropped; the networks fall silent with the radios;
\* the web radio heeds its operators and its watchdog; Zello's channel and the
\* talkgroup fall silent with each other's speakers; Stop returns.
ModulesSettle ==
    /\ Ech!EchoEnds
    /\ Dmr!Settles
    /\ Rad!Responsive
    /\ Zel!Silent
    /\ Zel!StopReturns
=============================================================================
