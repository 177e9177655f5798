---------------------------- MODULE BridgedPair ----------------------------
(***************************************************************************)
(* What the proxy bridge promises the two radios of each call it bridges:  *)
(* a call is taken once, and only so many at a time; a radio rings only    *)
(* for a call that was taken; the caller is connected only after the       *)
(* target has picked up, and the target only after the caller; no radio    *)
(* goes back.  No queues, no messages, no time-outs.                       *)
(***************************************************************************)
EXTENDS Naturals, FiniteSets

CONSTANTS Call,           \* bridged calls
          MaxConcurrent   \* how many at a time

VARIABLES caller,   \* the calling radio of each call
          target,   \* the target radio of each call
          bridge    \* what the bridge has made of the call: none, open or closed

pairVars == <<caller, target, bridge>>

PairInit ==
    /\ caller = [k \in Call |-> "idle"]
    /\ target = [k \in Call |-> "idle"]
    /\ bridge = [k \in Call |-> "none"]

\* The bridge takes a call, and gives it up.
Take(k) ==
    /\ bridge[k] = "none" /\ caller[k] # "idle"
    /\ Cardinality({j \in Call : bridge[j] = "open"}) < MaxConcurrent
    /\ bridge' = [bridge EXCEPT ![k] = "open"]
    /\ UNCHANGED <<caller, target>>
GiveUp(k) ==
    /\ bridge[k] = "open"
    /\ bridge' = [bridge EXCEPT ![k] = "closed"]
    /\ UNCHANGED <<caller, target>>

CallerGoes(k, from, to) ==
    /\ caller[k] \in from
    /\ caller' = [caller EXCEPT ![k] = to]
    /\ UNCHANGED <<target, bridge>>

\* The caller is told that the target's side is asked, and that it has answered.
Dial(k) == CallerGoes(k, {"idle"}, "calling")
Accept(k) == bridge[k] # "none" /\ CallerGoes(k, {"calling"}, "ringing")
Connect(k) ==
    /\ target[k] \in {"answered", "talking", "over"}
    /\ CallerGoes(k, {"calling", "ringing"}, "talking")
CallerEnds(k) == CallerGoes(k, {"calling", "ringing", "talking"}, "over")

TargetGoes(k, from, to) ==
    /\ target[k] \in from
    /\ target' = [target EXCEPT ![k] = to]
    /\ UNCHANGED <<caller, bridge>>

\* The target hears that the caller is there only when it is, or was.
Ring(k) == bridge[k] # "none" /\ TargetGoes(k, {"idle"}, "ringing")
PickUp(k) == TargetGoes(k, {"ringing"}, "answered")
NoAnswer(k) == TargetGoes(k, {"ringing"}, "refused")
Confirm(k) == caller[k] \in {"talking", "over"} /\ TargetGoes(k, {"answered"}, "talking")
TargetEnds(k) == TargetGoes(k, {"answered", "talking"}, "over")

\* The bridge is lost, and with it all its outbound legs.
BridgeLost ==
    /\ target' = [k \in Call |-> IF target[k] = "ringing" THEN "refused"
                                 ELSE IF target[k] \in {"answered", "talking"} THEN "over"
                                 ELSE target[k]]
    /\ UNCHANGED <<caller, bridge>>

PairNext ==
    \/ \E k \in Call :
          \/ Take(k) \/ GiveUp(k)
          \/ Dial(k) \/ Accept(k) \/ Connect(k) \/ CallerEnds(k)
          \/ Ring(k) \/ PickUp(k) \/ NoAnswer(k) \/ Confirm(k) \/ TargetEnds(k)
    \/ BridgeLost

PairSpec == PairInit /\ [][PairNext]_pairVars
=============================================================================
