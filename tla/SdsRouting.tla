----------------------------- MODULE SdsRouting -----------------------------
(***************************************************************************)
(* Routing of short data (SDS) messages.  Every base station has one radio *)
(* of the same name; a frame may carry its addresses or not.  Where they   *)
(* are missing the server uses the source's last destination, if that is   *)
(* not too old, or else the only destination there can be.                 *)
(*                                                                         *)
(* A radio that has moved is known at two base stations for a while        *)
(* (Alias), so the read loops of both may work on the same hint.  A hint   *)
(* is read under the read lock; one that is found too old is removed under *)
(* the write lock, after the other loop may have renewed it.               *)
(***************************************************************************)
EXTENDS Naturals, FiniteSets

CONSTANTS Session,   \* base stations
          Alias,     \* Alias[c]: the first subscriber of session c
          Radios, Endpoints, Groups,  \* who a message may be for
          TTL,       \* sdsRouteHintTTL
          MaxTime    \* bound on the clock

\* Nobody has the name of the missing destination.
RoutingConstants ==
    /\ Alias \in [Session -> Radios]
    /\ "none" \notin Radios \cup Endpoints \cup Groups
    /\ TTL \in Nat /\ MaxTime \in Nat

NoHint == [dest |-> "none", updated |-> 0]
Idle == [at |-> "idle"]
Dest == Radios \cup Endpoints \cup Groups

VARIABLES hour,     \* the clock
          hint,     \* sdsRouteHints
          attached, \* sessions with a subscriber
          virtual,  \* virtualSDSEndpoints
          task      \* task[c]: what the session's read loop is working on

vars == <<hour, hint, attached, virtual, task>>

Hint == [dest : Dest \cup {"none"}, updated : 0..MaxTime]

TypeOK ==
    /\ hour \in 0..MaxTime
    /\ hint \in [Radios -> Hint]
    /\ attached \subseteq Session
    /\ virtual \subseteq Endpoints
    /\ \A c \in Session : task[c].at \in {"idle", "expire", "infer", "route"}

Init ==
    /\ hour = 0
    /\ hint = [r \in Radios |-> NoHint]
    /\ attached = {}
    /\ virtual = {}
    /\ task = [c \in Session |-> Idle]

Tick ==
    /\ hour < MaxTime
    /\ hour' = hour + 1
    /\ UNCHANGED <<hint, attached, virtual, task>>

\* Subscribers come and go; the operator makes and removes endpoints.
Attach(c) ==
    /\ attached' = IF c \in attached THEN attached \ {c} ELSE attached \cup {c}
    /\ UNCHANGED <<hour, hint, virtual, task>>
Endpoint(e) ==
    /\ virtual' = IF e \in virtual THEN virtual \ {e} ELSE virtual \cup {e}
    /\ UNCHANGED <<hour, hint, attached, task>>

Fresh(h) == h # NoHint /\ hour - h.updated <= TTL
Goto(c, t) == task' = [task EXCEPT ![c] = t]

-----------------------------------------------------------------------------
(* onVoiceFrameFromClient, for SDS frames                                  *)

\* parseSDSFrameEnvelope finds the addresses.
Addressed(c, d) ==
    /\ c \in attached /\ task[c] = Idle
    /\ Goto(c, [at |-> "route", src |-> Alias[c], dest |-> d])
    /\ UNCHANGED <<hour, hint, attached, virtual>>

\* It does not: inferSDSRoute looks the hint up (sdsRouteHint).
Bare(c) ==
    /\ c \in attached /\ task[c] = Idle
    /\ LET h == hint[Alias[c]] IN
          Goto(c, IF Fresh(h) THEN [at |-> "route", src |-> Alias[c], dest |-> h.dest]
                  ELSE IF h = NoHint THEN [at |-> "infer"]
                  ELSE [at |-> "expire", old |-> h])
    /\ UNCHANGED <<hour, hint, attached, virtual>>

\* Deleted in any case, and "delete stale entry only if unchanged".
AfterExpiryAlways(old, h) == NoHint
AfterExpiry(old, h) == IF h = old THEN NoHint ELSE h

Expire(c) ==
    /\ task[c].at = "expire"
    /\ hint' = [hint EXCEPT ![Alias[c]] = AfterExpiry(task[c].old, @)]
    /\ Goto(c, [at |-> "infer"])
    /\ UNCHANGED <<hour, attached, virtual>>

\* pickPreferredSDSDestination: the only endpoint, the only other radio, the only
\* group, in this order; nothing when the first kind there is has several.
Preferred(endpoints, radios, groups) ==
    LET kinds == <<endpoints, radios, groups>>
        first == {i \in 1..3 : kinds[i] # {} /\ \A j \in 1..(i - 1) : kinds[j] = {}}
    IN UNION {kinds[i] : i \in {k \in first : Cardinality(kinds[k]) = 1}}

\* The radios anybody else has attached, and the endpoints.
Candidates(c) == Preferred(virtual, {Alias[d] : d \in attached} \ {Alias[c]}, Groups)

\* The rest of inferSDSRoute.
Infer(c) ==
    /\ task[c].at = "infer"
    /\ IF Candidates(c) = {} THEN Goto(c, Idle)
       ELSE \E d \in Candidates(c) : Goto(c, [at |-> "route", src |-> Alias[c], dest |-> d])
    /\ UNCHANGED <<hour, hint, attached, virtual>>

\* rememberSDSRouteHint and the frame.
Route(c) ==
    /\ task[c].at = "route"
    /\ hint' = [hint EXCEPT ![task[c].src] = [dest |-> task[c].dest, updated |-> hour]]
    /\ Goto(c, Idle)
    /\ UNCHANGED <<hour, attached, virtual>>

-----------------------------------------------------------------------------

Next ==
    \/ Tick
    \/ \E e \in Endpoints : Endpoint(e)
    \/ \E c \in Session :
          \/ Attach(c) \/ Bare(c) \/ Expire(c) \/ Infer(c) \/ Route(c)
          \/ \E d \in Dest \ {Alias[c]} : Addressed(c, d)

Spec == Init /\ [][Next]_vars

-----------------------------------------------------------------------------
(* Properties                                                              *)

\* A hint that is not too old is never removed: not by a loop that found an
\* earlier one too old either.  Until it is too old a message without addresses
\* therefore goes where the radio's last one went.
FreshHintKept ==
    [][\A r \in Radios : Fresh(hint[r]) => hint'[r] # NoHint]_vars
=============================================================================
