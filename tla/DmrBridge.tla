----------------------------- MODULE DmrBridge -----------------------------
(***************************************************************************)
(* The DMR bridge: group calls heard on one network are repeated, under an *)
(* identifier of their own, on the other.  Each network has a plane whose  *)
(* read loop calls the bridge; the tables are shared under mu, which       *)
(* handleCall takes twice, for the test of its own calls and for its work. *)
(* What it then enqueues only that read loop enqueues, so that the work    *)
(* and the sending are one step.                                           *)
(*                                                                         *)
(* All calls are to talkgroups that are bridged.  A plane's queue has 1024 *)
(* places, and what finds it full is dropped (enqueue of its module):      *)
(* it is assumed not to fill up, or a release could be lost.               *)
(***************************************************************************)
EXTENDS Naturals, Sequences, SequencesExt

CONSTANTS Talk,      \* calls of radios; the bridge numbers its own 1, 2, ...
          From,      \* the network of each
          Licensed,  \* those whose radio has a DMR number (bmGate)
          Echoes,    \* networks that send a client's messages back to it
          MaxEvents  \* bound: transmissions, frames and lost connections

Net == {"FT", "BM"}
DmrConstants == Talk \cap Nat = {} /\ From \in [Talk -> Net] /\ Echoes \subseteq Net

Far(s) == IF s = "FT" THEN "BM" ELSE "FT"

VARIABLES talking,  \* calls whose radio is transmitting
          events,
          air,      \* air[s]: the bridge's calls that are open on s
          inbox,    \* inbox[s]: messages of s for the bridge
          outbox,   \* outbox[s]: the queue of the plane of s
          job,      \* job[s]: the message between the two halves of handleCall
          calls,    \* ftCalls and bmCalls: calls of s and their mirrors on the other
          mine,     \* mineFT and mineBM
          made,     \* mirrors made so far
          dropped,  \* mirrors whose entry went without a release
          broken    \* has a connection been lost?

vars == <<talking, events, air, inbox, outbox, job, calls, mine, made, dropped, broken>>

Id == Talk \cup (1..made)
NoJob == <<>>

TypeOK ==
    /\ talking \subseteq Talk
    /\ air \in [Net -> SUBSET (1..made)]
    /\ \A s \in Net :
          /\ inbox[s] \in Seq(Id \X {"tx", "voice", "end"})
          /\ outbox[s] \in Seq((1..made) \X {"tx", "voice", "end"})
          /\ job[s] = NoJob \/ job[s] \in Id \X {"tx", "end"}
          /\ DOMAIN calls[s] \subseteq Id
          /\ mine[s] \subseteq 1..made
    /\ dropped \subseteq 1..made

Init ==
    /\ talking = {} /\ events = 0
    /\ air = [s \in Net |-> {}]
    /\ inbox = [s \in Net |-> <<>>]
    /\ outbox = [s \in Net |-> <<>>]
    /\ job = [s \in Net |-> NoJob]
    /\ calls = [s \in Net |-> <<>>]
    /\ mine = [s \in Net |-> {}]
    /\ made = 0
    /\ dropped = {}
    /\ broken = FALSE

-----------------------------------------------------------------------------
(* The radios and the networks                                             *)

Says(k, what) == inbox' = [inbox EXCEPT ![From[k]] = Append(@, <<k, what>>)]

\* A transmission begins, or another radio takes it over in the same call.
Key(k) ==
    /\ events < MaxEvents
    /\ events' = events + 1
    /\ talking' = talking \cup {k}
    /\ Says(k, "tx")
    /\ UNCHANGED <<air, outbox, job, calls, mine, made, dropped, broken>>

Voice(k) ==
    /\ k \in talking /\ events < MaxEvents
    /\ events' = events + 1
    /\ Says(k, "voice")
    /\ UNCHANGED <<talking, air, outbox, job, calls, mine, made, dropped, broken>>

\* GroupIdle or CallRelease.
Unkey(k) ==
    /\ k \in talking
    /\ talking' = talking \ {k}
    /\ Says(k, "end")
    /\ UNCHANGED <<events, air, outbox, job, calls, mine, made, dropped, broken>>

\* The plane's session writes a message, and network s acts on it.
Serve(s) ==
    /\ outbox[s] # <<>>
    /\ LET m == Head(outbox[s]) IN
          /\ air' = [air EXCEPT ![s] = CASE m[2] = "tx" -> @ \cup {m[1]}
                                         [] m[2] = "end" -> @ \ {m[1]}
                                         [] m[2] = "voice" -> @]
          /\ inbox' = IF s \in Echoes THEN [inbox EXCEPT ![s] = Append(@, m)] ELSE inbox
    /\ outbox' = [outbox EXCEPT ![s] = Tail(@)]
    /\ UNCHANGED <<talking, events, job, calls, mine, made, dropped, broken>>

\* The connection to s is lost and made again: the network ends the client's
\* calls; a message that was being written is lost, the queue is not.
Flap(s) ==
    /\ events < MaxEvents
    /\ events' = events + 1
    /\ broken' = TRUE
    /\ air' = [air EXCEPT ![s] = {}]
    /\ inbox' = [inbox EXCEPT ![s] = <<>>]
    /\ \E q \in {outbox[s]} \cup (IF outbox[s] = <<>> THEN {} ELSE {Tail(outbox[s])}) :
          outbox' = [outbox EXCEPT ![s] = q]
    /\ UNCHANGED <<talking, job, calls, mine, made, dropped>>

-----------------------------------------------------------------------------
(* The bridge                                                              *)

Without(f, ids) == [i \in DOMAIN f \ ids |-> f[i]]
Send(s, m) == outbox' = [outbox EXCEPT ![s] = Append(@, m)]

\* Variant: the bridge's own calls are not told apart.
IsMineNever(s, id) == FALSE
IsMine(s, id) == id \in mine[s]

\* handleFrame, and the first half of handleCall.
Check(s) ==
    /\ job[s] = NoJob /\ inbox[s] # <<>>
    /\ inbox' = [inbox EXCEPT ![s] = Tail(@)]
    /\ LET m == Head(inbox[s]) IN
          /\ job' = IF IsMine(s, m[1]) \/ m[2] = "voice" THEN job ELSE [job EXCEPT ![s] = m]
          /\ IF m[2] = "voice" /\ ~IsMine(s, m[1]) /\ m[1] \in DOMAIN calls[s]
             THEN Send(Far(s), <<calls[s][m[1]], "voice">>)
             ELSE UNCHANGED outbox
    /\ UNCHANGED <<talking, events, air, calls, mine, made, dropped, broken>>

\* bmGate is asked for calls into BM only.
Gate(s, id) == s = "FT" => id \in Licensed

\* handleCall, GroupTX: a new mirror, also if the call has one.
Start(s) ==
    /\ job[s] # NoJob /\ job[s][2] = "tx"
    /\ LET id == job[s][1] IN
          IF Gate(s, id)
          THEN /\ made' = made + 1
               /\ calls' = [calls EXCEPT ![s] = [i \in DOMAIN @ \cup {id} |->
                                                    IF i = id THEN made' ELSE @[i]]]
               /\ mine' = [mine EXCEPT ![Far(s)] = @ \cup {made'}]
               /\ dropped' = IF id \in DOMAIN calls[s] THEN dropped \cup {calls[s][id]} ELSE dropped
               /\ Send(Far(s), <<made', "tx">>)
          ELSE UNCHANGED <<made, calls, mine, dropped, outbox>>
    /\ job' = [job EXCEPT ![s] = NoJob]
    /\ UNCHANGED <<talking, events, air, inbox, broken>>

\* Variant: the entry goes and nothing is sent, as in gcLoop.
EndSilent(s) ==
    /\ job[s] # NoJob /\ job[s][2] = "end"
    /\ LET id == job[s][1] IN
          IF id \in DOMAIN calls[s]
          THEN /\ calls' = [calls EXCEPT ![s] = Without(@, {id})]
               /\ mine' = [mine EXCEPT ![Far(s)] = @ \ {calls[s][id]}]
          ELSE UNCHANGED <<calls, mine>>
    /\ job' = [job EXCEPT ![s] = NoJob]
    /\ UNCHANGED <<talking, events, air, inbox, outbox, made, dropped, broken>>

\* handleCall, GroupIdle and CallRelease: the mirror is paused and released.
End(s) ==
    /\ job[s] # NoJob /\ job[s][2] = "end"
    /\ LET id == job[s][1] IN
          IF id \in DOMAIN calls[s]
          THEN /\ calls' = [calls EXCEPT ![s] = Without(@, {id})]
               /\ mine' = [mine EXCEPT ![Far(s)] = @ \ {calls[s][id]}]
               /\ Send(Far(s), <<calls[s][id], "end">>)
          ELSE UNCHANGED <<calls, mine, outbox>>
    /\ job' = [job EXCEPT ![s] = NoJob]
    /\ UNCHANGED <<talking, events, air, inbox, made, dropped, broken>>

\* gcLoop: the entries made more than a minute ago go, on both sides; nothing is
\* sent.
Sweep ==
    \E old \in SUBSET {o \in Net \X Id : o[2] \in DOMAIN calls[o[1]]} :
        /\ old # {}
        /\ calls' = [s \in Net |-> Without(calls[s], {o[2] : o \in {p \in old : p[1] = s}})]
        /\ mine' = [s \in Net |-> mine[s] \ {calls[o[1]][o[2]] : o \in {p \in old : p[1] = Far(s)}}]
        /\ dropped' = dropped \cup {calls[o[1]][o[2]] : o \in old}
        /\ UNCHANGED <<talking, events, air, inbox, outbox, job, made, broken>>

-----------------------------------------------------------------------------
ReadLoop(s) == Check(s) \/ Start(s) \/ End(s)

Next ==
    \/ \E k \in Talk : Key(k) \/ Voice(k) \/ Unkey(k)
    \/ \E s \in Net : Serve(s) \/ Flap(s) \/ ReadLoop(s)
    \/ Sweep

\* Goroutines run, networks act on what they are sent, time passes.
Fairness ==
    /\ \A s \in Net : WF_vars(Serve(s)) /\ WF_vars(ReadLoop(s))
    /\ WF_vars(Sweep)

Spec == Init /\ [][Next]_vars
FairSpec == Spec /\ Fairness

-----------------------------------------------------------------------------
(* Properties                                                              *)

\* A call the bridge keeps open on a network is the mirror of one it still
\* follows, or its release is in the queue; the exceptions are mirrors that were
\* replaced or swept: handleCall overwrites the entry of a call that is keyed
\* again, and gcLoop sends no release.
MirrorBacked ==
    \A s \in Net : \A m \in air[s] \ dropped :
        \/ \E id \in DOMAIN calls[Far(s)] : calls[Far(s)][id] = m
        \/ Contains(outbox[s], <<m, "end">>)

\* A call the bridge made is not taken for a radio's while it follows the
\* original: "self-echo, ignore".
NotReflected == \A s \in Net : DOMAIN calls[s] \cap mine[s] = {}

\* Voice goes only into calls that are open on the far side, whatever the other
\* read loop and the collector do meanwhile.
VoiceInCall ==
    \A s \in Net : (outbox[s] # <<>> /\ Head(outbox[s])[2] = "voice" /\ ~broken) =>
        Head(outbox[s])[1] \in air[s]

\* When nobody transmits any more the networks fall silent, late echoes included.
Settles ==
    talking = {} ~> (talking # {} \/ \A s \in Net : air[s] \subseteq dropped)

\* Type correctness and what holds at all times.
MirrorsSound == TypeOK /\ MirrorBacked /\ NotReflected /\ VoiceInCall
=============================================================================
