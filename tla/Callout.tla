------------------------------ MODULE Callout ------------------------------
(***************************************************************************)
(* Call-outs to one group: operators send alerts, follow-ups and clears    *)
(* from the dashboard, radios acknowledge or send call-outs of their own,  *)
(* and a radio's plain text may be relayed as an answer.                   *)
(*                                                                         *)
(* A dashboard request takes a number for its message, builds the message  *)
(* and then notes it in two tables, each time under another lock: the      *)
(* requests of two operators mix.  The counter has Counter numbers; the    *)
(* legacy layout has room for the lower bits only, Wire numbers.           *)
(***************************************************************************)
EXTENDS Naturals

CONSTANTS Operator, Radio,
          Counter,  \* numbers of calloutManager.seq (uint8)
          Wire,     \* numbers of the legacy layout (4 bits)
          MaxMessages  \* bound on requests and radio messages

\* What the theorems assume of the constants; the modules that instantiate this one
\* check it.
CalloutConstants ==
    /\ Counter \in Nat /\ Wire \in 1..Counter
    /\ MaxMessages \in Nat

Desk == "desk"    \* the group's virtual call-out ISSI
Group == "group"

Number == 0..(Counter - 1)
None == Counter
Key == [dst : {Group, Desk}, src : Radio \cup {Desk}, num : Number]
Function == {"alert", "info", "clear"}
Phases == {"open", "cleared"}

VARIABLES active,   \* activeByRoute for the route group, desk
          seq,      \* calloutManager.seq
          threads,  \* calloutManager.threads: key -> Phase; and, as a history, the
                    \* phase of the last message the desk sent there
          age,      \* Updated: how many threads were updated after this one
          board,    \* calloutStates of the group: number -> state and source
          replies,  \* calloutStates of the radios' replies: radio, number
          op,       \* op[o]: the request under way
          unnoted,  \* numbers taken for requests that were not noted
          count     \* requests and radio messages so far

vars == <<active, seq, threads, age, board, replies, op, unnoted, count>>

Idle == [at |-> "idle"]

TypeOK ==
    /\ active \in Number \cup {None}
    /\ seq \in Number
    /\ DOMAIN threads \subseteq Key
    /\ \A k \in DOMAIN threads :
          threads[k] \in [phase : Phases, sent : Phases \cup {"nothing"}]
    /\ DOMAIN age = DOMAIN threads
    /\ \A k, j \in DOMAIN age : age[k] \in Nat /\ (age[k] = age[j] => k = j)
    /\ DOMAIN board \subseteq Number
    /\ \A n \in DOMAIN board :
          board[n] \in [state : Phases, src : Radio \cup {Desk}]
    /\ replies \subseteq Radio \X Number
    /\ \A o \in Operator : op[o].at \in {"idle", "build", "board"}
    /\ unnoted \subseteq Number
    /\ count \in 0..MaxMessages

Init ==
    /\ active = None /\ seq = 0
    /\ threads = <<>> /\ age = <<>>
    /\ board = <<>> /\ replies = {}
    /\ op = [o \in Operator |-> Idle]
    /\ unnoted = {} /\ count = 0

Counted == count < MaxMessages /\ count' = count + 1

Put(f, k, v) == [x \in DOMAIN f \cup {k} |-> IF x = k THEN v ELSE f[x]]
\* Thread k is now the one updated last.
Updated(k) ==
    [j \in DOMAIN age \cup {k} |->
        IF j = k THEN 0
        ELSE IF k \in DOMAIN age /\ age[k] < age[j] THEN age[j]
        ELSE age[j] + 1]
\* Of these threads, the one updated last.
Latest(K) == {k \in K : \A j \in K : age[k] <= age[j]}

-----------------------------------------------------------------------------
(* Messages                                                                *)

\* phaseFromCallout and calloutStateLabel, of a message with this function and with
\* the end of the call-out flagged or not.  The code has several phases and labels
\* that are not "cleared"; nothing tells them apart.
Phase(fn, ends) == IF ends \/ fn = "clear" THEN "cleared" ELSE "open"

-----------------------------------------------------------------------------
(* The dashboard: handleSDSSend                                            *)

\* Follow-ups and clears stay on the route's call-out.
Stays(fn, mode) == active # None /\ (mode = "reuse" \/ fn \in {"info", "clear"})

Request(o, fn, ends, n) ==
    op' = [op EXCEPT ![o] = [at |-> "build", phase |-> Phase(fn, ends), num |-> n]]

\* allocateOutboundCalloutNumber: a clear gives the route up at once, the flag alone
\* does not.
Allocate(o, fn, ends, mode) ==
    /\ op[o] = Idle /\ Counted
    /\ IF Stays(fn, mode)
       THEN /\ Request(o, fn, ends, active)
            /\ active' = IF fn = "clear" THEN None ELSE active
            /\ UNCHANGED seq
       ELSE \E n \in IF mode = "random" THEN Number ELSE {(seq + 1) % Counter} :
            /\ Request(o, fn, ends, n)
            /\ active' = IF fn = "clear" THEN active ELSE n
            /\ seq' = IF mode = "random" THEN seq ELSE n
    /\ UNCHANGED <<threads, age, board, replies, unnoted>>

\* calloutThreadNumberFromRequest: the operator names a call-out of the board.
Forced(o, fn, ends) ==
    /\ op[o] = Idle /\ Counted
    /\ \E n \in DOMAIN board : Request(o, fn, ends, n)
    /\ UNCHANGED <<active, seq, threads, age, board, replies, unnoted>>

NotNoted(o) ==
    /\ op[o].at = "build"
    /\ unnoted' = unnoted \cup {op[o].num}
    /\ op' = [op EXCEPT ![o] = Idle]
    /\ UNCHANGED <<active, seq, threads, age, board, replies, count>>

\* The request's payload cannot be built, or is no call-out.
Fail(o) == NotNoted(o)
\* handleVirtualSDSSend with the desk as source: the call-out is sent and noted
\* in neither table.
SendVirtual(o) == NotNoted(o)

\* The route after a message, first as a manager would leave it that relies on
\* allocateOutboundCalloutNumber to give it up.
RouteKept(phase, n) == IF phase = "cleared" THEN active ELSE n
RouteNoted(phase, n) == IF phase = "cleared" THEN None ELSE n

\* buildCalloutPayload, parseCalloutPayload and calloutManager.noteTx: what is
\* noted is the number that went on the air.
Note(o) ==
    /\ op[o].at = "build"
    /\ \E n \in {op[o].num, op[o].num % Wire} :
          LET k == [dst |-> Group, src |-> Desk, num |-> n] IN
          /\ threads' = Put(threads, k, [phase |-> op[o].phase, sent |-> op[o].phase])
          /\ age' = Updated(k)
          /\ active' = RouteNoted(op[o].phase, n)
          /\ unnoted' = unnoted \ {n}
          /\ op' = [op EXCEPT ![o] = [at |-> "board", phase |-> op[o].phase, num |-> n]]
    /\ UNCHANGED <<seq, board, replies, count>>

\* noteCalloutTx, second half, and the broadcast.
NoteBoard(o) ==
    /\ op[o].at = "board"
    /\ board' = Put(board, op[o].num, [state |-> op[o].phase, src |-> Desk])
    /\ op' = [op EXCEPT ![o] = Idle]
    /\ UNCHANGED <<active, seq, threads, age, replies, unnoted, count>>

-----------------------------------------------------------------------------
(* The radios: onVoiceFrameFromClient                                      *)

\* The thread a message with number n from r to d belongs to: of those with this
\* number on either end of its route, the one updated last.
Matching(n, d) == {k \in DOMAIN threads : k.num = n /\ (k.dst = d \/ k.src = d)}
Targets(r, n, d) ==
    IF Matching(n, d) = {} THEN {[dst |-> d, src |-> r, num |-> n]} ELSE Latest(Matching(n, d))

\* What noteRx makes of the thread: the message's phase, also when it clears a
\* call-out of the desk's; the route is left alone.
Received(k, phase) ==
    [phase |-> phase, sent |-> IF k \in DOMAIN threads THEN threads[k].sent ELSE "nothing"]

\* The call-out's entry on the board after a radio's message.
Heard(r, n, phase) ==
    Put(board, n, [state |-> phase, src |-> IF n \in DOMAIN board THEN board[n].src ELSE r])

\* One entry for replies and call-outs.
NoteRxShared(r, n, phase, reply) ==
    /\ board' = Heard(r, n, phase)
    /\ IF reply THEN replies' = replies \cup {<<r, n>>} ELSE UNCHANGED replies

\* Where noteCalloutRx keeps the message: a reply apart from the call-out it
\* belongs to, anything else as the call-out's state.
NoteRx(r, n, phase, reply) ==
    IF reply THEN replies' = replies \cup {<<r, n>>} /\ UNCHANGED board
    ELSE board' = Heard(r, n, phase) /\ UNCHANGED replies

\* noteCalloutRx: an acknowledgement, to the group or to the desk, or a call-out of
\* the radio's own, to the group; either may clear.  Both tables in one step.
Rx(r, n, d, phase, reply) ==
    /\ \E k \in Targets(r, n, d) :
          /\ threads' = Put(threads, k, Received(k, phase))
          /\ age' = Updated(k)
    /\ NoteRx(r, n, phase, reply)

Acknowledge(r, n, d, phase) ==
    /\ Counted
    /\ Rx(r, n, d, phase, TRUE)
    /\ UNCHANGED <<active, seq, op, unnoted>>
RadioCallout(r, n, phase) ==
    /\ Counted
    /\ Rx(r, n, Group, phase, FALSE)
    /\ UNCHANGED <<active, seq, op, unnoted>>

\* findManagedCalloutContext: the group's latest call-out that is not cleared and
\* that the radio itself is the source of, first by thread and then by state.
\* Of several states the code takes the latest, the model any.
ThreadContexts(r) ==
    {k \in DOMAIN threads : k.dst = Group /\ threads[k].phase # "cleared" /\ k.src = r}
BoardContexts(r) == {n \in DOMAIN board : board[n].state # "cleared" /\ board[n].src = r}

\* maybeRelayManagedCalloutResponse: a plain text becomes an acknowledgement to
\* the group, which ends nothing (managedCalloutResponseOptions), or is routed like
\* any other.  The function is the call-out's, which is not cleared.
Text(r) ==
    /\ Counted
    /\ IF ThreadContexts(r) # {}
       THEN \E k \in Latest(ThreadContexts(r)) : Rx(r, k.num, Group, "open", TRUE)
       ELSE IF BoardContexts(r) # {}
       THEN \E n \in BoardContexts(r) : Rx(r, n, Group, "open", TRUE)
       ELSE UNCHANGED <<threads, age, board, replies>>
    /\ UNCHANGED <<active, seq, op, unnoted>>

-----------------------------------------------------------------------------

Next ==
    \/ \E o \in Operator :
          \/ \E fn \in Function, ends \in BOOLEAN, mode \in {"organized", "reuse", "random"} :
                Allocate(o, fn, ends, mode)
          \/ \E fn \in Function, ends \in BOOLEAN : Forced(o, fn, ends)
          \/ Fail(o) \/ SendVirtual(o) \/ Note(o) \/ NoteBoard(o)
    \/ \E r \in Radio, phase \in Phases :
          \/ \E n \in {k.num : k \in DOMAIN threads}, d \in {Group, Desk} :
                Acknowledge(r, n, d, phase)
          \/ \E n \in 0..(Wire - 1) : RadioCallout(r, n, phase)
    \/ \E r \in Radio : Text(r)

Spec == Init /\ [][Next]_vars

-----------------------------------------------------------------------------
(* Properties                                                              *)

\* A request has the number and has not been sent.
BeingBuilt(n) == \E o \in Operator : op[o].at = "build" /\ op[o].num = n

\* The call-out that follow-ups and clears go to is one that was sent and that no
\* operator has ended since, or a request is about to send it: also when an alert and
\* a clear are under way at the same time and are noted in the other order.  A radio
\* may have cleared it: noteRx leaves the route alone.
RouteIsOpen ==
    active # None /\ active \notin unnoted /\ ~BeingBuilt(active) =>
        LET k == [dst |-> Group, src |-> Desk, num |-> active] IN
            k \in DOMAIN threads /\ threads[k].sent = "open"

\* A radio's acknowledgement, also one that comes late or that clears, leaves the
\* state of the call-out that the dashboard shows as the operators left it.
RepliesApart ==
    [][\A r \in Radio, n \in Number, d \in {Group, Desk}, phase \in Phases :
          Acknowledge(r, n, d, phase) => board' = board]_vars

\* "if a subscriber sends plain text SDS while a callout is active for its group,
\* relay that text as protocol-195 callout response" (service.go:614): while the
\* group has an open call-out, the text of a radio is noted as a reply of its.
TextRelayed ==
    [][\A r \in Radio :
          Text(r) /\ (\E k \in DOMAIN threads : k.dst = Group /\ threads[k].phase = "open")
             => \E n \in Number : <<r, n>> \in replies']_vars
=============================================================================
