---------------------------- MODULE PolledBuffers ----------------------------
(***************************************************************************)
(* The bounded buffers of the server that are read by polling: the         *)
(* activity ring of the dashboard, the mailboxes of the virtual SDS        *)
(* endpoints, the last-heard list of the public page; and the numbers the  *)
(* virtual endpoints of group call-outs are given.                         *)
(*                                                                         *)
(* Each operation holds the buffer's lock, but a dashboard snapshot takes  *)
(* the activity's lock twice.  A poller sends back the last sequence       *)
(* number it was told; the server keeps nothing about it.                  *)
(***************************************************************************)
EXTENDS Naturals, Sequences, FiniteSets, SequencesExt

CONSTANTS RingMax,   \* entries of the activity ring (600)
          BoxMax,    \* messages of a mailbox (400)
          HeardMax,  \* entries of the last-heard list (100)
          Span,      \* numbers of the call-out pool (10000)
          CallId,    \* calls
          GSSI,      \* groups: numbers
          MaxEvents  \* bound on what is recorded

\* The buffers hold something, and there is a pool.
BufferConstants ==
    /\ RingMax \in Nat \ {0} /\ BoxMax \in Nat \ {0} /\ HeardMax \in Nat \ {0}
    /\ Span \in Nat \ {0} /\ GSSI \subseteq Nat
    /\ MaxEvents \in Nat

VARIABLES which,  \* which of the four a behaviour is about
          log,    \* activityRing, or one endpoint's Messages: sequence numbers
          logged, \* activitySeq, or virtualSDSSeq
          page,   \* the poller: what it asks for, and what it was told
          seen,   \* the entries that reached it
          taken,  \* messages a consuming reader has removed
          live,   \* the mailbox's endpoint exists
          heard,  \* LastHeardBuffer.entries: calls, oldest first
          byID,   \* LastHeardBuffer.byID
          names,  \* virtualSDSEndpoints: number -> "own" or "callout"
          mapped  \* groupCalloutVirtual: group -> number

vars == <<which, log, logged, page, seen, taken, live, heard, byID, names, mapped>>
logVars == <<log, logged, page, seen, taken, live>>
heardVars == <<heard, byID>>
nameVars == <<names, mapped>>

Event == 1..MaxEvents

TypeOK ==
    /\ which \in {"activity", "mailbox", "heard", "endpoints"}
    /\ log \in Seq(Event) /\ Len(log) <= (IF which = "mailbox" THEN BoxMax ELSE RingMax)
    /\ logged \in 0..MaxEvents
    /\ page \in [at : {"idle", "read"}, since : 0..MaxEvents, last : 0..MaxEvents]
    /\ seen \subseteq Event
    /\ taken \subseteq Event
    /\ live \in BOOLEAN
    /\ heard \in Seq(CallId \X {"active", "ended"}) /\ Len(heard) <= HeardMax
    /\ DOMAIN byID \subseteq CallId
    /\ DOMAIN names \subseteq 0..(2 * Span - 1)
    /\ DOMAIN mapped \subseteq GSSI

Init ==
    /\ which \in {"activity", "mailbox", "heard", "endpoints"}
    /\ log = <<>> /\ logged = 0
    /\ page = [at |-> "idle", since |-> 0, last |-> 0]
    /\ seen = {} /\ taken = {} /\ live = TRUE
    /\ heard = <<>> /\ byID = <<>>
    /\ names = <<>> /\ mapped = <<>>

\* The last n of s.
Latest(s, n) == IF Len(s) > n THEN SubSeq(s, Len(s) - n + 1, Len(s)) ELSE s
Newer(since) == {log[i] : i \in {j \in 1..Len(log) : log[j] > since}}

-----------------------------------------------------------------------------
(* Activity                                                                *)

\* recordActivity.
RecordActivity ==
    /\ which = "activity" /\ logged < MaxEvents
    /\ logged' = logged + 1
    /\ log' = Latest(Append(log, logged + 1), RingMax)
    /\ UNCHANGED <<which, page, seen, taken, live, heardVars, nameVars>>

\* handleDashboardSnapshot: currentActivitySeq and then activitySince.
SnapshotSeq ==
    /\ which = "activity" /\ page.at = "idle"
    /\ page' = [page EXCEPT !.at = "read", !.last = logged]
    /\ UNCHANGED <<which, log, logged, seen, taken, live, heardVars, nameVars>>

\* The two reads the other way round.
SnapshotReadFirst ==
    /\ which = "activity" /\ page.at = "read"
    /\ seen' = seen \cup {e \in Newer(page.since) : e <= page.last}
    /\ page' = [page EXCEPT !.at = "idle", !.since = logged]
    /\ UNCHANGED <<which, log, logged, taken, live, heardVars, nameVars>>

SnapshotRead ==
    /\ which = "activity" /\ page.at = "read"
    /\ seen' = seen \cup Newer(page.since)
    /\ page' = [page EXCEPT !.at = "idle", !.since = page.last]
    /\ UNCHANGED <<which, log, logged, taken, live, heardVars, nameVars>>

-----------------------------------------------------------------------------
(* A mailbox                                                               *)

\* Numbers per endpoint, and one counter for all endpoints.
NextSeqOfBox == Len(log) + 1
NextSeq == logged + 1

\* maybeStoreVirtualSDSMessage.
StoreMessage ==
    /\ which = "mailbox" /\ live /\ logged < MaxEvents
    /\ logged' = logged + 1
    /\ log' = Latest(Append(log, NextSeq), BoxMax)
    /\ UNCHANGED <<which, page, seen, taken, live, heardVars, nameVars>>

\* The messages are in the order of their numbers: those up to since stand in front.
Before(since) == CHOOSE n \in 0..Len(log) : \A i \in 1..Len(log) : i <= n <=> log[i] <= since

\* The place of the last of the first limit messages after since, and those.
LastOf(since, limit) ==
    IF Before(since) + limit < Len(log) THEN Before(since) + limit ELSE Len(log)
Messages(since, limit) == {log[i] : i \in Before(since) + 1..LastOf(since, limit)}

\* virtualSDSMessages and filterVirtualMessages; the poller goes on from the last
\* message it was given.
ReadMessages(limit) ==
    /\ which = "mailbox" /\ live /\ Before(page.since) < Len(log)
    /\ seen' = seen \cup Messages(page.since, limit)
    /\ page' = [page EXCEPT !.since = log[LastOf(page.since, limit)]]
    /\ UNCHANGED <<which, log, logged, taken, live, heardVars, nameVars>>

\* The same with consume: what is handed out is removed, the rest stays.
ConsumeMessages(since, limit) ==
    /\ which = "mailbox" /\ live
    /\ taken' = taken \cup Messages(since, limit)
    /\ log' = SubSeq(log, 1, Before(since)) \o SubSeq(log, LastOf(since, limit) + 1, Len(log))
    /\ UNCHANGED <<which, logged, page, seen, live, heardVars, nameVars>>

\* deleteVirtualSDSEndpoint, and the endpoint is created again.
DeleteEndpoint ==
    /\ which = "mailbox" /\ live
    /\ live' = FALSE /\ log' = <<>>
    /\ UNCHANGED <<which, logged, page, seen, taken, heardVars, nameVars>>
CreateEndpoint ==
    /\ which = "mailbox" /\ ~live
    /\ live' = TRUE
    /\ UNCHANGED <<which, log, logged, page, seen, taken, heardVars, nameVars>>

-----------------------------------------------------------------------------
(* Last heard                                                              *)

Dropped(s) == Len(s) > HeardMax

\* byID after an entry was added, never rebuilt.
IndexAppended(s, id) ==
    [i \in DOMAIN byID \cup {id} |-> IF i = id THEN Len(Latest(s, HeardMax)) ELSE byID[i]]

\* byID after an entry was added: rebuilt when the oldest is dropped.
Index(s, id) ==
    IF Dropped(s)
    THEN [i \in {e[1] : e \in ToSet(Latest(s, HeardMax))} |->
             CHOOSE p \in 1..HeardMax : Latest(s, HeardMax)[p][1] = i]
    ELSE [i \in DOMAIN byID \cup {id} |-> IF i = id THEN Len(s) ELSE byID[i]]

\* LastHeardBuffer.Start for a call that is not filtered out.
Start(id) ==
    /\ which = "heard" /\ id \notin DOMAIN byID
    /\ LET s == Append(heard, <<id, "active">>) IN
          /\ heard' = Latest(s, HeardMax)
          /\ byID' = Index(s, id)
    /\ UNCHANGED <<which, logVars, nameVars>>

\* LastHeardBuffer.End.
End(id) ==
    /\ which = "heard" /\ id \in DOMAIN byID
    /\ heard' = [heard EXCEPT ![byID[id]][2] = "ended"]
    /\ UNCHANGED <<which, byID, logVars, nameVars>>

-----------------------------------------------------------------------------
(* Virtual endpoints of group call-outs                                    *)

Put(f, k, v) == [x \in DOMAIN f \cup {k} |-> IF x = k THEN v ELSE f[x]]

\* Numbers other groups have: those whose endpoint exists, and all of them.
OccupiedLive(g) == {mapped[h] : h \in DOMAIN mapped \ {g}} \cap DOMAIN names
Occupied(g) == {mapped[h] : h \in DOMAIN mapped \ {g}}

\* The offsets of the pool are tried in turn, from g on: the attempts at which a
\* free one is found.
Try(g, i) == (g + i) % Span
Free(g) ==
    {i \in 0..(Span - 1) :
        /\ Try(g, i) \notin Occupied(g)
        /\ Try(g, i) \in DOMAIN names => names[Try(g, i)] = "callout"}
First(attempts) == CHOOSE i \in attempts : \A j \in attempts : i <= j

\* ensureGroupCalloutVirtualEndpoint: the group's number, the first free one of
\* the pool, or one beside the pool.
EnsureEndpoint(g) ==
    /\ which = "endpoints"
    /\ LET c == IF g \in DOMAIN mapped THEN mapped[g]
                ELSE IF Free(g) # {} THEN Try(g, First(Free(g)))
                ELSE Span + (g % Span) IN
          /\ mapped' = Put(mapped, g, c)
          /\ names' = Put(names, c, "callout")
    /\ UNCHANGED <<which, logVars, heardVars>>

\* The operator's own endpoints: upsertVirtualSDSEndpoint, delete.
Upsert(c) ==
    /\ which = "endpoints"
    /\ names' = Put(names, c, "own")
    /\ UNCHANGED <<which, mapped, logVars, heardVars>>
Delete(c) ==
    /\ which = "endpoints" /\ c \in DOMAIN names
    /\ names' = [x \in DOMAIN names \ {c} |-> names[x]]
    /\ UNCHANGED <<which, mapped, logVars, heardVars>>

-----------------------------------------------------------------------------

Next ==
    \/ RecordActivity \/ SnapshotSeq \/ SnapshotRead
    \/ StoreMessage \/ DeleteEndpoint \/ CreateEndpoint
    \/ \E limit \in 1..BoxMax :
          ReadMessages(limit) \/ \E since \in 0..MaxEvents : ConsumeMessages(since, limit)
    \/ \E id \in CallId : Start(id) \/ End(id)
    \/ \E g \in GSSI : EnsureEndpoint(g)
    \/ \E c \in 0..(Span - 1) : Upsert(c) \/ Delete(c)

Spec == Init /\ [][Next]_vars

-----------------------------------------------------------------------------
(* Properties                                                              *)

\* A dashboard or a mailbox reader that goes on from the last number it was told
\* misses nothing that is still in the buffer: not what is recorded between the
\* two reads of a snapshot, nor what comes after an endpoint was deleted and
\* created again.
NothingMissed ==
    \A i \in 1..Len(log) : log[i] <= page.since => log[i] \in seen

\* A message is handed to one consuming reader at most.
ConsumedOnce == \A i \in 1..Len(log) : log[i] \notin taken

\* Every entry of the last-heard list is found under its call's id, so that the
\* end of a call never closes another call's entry, also after old entries were
\* dropped.
HeardIndexed ==
    /\ DOMAIN byID = {heard[i][1] : i \in 1..Len(heard)}
    /\ \A id \in DOMAIN byID : heard[byID[id]][1] = id

\* No two groups share a number of the pool, also when a group's endpoint has
\* been deleted; beside the pool they may.
PoolExclusive ==
    \A g, h \in DOMAIN mapped : g # h /\ mapped[g] = mapped[h] => mapped[g] >= Span

\* All of it, with the types.
BuffersSound == TypeOK /\ NothingMissed /\ ConsumedOnce /\ HeardIndexed /\ PoolExclusive
=============================================================================
