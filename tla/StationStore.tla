---------------------------- MODULE StationStore ----------------------------
(***************************************************************************)
(* The station registry of two federated servers: rows keyed by station    *)
(* id, soft deletes (tombstones), the reverse index from radio (ISSI) to   *)
(* station, the rows' spread over the federation by pushes and by the      *)
(* periodic sync, and the reload from disk.  The callsign stations are     *)
(* looked up by is the same for all of them, so that they compete.         *)
(*                                                                         *)
(* Every operation of the store is one critical section of its mutex,      *)
(* save() included; LinkOrCreate is two, with a copy of a row carried      *)
(* from the first to the second.                                           *)
(***************************************************************************)
EXTENDS Naturals, FiniteSets

CONSTANTS Sid,        \* station ids
          ISSI,       \* radios
          PushAt,     \* servers the stations' agents push to
          DeleteAt,   \* servers on which an operator deletes stations
          MaxTime,    \* bound on the clock
          StaleAfter, \* age at which a tombstone may be reaped
          AutoCreate, \* STATION_AUTO_CREATE
          NetCap      \* updates a peer's queue holds

\* A station's id is not the index's mark for no station, and time begins at 1.
StationConstants == "none" \notin Sid /\ MaxTime \in Nat \ {0}

Server == {"A", "B"}
Other(n) == IF n = "A" THEN "B" ELSE "A"
None == [seen |-> 0, del |-> 0, origin |-> "none", owned |-> {}]
NoStation == "none"

VARIABLES now,    \* now[n]: the clock of server n
          items,  \* items[n][s]: the row of s at n, or None
          index,  \* index[n][i]: byISSI, a station id or NoStation
          copy,   \* copy[n]: the row LinkOrCreate at n has read and extended
          wire,   \* station updates under way, as [to, sid, row]
          retired \* history: stations an operator has deleted and whose agents
                  \* have not pushed since

vars == <<now, items, index, copy, wire, retired>>

Row == [seen: 0..MaxTime, del: 0..MaxTime, origin: Server \cup {"own"},
        owned: SUBSET ISSI]
NoCopy == [sid |-> NoStation, row |-> None]

TypeOK ==
    /\ now \in [Server -> 1..MaxTime]
    /\ items \in [Server -> [Sid -> Row \cup {None}]]
    /\ index \in [Server -> [ISSI -> Sid \cup {NoStation}]]
    /\ copy \in [Server -> [sid: Sid, row: Row] \cup {NoCopy}]
    /\ wire \subseteq [to: Server, sid: Sid, row: Row]
    /\ retired \subseteq Sid

Init ==
    /\ now = [n \in Server |-> 1]
    /\ items = [n \in Server |-> [s \in Sid |-> None]]
    /\ index = [n \in Server |-> [i \in ISSI |-> NoStation]]
    /\ copy = [n \in Server |-> NoCopy]
    /\ wire = {}
    /\ retired = {}

-----------------------------------------------------------------------------
Exists(n, s) == items[n][s] # None
Live(n, s) == Exists(n, s) /\ items[n][s].del = 0

\* unindexISSIsLocked: no radio points to s any more.
Unindexed(n, s) ==
    [i \in ISSI |-> IF index[n][i] = s THEN NoStation ELSE index[n][i]]

\* indexISSIsLocked: a live row takes the slots of its radios unless another
\* station with a newer last_seen has them.
Indexed(n, s, row) ==
    LET free == Unindexed(n, s)
        wins(i) == \/ free[i] = NoStation
                   \/ ~Exists(n, free[i])
                   \/ row.seen >= items[n][free[i]].seen
    IN  [i \in ISSI |->
            IF row.del = 0 /\ i \in row.owned /\ wins(i) THEN s ELSE free[i]]

\* Variant: the time of the input is taken as it is.
LastSeenAsGiven(n, s, in) == IF in.seen = 0 THEN now[n] ELSE in.seen
\* last_seen never goes back and never lies ahead of the server's clock.
LastSeen(n, s, in) ==
    IF in.seen = 0 \/ in.seen > now[n] THEN now[n]
    ELSE IF items[n][s].seen > in.seen THEN items[n][s].seen ELSE in.seen

\* Upsert replaces the whole row, a tombstone included.
Upsert(n, s, in) ==
    LET row == [in EXCEPT !.seen = LastSeen(n, s, in)]
    IN  /\ items' = [items EXCEPT ![n][s] = row]
        /\ index' = [index EXCEPT ![n] = Indexed(n, s, row)]

\* NotifyStationUpdate, BroadcastStation: a row of our own goes out under our
\* name, a federated one under the name of the server it came from.
Update(n, s, row) ==
    [to |-> Other(n), sid |-> s,
     row |-> [row EXCEPT !.origin = IF @ = "own" THEN n ELSE @]]

\* SendControl drops what does not fit into the peer's queue.
Send(m) == wire' = IF Cardinality(wire) < NetCap THEN wire \cup {m} ELSE wire
Notify(n, s) == Send(Update(n, s, items'[n][s]))

-----------------------------------------------------------------------------
\* handleStationPush: the agent's push clears the origin and any tombstone; it may
\* state a last_seen of its own.
Push(n, s, owned, seen) ==
    /\ n \in PushAt
    /\ Upsert(n, s, [seen |-> seen, del |-> 0, origin |-> "own", owned |-> owned])
    /\ Notify(n, s)
    /\ retired' = retired \ {s}
    /\ UNCHANGED <<now, copy>>

\* Variant: the radios stay indexed.
DeleteIndexed(n, s) ==
    /\ n \in DeleteAt
    /\ Exists(n, s)
    /\ items' = [items EXCEPT ![n][s].del = IF @ = 0 THEN now[n] ELSE @]
    /\ Notify(n, s)
    /\ retired' = retired \cup {s}
    /\ UNCHANGED <<now, index, copy>>

\* handleStationDelete: the row becomes a tombstone, which is federated.
Delete(n, s) ==
    /\ n \in DeleteAt
    /\ Exists(n, s)
    /\ items' = [items EXCEPT ![n][s].del = IF @ = 0 THEN now[n] ELSE @]
    /\ index' = [index EXCEPT ![n] = Unindexed(n, s)]
    /\ Notify(n, s)
    /\ retired' = retired \cup {s}
    /\ UNCHANGED <<now, copy>>

\* Reap: tombstones older than staleAfter go.
Reap(n) ==
    LET old == {s \in Sid : items[n][s].del > 0 /\ items[n][s].del + StaleAfter < now[n]}
    IN  /\ old # {}
        /\ items' = [items EXCEPT ![n] =
               [s \in Sid |-> IF s \in old THEN None ELSE items[n][s]]]
        /\ UNCHANGED <<now, index, copy, wire, retired>>

\* ByISSI and ByCallsign: what LinkOrCreate finds.
ByISSI(n, i) == index[n][i] # NoStation /\ Live(n, index[n][i])
ByCallsign(n) ==
    {s \in Sid : Live(n, s) /\ \A t \in Sid : Live(n, t) => items[n][t].seen <= items[n][s].seen}

\* linkBrewSessionToStation, LinkOrCreate: a radio no station owns is added to
\* a copy of the row found by callsign ...
LinkRead(n, i, s) ==
    /\ copy[n] = NoCopy
    /\ ~ByISSI(n, i)
    /\ s \in ByCallsign(n)
    /\ copy' = [copy EXCEPT ![n] =
           [sid |-> s, row |-> [items[n][s] EXCEPT !.owned = @ \cup {i}]]]
    /\ UNCHANGED <<now, items, index, wire, retired>>

\* ... and the copy is stored, whatever the row is by now.  Nothing is sent.
LinkWrite(n) ==
    /\ copy[n] # NoCopy
    /\ Upsert(n, copy[n].sid, copy[n].row)
    /\ copy' = [copy EXCEPT ![n] = NoCopy]
    /\ UNCHANGED <<now, wire, retired>>

Unused(s) ==
    /\ s \notin retired
    /\ \A n \in Server : ~Exists(n, s) /\ copy[n].sid # s
    /\ \A m \in wire : m.sid # s

\* LinkOrCreate and handleTMOSiteHeartbeat with STATION_AUTO_CREATE: a stub
\* under a fresh id if no live station has the callsign.
Create(n, s, owned) ==
    /\ AutoCreate
    /\ ByCallsign(n) = {}
    /\ Unused(s)
    /\ Upsert(n, s, [seen |-> 0, del |-> 0, origin |-> "own", owned |-> owned])
    /\ UNCHANGED <<now, copy, wire, retired>>

\* handleTMOSiteHeartbeat, bumpLastSeen: a tombstone is not revived.
Heartbeat(n, s) ==
    /\ s \in ByCallsign(n)
    /\ items' = [items EXCEPT ![n][s].seen = now[n]]
    /\ UNCHANGED <<now, index, copy, wire, retired>>

\* Variant: the rows the dashboard lists, without the tombstones.
SyncedLive(n, s) == Live(n, s) /\ items[n][s].origin = "own"
\* syncAllSubscribers sends a server's own rows, tombstones included.
Synced(n, s) == Exists(n, s) /\ items[n][s].origin = "own"

Sync(n, s) ==
    /\ Synced(n, s)
    /\ Send(Update(n, s, items[n][s]))
    /\ UNCHANGED <<now, items, index, copy, retired>>

\* OnPeerStationUpdate; a server drops what carries its own name.  Updates
\* take different paths through the mesh and arrive in any order.
Receive(n, s) ==
    \E m \in wire :
        /\ m.to = n /\ m.sid = s
        /\ wire' = wire \ {m}
        /\ IF m.row.origin = n THEN UNCHANGED <<items, index>>
           ELSE Upsert(n, s, m.row)
        /\ UNCHANGED <<now, copy, retired>>

\* The stream to a peer breaks.
Lose ==
    /\ \E m \in wire : wire' = wire \ {m}
    /\ UNCHANGED <<now, items, index, copy, retired>>

\* The server is restarted: load() reads the rows back in any order, so the
\* index names for each radio one of its live owners with the latest last_seen.
Restart(n) ==
    LET owners(i) == {s \in Sid : Live(n, s) /\ i \in items[n][s].owned}
        latest(i) == {s \in owners(i) : \A t \in owners(i) :
                          items[n][t].seen <= items[n][s].seen}
    IN  /\ copy' = [copy EXCEPT ![n] = NoCopy]
        /\ \E f \in [ISSI -> Sid \cup {NoStation}] :
              /\ \A i \in ISSI : IF owners(i) = {} THEN f[i] = NoStation
                                 ELSE f[i] \in latest(i)
              /\ index' = [index EXCEPT ![n] = f]
        /\ UNCHANGED <<now, items, wire, retired>>

Tick(n) ==
    /\ now[n] < MaxTime
    /\ now' = [now EXCEPT ![n] = @ + 1]
    /\ UNCHANGED <<items, index, copy, wire, retired>>

Next ==
    \/ Lose
    \/ \E n \in Server :
          \/ Reap(n) \/ LinkWrite(n) \/ Restart(n) \/ Tick(n)
          \/ \E s \in Sid :
                \/ Delete(n, s) \/ Heartbeat(n, s) \/ Sync(n, s) \/ Receive(n, s)
                \/ \E i \in ISSI : LinkRead(n, i, s)
                \/ \E owned \in SUBSET ISSI, seen \in 0..MaxTime : Push(n, s, owned, seen)
                \/ \E owned \in SUBSET ISSI : Create(n, s, owned)

Spec == Init /\ [][Next]_vars

\* The sync timer fires for ever, and of the updates sent for ever one arrives.
Fairness ==
    \A n \in Server, s \in Sid : WF_vars(Sync(n, s)) /\ SF_vars(Receive(n, s))

FairSpec == Spec /\ Fairness

-----------------------------------------------------------------------------
(* Properties                                                              *)

\* The reverse index never names a station that is gone, deleted or does not
\* own the radio: a call is never attributed to a wrong station (Upsert,
\* Delete, Reap and load keep byISSI and items together).
IndexSound ==
    \A n \in Server, i \in ISSI :
        index[n][i] # NoStation =>
            Live(n, index[n][i]) /\ i \in items[n][index[n][i]].owned

\* "damit eine laengst offline Station nicht jedes Mal wieder online wird": no
\* update, however late or from whichever server, takes last_seen back or
\* ahead of the local clock.
SeenForward ==
    [][\A n \in Server, s \in Sid :
          Exists(n, s) /\ items'[n][s] # None =>
              /\ items'[n][s].seen >= items[n][s].seen
              /\ items'[n][s].seen <= now'[n]]_vars

\* Deletes converge: while the server a station was pushed to keeps the
\* tombstone, the station is in the end live nowhere, although updates are
\* lost and old ones arrive late (syncAllSubscribers resends tombstones).
DeletesConverge ==
    \A n \in Server, s \in Sid :
        <>[](Exists(n, s) /\ items[n][s].origin = "own" /\ items[n][s].del > 0)
            => <>[](\A m \in Server : ~Live(m, s))

\* "Delete soft-deletes a station ... keeps the row so federation peers
\* converge": a station that is deleted and that its agent does not push again
\* stays gone, whichever server it was deleted on.
DeletedStaysGone ==
    \A s \in Sid : <>[](s \in retired) => <>[](\A m \in Server : ~Live(m, s))
=============================================================================
