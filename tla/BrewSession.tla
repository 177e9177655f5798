----------------------------- MODULE BrewSession -----------------------------
(***************************************************************************)
(* The base stations' websocket sessions in the Brew server: a read loop   *)
(* and a write loop for each, the table of clients, and broadcasts, which  *)
(* run in a session's read loop or in a goroutine of the federation.       *)
(*                                                                         *)
(* A broadcast takes a snapshot of the table under its lock and then       *)
(* enqueues one by one without it; a session that ends leaves the table,   *)
(* closes its channel and its connection, and only then tells the service. *)
(* Sending on a closed channel panics: net/http recovers the panic of a    *)
(* read loop after its deferred disconnectClient has run, nobody recovers  *)
(* that of a federation goroutine.                                         *)
(***************************************************************************)
EXTENDS Naturals, FiniteSets

CONSTANTS Client,  \* sessions
          Cap,     \* capacity of a session's send channel
          Casts    \* bound on the messages read and broadcast

\* What the proofs assume of the constants.
SessionConstants == Cap \in Nat /\ Casts \in Nat

Fed == "fed"
Sender == Client \cup {Fed}

VARIABLES conn,     \* conn[c]: "none", "up" or "down"
          clients,  \* Server.clients
          loop,     \* loop[c]: where the session's read loop stands
          writer,   \* writer[c]: the write loop, "none", "run" or "done"
          queue,    \* queue[c]: messages in the send channel
          open,     \* open[c]: the send channel is open
          todo,     \* todo[g]: clients of g's snapshot not served yet
          told,     \* told[c]: calls of OnDisconnect
          casts,    \* broadcasts so far
          crashed   \* the process is dead

vars == <<conn, clients, loop, writer, queue, open, todo, told, casts, crashed>>

TypeOK ==
    /\ conn \in [Client -> {"none", "up", "down"}]
    /\ clients \subseteq Client
    /\ loop \in [Client -> {"none", "read", "cast", "unregister", "close", "notify", "ended"}]
    /\ writer \in [Client -> {"none", "run", "done"}]
    /\ queue \in [Client -> 0..Cap]
    /\ open \in [Client -> BOOLEAN]
    /\ todo \in [Sender -> SUBSET Client]
    /\ told \in [Client -> 0..2]
    /\ casts \in 0..Casts
    /\ crashed \in BOOLEAN

Init ==
    /\ conn = [c \in Client |-> "none"]
    /\ clients = {}
    /\ loop = [c \in Client |-> "none"]
    /\ writer = [c \in Client |-> "none"]
    /\ queue = [c \in Client |-> 0]
    /\ open = [c \in Client |-> FALSE]
    /\ todo = [g \in Sender |-> {}]
    /\ told = [c \in Client |-> 0]
    /\ casts = 0
    /\ crashed = FALSE

Goto(c, l) == loop' = [loop EXCEPT ![c] = l]

-----------------------------------------------------------------------------
(* The environment                                                         *)

\* The peer goes away, or nothing is heard of it for PongTimeout.
Break(c) ==
    /\ conn[c] = "up"
    /\ conn' = [conn EXCEPT ![c] = "down"]
    /\ UNCHANGED <<clients, loop, writer, queue, open, todo, told, casts, crashed>>

-----------------------------------------------------------------------------
(* A session                                                               *)

\* handleWebsocket: newClient, registerClient, both loops.
Open(c) ==
    /\ loop[c] = "none"
    /\ conn' = [conn EXCEPT ![c] = "up"]
    /\ clients' = clients \cup {c}
    /\ open' = [open EXCEPT ![c] = TRUE]
    /\ writer' = [writer EXCEPT ![c] = "run"]
    /\ Goto(c, "read")
    /\ UNCHANGED <<queue, todo, told, casts, crashed>>

\* readLoop: a message is read and handled, which ends in a broadcast to the
\* others: snapshotClients.
Read(c) ==
    /\ loop[c] = "read" /\ conn[c] = "up"
    /\ casts < Casts
    /\ casts' = casts + 1
    /\ todo' = [todo EXCEPT ![c] = clients \ {c}]
    /\ Goto(c, "cast")
    /\ UNCHANGED <<conn, clients, writer, queue, open, told, crashed>>

\* A federation goroutine does the same.
FedCast ==
    /\ todo[Fed] = {}
    /\ casts < Casts
    /\ casts' = casts + 1
    /\ todo' = [todo EXCEPT ![Fed] = clients]
    /\ UNCHANGED <<conn, clients, loop, writer, queue, open, told, crashed>>

\* A slot too many, and the slots the channel has.
FitsOneMore(c) == queue[c] <= Cap
Fits(c) == queue[c] < Cap

\* Client.Enqueue: dropped if the channel is full, a panic if it is closed.  In
\* OnDisconnect the panic only cuts the broadcast short.
Enqueue(g, c) ==
    /\ c \in todo[g]
    /\ IF open[c]
       THEN /\ queue' = [queue EXCEPT ![c] = IF Fits(c) THEN @ + 1 ELSE @]
            /\ todo' = [todo EXCEPT ![g] = @ \ {c}]
            /\ UNCHANGED <<loop, crashed>>
       ELSE /\ todo' = [todo EXCEPT ![g] = {}]
            /\ crashed' = (g = Fed)
            /\ IF g \in Client /\ loop[g] = "cast" THEN Goto(g, "unregister")
               ELSE UNCHANGED loop
            /\ UNCHANGED queue
    /\ UNCHANGED <<conn, clients, writer, open, told, casts>>

\* The message has been handled.
CastDone(c) ==
    /\ loop[c] = "cast" /\ todo[c] = {}
    /\ Goto(c, "read")
    /\ UNCHANGED <<conn, clients, writer, queue, open, todo, told, casts, crashed>>

\* readLoop returns on a read error.
ReadFails(c) ==
    /\ loop[c] = "read" /\ conn[c] = "down"
    /\ Goto(c, "unregister")
    /\ UNCHANGED <<conn, clients, writer, queue, open, todo, told, casts, crashed>>

\* Variant: the client is closed before it leaves the table.
UnregisterLate(c) ==
    /\ loop[c] = "unregister"
    /\ open' = [open EXCEPT ![c] = FALSE]
    /\ Goto(c, "close")
    /\ UNCHANGED <<conn, clients, writer, queue, todo, told, casts, crashed>>

\* disconnectClient: unregisterClient, ...
Unregister(c) ==
    /\ loop[c] = "unregister"
    /\ clients' = clients \ {c}
    /\ Goto(c, "close")
    /\ UNCHANGED <<conn, writer, queue, open, todo, told, casts, crashed>>

\* ... Client.Close, ...
CloseClient(c) ==
    /\ loop[c] = "close"
    /\ open' = [open EXCEPT ![c] = FALSE]
    /\ conn' = [conn EXCEPT ![c] = "down"]
    /\ Goto(c, "notify")
    /\ UNCHANGED <<clients, writer, queue, todo, told, casts, crashed>>

\* ... OnDisconnect, which releases the session's calls and tells the others.
Notify(c) ==
    /\ loop[c] = "notify"
    /\ told' = [told EXCEPT ![c] = @ + 1]
    /\ todo' = [todo EXCEPT ![c] = clients \ {c}]
    /\ Goto(c, "ended")
    /\ UNCHANGED <<conn, clients, writer, queue, open, casts, crashed>>

-----------------------------------------------------------------------------
(* writeLoop                                                               *)

\* A message is written.
Write(c) ==
    /\ writer[c] = "run" /\ queue[c] > 0 /\ conn[c] = "up"
    /\ queue' = [queue EXCEPT ![c] = @ - 1]
    /\ UNCHANGED <<conn, clients, loop, writer, open, todo, told, casts, crashed>>

\* A write or a ping fails (the connection is down or has only stalled for
\* WriteTimeout): the loop ends and leaves the connection as it is.
WriteFails(c) ==
    /\ writer[c] = "run"
    /\ writer' = [writer EXCEPT ![c] = "done"]
    /\ UNCHANGED <<conn, clients, loop, queue, open, todo, told, casts, crashed>>

\* The channel is closed and empty.
WriterStops(c) ==
    /\ writer[c] = "run" /\ ~open[c] /\ queue[c] = 0
    /\ writer' = [writer EXCEPT ![c] = "done"]
    /\ UNCHANGED <<conn, clients, loop, queue, open, todo, told, casts, crashed>>

-----------------------------------------------------------------------------
SessionStep(c) ==
    \/ CastDone(c) \/ ReadFails(c) \/ Unregister(c) \/ CloseClient(c) \/ Notify(c)

WriterStep(c) ==
    Write(c) \/ WriterStops(c) \/ (conn[c] = "down" /\ WriteFails(c))

Next ==
    /\ ~crashed
    /\ \/ FedCast
       \/ \E c \in Client : Break(c) \/ Open(c) \/ Read(c) \/ SessionStep(c)
       \/ \E c \in Client : Write(c) \/ WriteFails(c) \/ WriterStops(c)
       \/ \E g \in Sender, c \in Client : Enqueue(g, c)

Spec == Init /\ [][Next]_vars

-----------------------------------------------------------------------------
(* Properties                                                              *)

\* No broadcast that starts now meets a closed channel: only a snapshot taken
\* before the session left the table can (unregisterClient before Close).
TableOpen == \A c \in clients : open[c]

\* The service hears of the end of a session once, after it has left the table
\* and whatever panics were recovered on the way: its calls are released once.
ToldOnce ==
    \A c \in Client :
        /\ told[c] = (IF loop[c] = "ended" THEN 1 ELSE 0)
        /\ told[c] = 1 => c \notin clients /\ ~open[c]

\* The table of clients and the calls of OnDisconnect fit the sessions.
SessionsSound == TypeOK /\ TableOpen /\ ToldOnce

\* A session whose connection is gone is given up by both its loops and leaves
\* the table, unless the process dies first.
BrokenEnds ==
    \A c \in Client :
        conn[c] = "down" ~> crashed \/ (loop[c] = "ended" /\ writer[c] = "done" /\ c \notin clients)
=============================================================================
