--------------------------- MODULE FederationParts ---------------------------
(***************************************************************************)
(* The hub's registry of peers and the calls between servers, side by side *)
(* under names of their own, and their properties: MCFederation checks     *)
(* them on small instances, FederationProofs proves them for all.          *)
(***************************************************************************)
CONSTANTS Conn, Remote, Boot, Known, NoConn,
          Pair,
          Node, Talker, Line, MaxSpurts

VARIABLES peers, pending, mu, goroutine, label, dialled, dir, remote, done, table, src, timer,
          parked, intime, aborted,
          phone, out, client, msg, found, calls, priv, wire, rd,
          source, local, at, spurts, spoken, tracked, radios, activeCalls, net, heard,
          reader, held, stray, panicked

Reg == INSTANCE PeerRegistry WITH ISSI <- Known, pc <- goroutine, crashed <- aborted
Prv == INSTANCE PrivateCall WITH Conn <- Pair, pc <- client, net <- wire
Grp == INSTANCE GroupCall WITH
           Server <- Node, Link <- Line,
           calls <- tracked, seen <- heard, rd <- reader, cur <- held, crashed <- panicked

regVars == <<peers, pending, mu, goroutine, label, dialled, dir, remote, done, table, src, timer,
             parked, intime, aborted>>
prvVars == <<phone, out, client, msg, found, calls, priv, wire, rd>>
grpVars == <<source, local, at, spurts, spoken, tracked, radios, activeCalls, net, heard,
             reader, held, stray, panicked>>

\* SlotsLive and ParkedHasTimer: the hub's two tables hold what their goroutines
\* and timers will take out again.
TablesSound == Reg!TablesSound
\* A table redeemed in time is the one that was parked.
RedeemedIntact == Reg!RedeemedIntact
\* A conversation is tracked and bound on both servers.
TalkingBound == Prv!TypeOK /\ Prv!TalkingBound
\* VoiceInCall and CallsAgree: no radio gets voice outside a call, no server stops over
\* its entry, and once nothing is under way all servers are in the talker's call.
GroupSound == Grp!TypeOK /\ Grp!VoiceInCall /\ Grp!CallsAgree
=============================================================================
