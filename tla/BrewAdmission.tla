---------------------------- MODULE BrewAdmission ----------------------------
(***************************************************************************)
(* How a base station gets a session: GET /discovery is answered with a    *)
(* digest challenge (a nonce) until it carries a digest over a nonce that  *)
(* is still valid, then with an endpoint token, and the websocket request  *)
(* that presents the token gets the session, under the user name of the    *)
(* digest.  Nonces may be used again until they expire, tokens only once.  *)
(* The tables nonces and tokens have a lock each; between the check of a   *)
(* nonce and the issue of the token the verifier may ask a remote service, *)
(* and between taking a token and registering the client the connection is *)
(* upgraded, which may fail.                                               *)
(*                                                                         *)
(* A failed request, the first one without a digest included, counts       *)
(* against its address in the rate limiter.                                *)
(***************************************************************************)
EXTENDS Naturals, FiniteSets, Sequences

CONSTANTS User,      \* user names (radio identities)
          Nonce,     \* nonces and ...
          Token,     \* ... tokens the random generator yields
          TTL,       \* TokenTTL
          MaxTime,   \* bound on the clock
          MaxAttempts, AuthWindow, BanDuration

\* What the proofs assume of the constants.
AdmissionConstants ==
    TTL \in Nat /\ MaxTime \in Nat \ {0} /\ AuthWindow \in Nat /\ BanDuration \in Nat

Nobody == "nobody"

VARIABLES clock,
          nonces,    \* nonces[k]: expiry, 0 if the nonce is not in the table
          tokens,    \* tokens[t]: expiry and user name, or NoToken
          asking,    \* users whose digest was accepted, the verifier to be asked
          allowed,   \* users the RadioID directory lists at the moment
          upgrading, \* tokens taken, as <<token, user>>, not yet registered
          sessions,  \* sessions[t]: user names of the sessions token t opened
          proven,    \* proven[t]: for whom and when t was issued (history)
          attempts,  \* times of the failed requests of the address, in order
          banned     \* until when the address is banned, 0 if it is not

vars == <<clock, nonces, tokens, asking, allowed, upgrading, sessions, proven, attempts, banned>>

NoToken == [exp |-> 0, user |-> Nobody]

TablesTyped ==
    /\ clock \in 1..MaxTime
    /\ nonces \in [Nonce -> 0..MaxTime + TTL]
    /\ tokens \in [Token -> [exp: 1..MaxTime + TTL, user: User] \cup {NoToken}]
    /\ asking \subseteq User
    /\ allowed \subseteq User
    /\ upgrading \subseteq Token \X User
    /\ sessions \in [Token -> SUBSET (User \X (1..MaxTime))]
    /\ proven \in [Token -> (User \cup {Nobody}) \X (0..MaxTime)]

\* The limiter appends the time of each failure, so that the attempts that have left
\* its window are the first ones.
InOrder == \A i, j \in 1..Len(attempts) : i <= j => attempts[i] <= attempts[j] /\ attempts[j] <= clock

TypeOK ==
    /\ TablesTyped
    /\ attempts \in Seq(1..MaxTime)
    /\ banned \in 0..MaxTime + BanDuration

Init ==
    /\ clock = 1
    /\ nonces = [k \in Nonce |-> 0]
    /\ tokens = [t \in Token |-> NoToken]
    /\ asking = {}
    /\ allowed = User
    /\ upgrading = {}
    /\ sessions = [t \in Token |-> {}]
    /\ proven = [t \in Token |-> <<Nobody, 0>>]
    /\ attempts = <<>>
    /\ banned = 0

-----------------------------------------------------------------------------
(* The rate limiter                                                        *)

\* IsBanned of this build.
IsBanned == FALSE

\* RecordFailure.
Failure ==
    LET past == {i \in 1..Len(attempts) : attempts[i] + AuthWindow <= clock}
        recent == Append(SubSeq(attempts, Cardinality(past) + 1, Len(attempts)), clock)
    IN  IF Len(recent) >= MaxAttempts
        THEN attempts' = <<>> /\ banned' = clock + BanDuration
        ELSE attempts' = recent /\ UNCHANGED banned

\* RecordSuccess.
Success == attempts' = <<>> /\ UNCHANGED banned

-----------------------------------------------------------------------------
(* Discovery                                                               *)

\* issueDigestChallenge: a fresh nonce for a request that failed.
Challenge(k) ==
    /\ nonces' = [nonces EXCEPT ![k] = clock + TTL]
    /\ Failure

\* A request without a digest, or with one that does not match.
Refuse(k) ==
    /\ ~IsBanned
    /\ nonces[k] = 0
    /\ Challenge(k)
    /\ UNCHANGED <<clock, tokens, asking, allowed, upgrading, sessions, proven>>

\* A right digest over a nonce that has expired: the nonce goes.
Expired(j, k) ==
    /\ ~IsBanned
    /\ nonces[j] # 0 /\ clock > nonces[j]
    /\ k = j \/ nonces[k] = 0
    /\ nonces' = [nonces EXCEPT ![j] = 0, ![k] = clock + TTL]
    /\ Failure
    /\ UNCHANGED <<clock, tokens, asking, allowed, upgrading, sessions, proven>>

\* A right digest over a valid nonce, which stays in the table.
Accept(u, k) ==
    /\ ~IsBanned
    /\ nonces[k] # 0 /\ clock <= nonces[k]
    /\ u \notin asking
    /\ asking' = asking \cup {u}
    /\ UNCHANGED <<clock, nonces, tokens, allowed, upgrading, sessions, proven, attempts, banned>>

\* The verifier refuses the user ...
Reject(u, k) ==
    /\ u \in asking /\ u \notin allowed
    /\ nonces[k] = 0
    /\ asking' = asking \ {u}
    /\ Challenge(k)
    /\ UNCHANGED <<clock, tokens, allowed, upgrading, sessions, proven>>

\* ... or a token is issued.
IssueToken(u, t) ==
    /\ u \in asking /\ u \in allowed
    /\ tokens[t] = NoToken /\ sessions[t] = {} /\ \A p \in upgrading : p[1] # t
    /\ asking' = asking \ {u}
    /\ tokens' = [tokens EXCEPT ![t] = [exp |-> clock + TTL, user |-> u]]
    /\ proven' = [proven EXCEPT ![t] = <<u, clock>>]
    /\ Success
    /\ UNCHANGED <<clock, nonces, allowed, upgrading, sessions>>

-----------------------------------------------------------------------------
(* The websocket request                                                   *)

\* Variant: a token stays in the table while it is valid.
ConsumeTokenKept(t) ==
    /\ tokens[t] # NoToken
    /\ tokens' = IF clock > tokens[t].exp THEN [tokens EXCEPT ![t] = NoToken] ELSE tokens
    /\ upgrading' = IF clock > tokens[t].exp THEN upgrading
                    ELSE upgrading \cup {<<t, tokens[t].user>>}
    /\ UNCHANGED <<clock, nonces, asking, allowed, sessions, proven, attempts, banned>>

\* Variant: the expiry is not looked at.
ConsumeTokenStale(t) ==
    /\ tokens[t] # NoToken
    /\ tokens' = [tokens EXCEPT ![t] = NoToken]
    /\ upgrading' = upgrading \cup {<<t, tokens[t].user>>}
    /\ UNCHANGED <<clock, nonces, asking, allowed, sessions, proven, attempts, banned>>

\* consumeToken: the token goes, valid or not.
ConsumeToken(t) ==
    /\ tokens[t] # NoToken
    /\ tokens' = [tokens EXCEPT ![t] = NoToken]
    /\ upgrading' = IF clock > tokens[t].exp THEN upgrading
                    ELSE upgrading \cup {<<t, tokens[t].user>>}
    /\ UNCHANGED <<clock, nonces, asking, allowed, sessions, proven, attempts, banned>>

\* Upgrade and registerClient ...
Register(t, u) ==
    /\ <<t, u>> \in upgrading
    /\ upgrading' = upgrading \ {<<t, u>>}
    /\ sessions' = [sessions EXCEPT ![t] = @ \cup {<<u, clock>>}]
    /\ UNCHANGED <<clock, nonces, tokens, asking, allowed, proven, attempts, banned>>

\* ... or a failed upgrade: the token is spent.
UpgradeFails(t, u) ==
    /\ <<t, u>> \in upgrading
    /\ upgrading' = upgrading \ {<<t, u>>}
    /\ UNCHANGED <<clock, nonces, tokens, asking, allowed, sessions, proven, attempts, banned>>

-----------------------------------------------------------------------------
\* The RadioID directory is synchronised and a user appears or disappears.
Directory(u) ==
    /\ allowed' = IF u \in allowed THEN allowed \ {u} ELSE allowed \cup {u}
    /\ UNCHANGED <<clock, nonces, tokens, asking, upgrading, sessions, proven, attempts, banned>>

\* Time passes; the upgrade of a connection takes none to speak of.
Tick ==
    /\ clock < MaxTime /\ upgrading = {}
    /\ clock' = clock + 1
    /\ UNCHANGED <<nonces, tokens, asking, allowed, upgrading, sessions, proven, attempts, banned>>

Next ==
    \/ Tick
    \/ \E k \in Nonce : Refuse(k)
    \/ \E j, k \in Nonce : Expired(j, k)
    \/ \E u \in User : Directory(u)
    \/ \E u \in User, k \in Nonce : Accept(u, k) \/ Reject(u, k)
    \/ \E u \in User, t \in Token : IssueToken(u, t)
    \/ \E t \in Token : ConsumeToken(t)
    \/ \E t \in Token, u \in User : Register(t, u) \/ UpgradeFails(t, u)

Spec == Init /\ [][Next]_vars

-----------------------------------------------------------------------------
(* Properties                                                              *)

\* A token opens one session at most, however many requests present it and
\* although it may still be valid (consumeToken deletes before it checks).
TokenOnce ==
    \A t \in Token :
        Cardinality(sessions[t]) + Cardinality({p \in upgrading : p[1] = t}) <= 1

\* A session runs under a name that was proven by digest and allowed by the
\* directory at most TokenTTL before.
SessionFresh ==
    \A t \in Token : \A s \in sessions[t] :
        s[1] = proven[t][1] /\ s[2] <= proven[t][2] + TTL

\* A token lets in one base station, under the name that was proven.
AdmissionSound == TypeOK /\ InOrder /\ TokenOnce /\ SessionFresh
=============================================================================
