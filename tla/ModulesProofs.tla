--------------------------- MODULE ModulesProofs ---------------------------
(***************************************************************************)
(* Proofs about the modules that are Brew clients: the web radio, the echo *)
(* bridge, the DMR bridge and the Zello bridge, for any number of calls,   *)
(* sources, frames and events.                                             *)
(***************************************************************************)
EXTENDS ModuleParts, Integers, Sequences, SequenceTheorems, TLAPS

-----------------------------------------------------------------------------
(* The web radio                                                           *)

\* A report of ffmpeg on its way.
Report == [silence : BOOLEAN, live : BOOLEAN]

\* The invariant: what the session has on the talkgroup.
RadioInv ==
    /\ Rad!TypeOK
    /\ lines \in Seq(Report)
    /\ started \in BOOLEAN
    /\ Rad!NothingLeftOpen

\* What a report says.
LEMMA ReportFields ==
    ASSUME NEW q \in Seq(Report)
    PROVE  \A i \in DOMAIN q : /\ q[i] \in Report
                               /\ q[i].silence \in BOOLEAN /\ q[i].live \in BOOLEAN
<1>1. ASSUME NEW i \in DOMAIN q
      PROVE q[i] \in Report
  OBVIOUS
<1> QED BY <1>1 DEF Report

\* The number of a session's next call.
LEMMA NextCall == \A n \in 0..2 : (n + 1) % 3 \in 0..2
<1>1. \A n \in 0..2 : n = 0 \/ n = 1 \/ n = 2
  OBVIOUS
<1>2. (0 + 1) % 3 = 1 /\ (1 + 1) % 3 = 2 /\ (2 + 1) % 3 = 0
  OBVIOUS
<1> QED BY <1>1, <1>2

\* Taking a report out of those that are on their way leaves reports.
LEMMA ReportsRemain ==
    ASSUME NEW q \in Seq(Report), NEW i \in DOMAIN q
    PROVE  Rad!RemoveAt(q, i) \in Seq(Report)
<1>1. i \in 1..Len(q) /\ Len(q) \in Nat
  OBVIOUS
<1>2. \A j \in 1..i - 1 : q[j] \in Report
  BY <1>1, ElementOfSeq
<1>3. \A j \in i + 1..Len(q) : q[j] \in Report
  BY <1>1, ElementOfSeq
<1>4. SubSeq(q, 1, i - 1) \in Seq(Report)
  BY <1>1, <1>2, SubSeqProperties
<1>5. SubSeq(q, i + 1, Len(q)) \in Seq(Report)
  BY <1>1, <1>3, SubSeqProperties
<1> QED BY <1>4, <1>5, ConcatProperties DEF Rad!RemoveAt

\* Every step of the web radio keeps the invariant.
LEMMA RadioStep ==
    ASSUME Rad!RadioConstants, RadioInv, [Rad!Next]_(Rad!vars)
    PROVE  RadioInv'
<1> USE DEF RadioInv, Rad!TypeOK, Rad!NothingLeftOpen, Rad!RadioConstants
<1>1. CASE Rad!StartSession
  <2>1. (call + 1) % 3 \in 0..2
    BY NextCall
  <2>2. call' \in 0..2 /\ started' = FALSE /\ inCall' = 0 /\ quiet' = FALSE /\ hung' = FALSE /\ cause' = "none"
    BY <1>1, <2>1 DEF Rad!StartSession
  <2>3. air' = {} /\ at' \in {"reading", "delay"}
    BY <1>1 DEF Rad!StartSession
  <2>4. UNCHANGED <<source, command, lines>>
    BY <1>1 DEF Rad!StartSession
  <2>5. call' \in 0..2
    BY <2>2
  <2>6. air' \subseteq 0..2
    BY <2>3
  <2>7. inCall' \in 0..RestartAfter - 1
    BY <2>2
  <2>8. source' \in 0..Sources - 1 
    BY <2>4
  <2>9. Rad!TypeOK'
    BY <2>2, <2>3, <2>4, <2>5, <2>6, <2>7, <2>8
  <2>10. Rad!NothingLeftOpen'
    BY <2>2, <2>3
  <2> QED BY <2>2, <2>4, <2>9, <2>10
<1>2. CASE Rad!Frame
  <2>1. at = "reading" /\ UNCHANGED <<at, source, cause, command, lines, quiet, hung>>
    BY <1>2 DEF Rad!Frame
  <2>2. CASE Rad!IdleCall
    <3>1. call' \in 0..2 /\ started' = FALSE /\ inCall' = 0
      BY <2>2, NextCall DEF Rad!IdleCall
    <3>2. air' = {}
      BY <2>1, <2>2 DEF Rad!IdleCall
    <3>3. air' \subseteq 0..2
      BY <3>2
    <3>4. inCall' \in 0..RestartAfter - 1
      BY <3>1
    <3>5. Rad!TypeOK'
      BY <2>1, <3>1, <3>3, <3>4
    <3> QED BY <2>1, <3>1, <3>2, <3>5
  <2>3. CASE UNCHANGED <<air, call, started, inCall>>
    BY <2>1, <2>3
  <2>4. CASE /\ ~(inCall + 1 >= RestartAfter)
             /\ air' = air \cup {call} /\ started' = TRUE /\ inCall' = inCall + 1 /\ UNCHANGED call
    <3>1. air' = {call} /\ inCall' \in 0..RestartAfter - 1
      BY <2>1, <2>4
    <3> QED BY <2>1, <2>4, <3>1
  <2> QED BY <1>2, <2>2, <2>3, <2>4 DEF Rad!Frame
<1>3. CASE Rad!ReadEnds
  BY <1>3 DEF Rad!ReadEnds, Rad!Event
<1>4. CASE Rad!EndSession
  <2>1. lines' \in Seq(Report)
    <3>1. lines' = [i \in 1..Len(lines) |-> [lines[i] EXCEPT !.live = FALSE]]
      BY <1>4 DEF Rad!EndSession
    <3>2. \A r \in Report : [r EXCEPT !.live = FALSE] \in Report
      BY DEF Report
    <3>3. \A i \in 1..Len(lines) : [lines[i] EXCEPT !.live = FALSE] \in Report
      BY <3>2, ReportFields
    <3> QED BY <3>1, <3>3, IsASeq
  <2>2. \A i \in DOMAIN lines' : lines'[i].silence \in BOOLEAN /\ lines'[i].live \in BOOLEAN
    BY <2>1, ReportFields
  <2>3. source' \in 0..Sources - 1
    BY <1>4 DEF Rad!EndSession
  <2>4. air' = {} /\ at' \in {"select", "delay"} /\ command'.cause \in {"none", "skip", "reload"}
    BY <1>4 DEF Rad!EndSession, Rad!Released
  <2> QED BY <1>4, <2>1, <2>2, <2>3, <2>4 DEF Rad!EndSession
<1>5. CASE Rad!Delay \/ Rad!Return \/ Rad!WatchStall \/ Rad!Stop
  BY <1>5 DEF Rad!Delay, Rad!Return, Rad!WatchStall, Rad!Stop
<1>6. ASSUME NEW c \in {"skip", "reload"}, Rad!Command(c)
      PROVE RadioInv'
  BY <1>6 DEF Rad!Command, Rad!Event
<1>7. CASE Rad!CommandCancels
  BY <1>7 DEF Rad!CommandCancels, Rad!NoCommand
<1>8. ASSUME NEW m \in BOOLEAN, Rad!SetMuted(m)
      PROVE RadioInv'
  BY <1>8 DEF Rad!SetMuted, Rad!Event
<1>9. CASE Rad!Silencedetect
  <2>1. lines' \in Seq(Report)
    BY <1>9, AppendProperties DEF Rad!Silencedetect, Report
  <2>2. \A i \in DOMAIN lines' : lines'[i].silence \in BOOLEAN /\ lines'[i].live \in BOOLEAN
    BY <2>1, ReportFields
  <2> QED BY <1>9, <2>1, <2>2 DEF Rad!Silencedetect, Rad!Event
<1>10. CASE Rad!Hang
  BY <1>10 DEF Rad!Hang, Rad!Event
<1>11. ASSUME NEW i \in 1..RadioEvents, Rad!ParseLine(i)
       PROVE RadioInv'
  <2>1. lines' \in Seq(Report)
    BY <1>11, ReportsRemain DEF Rad!ParseLine
  <2>2. \A j \in DOMAIN lines' : lines'[j].silence \in BOOLEAN /\ lines'[j].live \in BOOLEAN
    BY <2>1, ReportFields
  <2> QED BY <1>11, <2>1, <2>2 DEF Rad!ParseLine
<1>12. CASE UNCHANGED Rad!vars
  BY <1>12 DEF Rad!vars
<1> QED BY <1>1, <1>2, <1>3, <1>4, <1>5, <1>6, <1>7, <1>8, <1>9, <1>10, <1>11, <1>12 DEF Rad!Next

\* On the talkgroup there is the call of the session and no other, however a
\* session ends and whatever commands, watchdog, silence and Stop do meanwhile.
THEOREM RadioAlwaysSound ==
    ASSUME Rad!RadioConstants
    PROVE  Rad!Spec => []RadioSound
<1>1. Rad!Init => RadioInv
  <2> SUFFICES ASSUME Rad!Init PROVE RadioInv
    OBVIOUS
  <2>1. lines = <<>> /\ lines \in Seq(Report)
    BY DEF Rad!Init
  <2>2. 0 \in 0..Sources - 1 /\ 0 \in 0..RestartAfter - 1
    BY DEF Rad!RadioConstants
  <2>3. at = "select" /\ cause = "none" /\ call = 0 /\ started = FALSE /\ quiet = FALSE /\ hung = FALSE
    BY DEF Rad!Init
  <2>4. source = 0 /\ inCall = 0 /\ air = {} /\ command.cause = "none"
    BY DEF Rad!Init, Rad!NoCommand
  <2>5. \A i \in DOMAIN lines : lines[i].silence \in BOOLEAN /\ lines[i].live \in BOOLEAN
    BY <2>1
  <2>6. Rad!TypeOK
    <3>1. call \in 0..2 /\ air \subseteq 0..2
      BY <2>3, <2>4
    <3>2. source \in 0..Sources - 1 /\ inCall \in 0..RestartAfter - 1
      BY <2>2, <2>4
    <3> QED BY <2>3, <2>4, <2>5, <3>1, <3>2 DEF Rad!TypeOK
  <2>7. Rad!NothingLeftOpen
    BY <2>3, <2>4 DEF Rad!NothingLeftOpen
  <2> QED BY <2>1, <2>3, <2>6, <2>7 DEF RadioInv
<1>2. RadioInv /\ [Rad!Next]_(Rad!vars) => RadioInv'
  BY RadioStep
<1>3. RadioInv => RadioSound
  BY DEF RadioInv, RadioSound, Rad!RadioSound
<1> QED BY <1>1, <1>2, <1>3, PTL DEF Rad!Spec

-----------------------------------------------------------------------------
(* The echo bridge: places of frames                                       *)

\* Wherever frames are, and that no frame is in two places: Held and EchoOnce of
\* the module, of given tables.
Places(cs, ts, q, now, out) ==
    {<<"capture", c[1], c[2]>> : c \in cs}
        \cup {<<"carried", t[1], t[2]>> : t \in ts}
        \cup {<<"queued", i, q[i]>> : i \in DOMAIN q}
        \cup {<<"playing", 0, now>>, <<"played", 0, out>>}

Once(H) ==
    \A h, g \in H : \A i \in DOMAIN h[3], j \in DOMAIN g[3] :
        h[3][i] = g[3][j] => h = g /\ i = j

\* No frame has a number above n.
Numbered(H, n) == \A h \in H : \A i \in DOMAIN h[3] : h[3][i][2] <= n

\* Frames, of calls in C, are kept in sequences.
Kept(C, cs, ts, q, now, out) ==
    /\ \A c \in cs : c[2] \in Seq(C \X (Nat \ {0})) /\ c = <<c[1], c[2]>>
    /\ \A t \in ts : t[2] \in Seq(C \X (Nat \ {0})) /\ t = <<t[1], t[2]>>
    /\ q \in Seq(Seq(C \X (Nat \ {0})))
    /\ now \in Seq(C \X (Nat \ {0}))
    /\ out \in Seq(C \X (Nat \ {0}))

\* All frames are apart, and none has a number above n.
Apart(H, n) == Once(H) /\ Numbered(H, n)

\* Each frame of G comes from H, and the place it had there, by m, makes the one it
\* has; or it is f, at the place r.
Comes(H, G, m) ==
    \A g \in G : \A i \in DOMAIN g[3] :
        \E h \in H : \E j \in DOMAIN h[3] : h[3][j] = g[3][i] /\ m[<<h, j>>] = <<g, i>>
ComesOr(H, G, m, f, r) ==
    \A g \in G : \A i \in DOMAIN g[3] :
        \/ g[3][i] = f /\ <<g, i>> = r
        \/ \E h \in H : \E j \in DOMAIN h[3] : h[3][j] = g[3][i] /\ m[<<h, j>>] = <<g, i>>
New(H, f) == \A h \in H : \A j \in DOMAIN h[3] : h[3][j] # f

\* Frames that only move, each to a place of its own (m), stay apart, and a new
\* one (f, at the place r) may join them.
LEMMA Joined ==
    ASSUME NEW H, NEW G, NEW m, NEW f, NEW r,
           Once(H), New(H, f), ComesOr(H, G, m, f, r)
    PROVE  Once(G)
<1>1. SUFFICES ASSUME NEW g1 \in G, NEW g2 \in G, NEW i1 \in DOMAIN g1[3], NEW i2 \in DOMAIN g2[3],
                      g1[3][i1] = g2[3][i2]
               PROVE  <<g1, i1>> = <<g2, i2>>
  BY DEF Once
<1>2. CASE ~\E h \in H : \E j \in DOMAIN h[3] : h[3][j] = g1[3][i1]
  <2>1. <<g1, i1>> = r
    BY <1>2 DEF ComesOr
  <2>2. ~\E h \in H : \E j \in DOMAIN h[3] : h[3][j] = g2[3][i2]
    BY <1>1, <1>2
  <2>3. <<g2, i2>> = r
    BY <2>2 DEF ComesOr
  <2> QED BY <2>1, <2>3
<1>3. CASE \E h \in H : \E j \in DOMAIN h[3] : h[3][j] = g1[3][i1]
  <2>1. g1[3][i1] # f
    BY <1>3 DEF New
  <2>2. PICK h1 \in H : \E j \in DOMAIN h1[3] : h1[3][j] = g1[3][i1] /\ m[<<h1, j>>] = <<g1, i1>>
    BY <2>1 DEF ComesOr
  <2>3. PICK j1 \in DOMAIN h1[3] : h1[3][j1] = g1[3][i1] /\ m[<<h1, j1>>] = <<g1, i1>>
    BY <2>2
  <2>4. PICK h2 \in H : \E j \in DOMAIN h2[3] : h2[3][j] = g2[3][i2] /\ m[<<h2, j>>] = <<g2, i2>>
    BY <1>1, <2>1 DEF ComesOr
  <2>5. PICK j2 \in DOMAIN h2[3] : h2[3][j2] = g2[3][i2] /\ m[<<h2, j2>>] = <<g2, i2>>
    BY <2>4
  <2>6. h1[3][j1] = h2[3][j2]
    BY <1>1, <2>3, <2>5
  <2>7. h1 = h2 /\ j1 = j2
    BY <2>6 DEF Once
  <2> QED BY <2>3, <2>5, <2>7
<1> QED BY <1>2, <1>3

\* The same without a new one.
LEMMA StillApart ==
    ASSUME NEW H, NEW G, NEW m, NEW n \in Nat,
           Apart(H, n), Comes(H, G, m)
    PROVE  Apart(G, n)
<1> DEFINE f == <<0, n + 1>>
<1>1. \A h \in H : \A j \in DOMAIN h[3] : h[3][j][2] <= n
  BY DEF Apart, Numbered
<1>2. f[2] = n + 1 /\ ~(n + 1 <= n)
  OBVIOUS
<1>3. New(H, f)
  BY <1>1, <1>2 DEF New
<1>4. Once(H)
  BY DEF Apart
<1> HIDE DEF f
<1>5. ComesOr(H, G, m, f, 0)
  BY DEF Comes, ComesOr
<1>6. Once(G)
  BY <1>3, <1>4, <1>5, Joined
<1>7. Numbered(G, n)
  BY <1>1 DEF Comes, Numbered
<1> QED BY <1>6, <1>7 DEF Apart

\* Of fewer frames, none is in two places.
LEMMA Fewer ==
    ASSUME NEW H, NEW G, NEW n, Apart(H, n),
           \A g \in G : g \in H \/ DOMAIN g[3] = {}
    PROVE  Apart(G, n)
BY DEF Apart, Once, Numbered

\* The places are of five kinds.
LEMMA Kinds ==
    ASSUME NEW C, NEW cs, NEW ts, NEW q, NEW now, NEW out, Kept(C, cs, ts, q, now, out),
           NEW h \in Places(cs, ts, q, now, out)
    PROVE  /\ h[3] \in Seq(C \X (Nat \ {0}))
           /\ \A i \in DOMAIN h[3] : i \in Nat /\ i \in 1..Len(h[3])
           /\ \/ \E c \in cs : h = <<"capture", c[1], c[2]>>
              \/ \E t \in ts : h = <<"carried", t[1], t[2]>>
              \/ \E i \in DOMAIN q : h = <<"queued", i, q[i]>>
              \/ h = <<"playing", 0, now>>
              \/ h = <<"played", 0, out>>
<1>1. \/ \E c \in cs : h = <<"capture", c[1], c[2]>>
      \/ \E t \in ts : h = <<"carried", t[1], t[2]>>
      \/ \E i \in DOMAIN q : h = <<"queued", i, q[i]>>
      \/ h = <<"playing", 0, now>>
      \/ h = <<"played", 0, out>>
  BY DEF Places
<1>2. \A i \in DOMAIN q : q[i] \in Seq(C \X (Nat \ {0}))
  BY DEF Kept
<1>3. h[3] \in Seq(C \X (Nat \ {0}))
  BY <1>1, <1>2 DEF Kept
<1>4. \A i \in DOMAIN h[3] : i \in Nat /\ i \in 1..Len(h[3])
  BY <1>3
<1> QED BY <1>1, <1>3, <1>4

\* The captures of a call, and what s carries when it takes the captures es.
OfCall(cs, k) == {c \in cs : c[1] = k}
CarriedBy(s, es) == {<<s, c[2]>> : c \in es}

\* The frames of the captures of s's call are carried by s.
LEMMA TakeApart ==
    ASSUME NEW C, NEW cs, NEW ts, NEW q, NEW now, NEW out, Kept(C, cs, ts, q, now, out),
           NEW n \in Nat, Apart(Places(cs, ts, q, now, out), n), NEW s,
           NEW es, es \subseteq OfCall(cs, s[1])
    PROVE  Apart(Places(cs \ OfCall(cs, s[1]), ts \cup CarriedBy(s, es), q, now, out), n)
<1> DEFINE left == cs \ OfCall(cs, s[1])
           carried == ts \cup CarriedBy(s, es)
           H == Places(cs, ts, q, now, out)
           G == Places(left, carried, q, now, out)
           m == [p \in H \X Nat |-> IF p[1][1] = "capture" /\ p[1][2] = s[1]
                                    THEN <<<<"carried", s, p[1][3]>>, p[2]>> ELSE p]
<1>1. Kept(C, left, carried, q, now, out)
  <2>1. ASSUME NEW c \in es, NEW t, t = <<s, c[2]>>
        PROVE t[2] \in Seq(C \X (Nat \ {0})) /\ t = <<t[1], t[2]>>
    BY <2>1 DEF Kept, OfCall
  <2>2. \A t \in carried : t[2] \in Seq(C \X (Nat \ {0})) /\ t = <<t[1], t[2]>>
    BY <2>1 DEF Kept, CarriedBy
  <2> HIDE DEF carried
  <2> QED BY <2>2 DEF Kept
<1>2. /\ \A c \in left : c \in cs /\ c[1] # s[1]
      /\ \A t \in carried : t \in ts \/ \E c \in es : t[1] = s /\ t[2] = c[2]
      /\ \A c \in es : c \in cs /\ c[1] = s[1]
  BY DEF OfCall, CarriedBy
<1> HIDE DEF left, carried
<1>3. ASSUME NEW g \in G, NEW i \in DOMAIN g[3]
      PROVE \E h \in H : \E j \in DOMAIN h[3] : h[3][j] = g[3][i] /\ m[<<h, j>>] = <<g, i>>
  <2>1. i \in Nat
    BY <1>1, <1>3, Kinds
  <2>2. \/ \E c \in left : g = <<"capture", c[1], c[2]>>
        \/ \E t \in carried : g = <<"carried", t[1], t[2]>>
        \/ \E k \in DOMAIN q : g = <<"queued", k, q[k]>>
        \/ g = <<"playing", 0, now>>
        \/ g = <<"played", 0, out>>
    BY <1>3 DEF Places
  <2>3. ASSUME g \in H, ~(g[1] = "capture" /\ g[2] = s[1])
        PROVE \E h \in H : \E j \in DOMAIN h[3] : h[3][j] = g[3][i] /\ m[<<h, j>>] = <<g, i>>
    <3>1. <<g, i>> \in H \X Nat
      BY <2>1, <2>3
    <3>2. m[<<g, i>>] = <<g, i>>
      BY <2>3, <3>1
    <3> QED BY <2>3, <3>2, <1>3
  <2>4. CASE \E c \in left : g = <<"capture", c[1], c[2]>>
    <3>1. g \in H
      BY <1>2, <2>4 DEF Places
    <3>2. g[1] = "capture" /\ g[2] # s[1]
      BY <1>2, <2>4
    <3> QED BY <2>3, <3>1, <3>2
  <2>5. CASE \E t \in ts : g = <<"carried", t[1], t[2]>>
    <3>1. g \in H
      BY <2>5 DEF Places
    <3>2. g[1] # "capture"
      BY <2>5
    <3> QED BY <2>3, <3>1, <3>2
  <2>6. CASE \E c \in es : g = <<"carried", s, c[2]>>
    <3>1. PICK c \in es : g = <<"carried", s, c[2]>>
      BY <2>6
    <3> DEFINE h == <<"capture", c[1], c[2]>>
    <3>2. h \in H
      BY <1>2 DEF Places
    <3>3. c[1] = s[1] /\ h[3] = c[2] /\ h[2] = c[1] /\ h[1] = "capture" /\ g[3] = c[2]
      BY <1>2, <3>1
    <3>4. <<h, i>> \in H \X Nat
      BY <2>1, <3>2
    <3>5. m[<<h, i>>] = <<g, i>>
      BY <3>1, <3>3, <3>4
    <3>6. i \in DOMAIN h[3] /\ h[3][i] = g[3][i]
      BY <1>3, <3>3
    <3> QED BY <3>2, <3>5, <3>6
  <2>7. CASE \/ \E k \in DOMAIN q : g = <<"queued", k, q[k]>>
             \/ g = <<"playing", 0, now>>
             \/ g = <<"played", 0, out>>
    <3>1. g \in H
      BY <2>7 DEF Places
    <3>2. g[1] # "capture"
      BY <2>7
    <3> QED BY <2>3, <3>1, <3>2
  <2>8. (\E t \in carried : g = <<"carried", t[1], t[2]>>) =>
           \/ \E t \in ts : g = <<"carried", t[1], t[2]>>
           \/ \E c \in es : g = <<"carried", s, c[2]>>
    BY <1>2
  <2> QED BY <2>2, <2>4, <2>5, <2>6, <2>7, <2>8
<1>4. Apart(H, n) /\ Comes(H, G, m)
  BY <1>3 DEF Comes
<1> HIDE DEF H, G, m
<1>5. Apart(G, n)
  BY <1>4, StillApart
<1> QED BY <1>5 DEF G, left, carried

\* What t carries becomes the last request.
LEMMA QueueApart ==
    ASSUME NEW C, NEW cs, NEW ts, NEW q, NEW now, NEW out, Kept(C, cs, ts, q, now, out),
           NEW n \in Nat, Apart(Places(cs, ts, q, now, out), n), NEW t \in ts
    PROVE  Apart(Places(cs, ts \ {t}, Append(q, t[2]), now, out), n)
<1> DEFINE left == ts \ {t}
           queued == Append(q, t[2])
           last == Len(q) + 1
           H == Places(cs, ts, q, now, out)
           G == Places(cs, left, queued, now, out)
           m == [p \in H \X Nat |-> IF p[1][1] = "carried" /\ p[1] = <<"carried", t[1], t[2]>>
                                    THEN <<<<"queued", last, t[2]>>, p[2]>> ELSE p]
<1>1. q \in Seq(Seq(C \X (Nat \ {0}))) /\ t[2] \in Seq(C \X (Nat \ {0}))
  BY DEF Kept
<1>2. /\ queued \in Seq(Seq(C \X (Nat \ {0}))) /\ DOMAIN queued = 1..last /\ queued[last] = t[2]
      /\ \A k \in DOMAIN q : k \in DOMAIN queued /\ queued[k] = q[k]
      /\ \A k \in DOMAIN queued : k = last \/ k \in DOMAIN q
  BY <1>1, AppendProperties
<1>3. \A u \in left : u \in ts /\ u # t
  OBVIOUS
<1>4. Kept(C, cs, left, queued, now, out)
  BY <1>2 DEF Kept
<1> HIDE DEF queued, last, left
<1>5. ASSUME NEW g \in G, NEW i \in DOMAIN g[3]
      PROVE \E h \in H : \E j \in DOMAIN h[3] : h[3][j] = g[3][i] /\ m[<<h, j>>] = <<g, i>>
  <2>1. i \in Nat
    BY <1>4, <1>5, Kinds
  <2>2. \/ \E c \in cs : g = <<"capture", c[1], c[2]>>
        \/ \E u \in left : g = <<"carried", u[1], u[2]>>
        \/ \E k \in DOMAIN queued : g = <<"queued", k, queued[k]>>
        \/ g = <<"playing", 0, now>>
        \/ g = <<"played", 0, out>>
    BY <1>5 DEF Places
  <2>3. ASSUME g \in H, g # <<"carried", t[1], t[2]>>
        PROVE \E h \in H : \E j \in DOMAIN h[3] : h[3][j] = g[3][i] /\ m[<<h, j>>] = <<g, i>>
    <3>1. <<g, i>> \in H \X Nat
      BY <2>1, <2>3
    <3>2. m[<<g, i>>] = <<g, i>>
      BY <2>3, <3>1
    <3> QED BY <2>3, <3>2, <1>5
  <2>4. CASE \/ \E c \in cs : g = <<"capture", c[1], c[2]>>
             \/ \E k \in DOMAIN q : g = <<"queued", k, q[k]>>
             \/ g = <<"playing", 0, now>>
             \/ g = <<"played", 0, out>>
    <3>1. g \in H
      BY <2>4 DEF Places
    <3>2. g # <<"carried", t[1], t[2]>>
      BY <2>4
    <3> QED BY <2>3, <3>1, <3>2
  <2>5. CASE \E u \in left : g = <<"carried", u[1], u[2]>>
    <3>1. g \in H
      BY <1>3, <2>5 DEF Places
    <3>2. PICK u \in left : g = <<"carried", u[1], u[2]>>
      BY <2>5
    <3>3. u # t /\ u = <<u[1], u[2]>> /\ t = <<t[1], t[2]>>
      BY <1>3 DEF Kept
    <3>4. g # <<"carried", t[1], t[2]>>
      BY <3>2, <3>3
    <3> QED BY <2>3, <3>1, <3>4
  <2>6. CASE g = <<"queued", last, t[2]>>
    <3> DEFINE h == <<"carried", t[1], t[2]>>
    <3>1. h \in H
      BY DEF Places
    <3>2. h[3] = t[2] /\ g[3] = t[2] /\ h[1] = "carried"
      BY <2>6
    <3>3. <<h, i>> \in H \X Nat
      BY <2>1, <3>1
    <3>4. m[<<h, i>>] = <<g, i>>
      BY <2>6, <3>3
    <3>5. i \in DOMAIN h[3] /\ h[3][i] = g[3][i]
      BY <1>5, <3>2
    <3> QED BY <3>1, <3>4, <3>5
  <2>7. (\E k \in DOMAIN queued : g = <<"queued", k, queued[k]>>) =>
           g = <<"queued", last, t[2]>> \/ \E k \in DOMAIN q : g = <<"queued", k, q[k]>>
    BY <1>2
  <2> QED BY <2>2, <2>4, <2>5, <2>6, <2>7
<1>6. Apart(H, n) /\ Comes(H, G, m)
  BY <1>5 DEF Comes
<1> HIDE DEF H, G, m
<1>7. Apart(G, n)
  BY <1>6, StillApart
<1> QED BY <1>7 DEF G, left, queued

\* What Tail leaves.
LEMMA Shifted ==
    ASSUME NEW S, NEW q \in Seq(S), q # <<>>
    PROVE  /\ Tail(q) \in Seq(S) /\ Head(q) \in S /\ Head(q) = q[1] /\ 1 \in DOMAIN q
           /\ Len(Tail(q)) = Len(q) - 1
           /\ \A k \in DOMAIN Tail(q) : k \in Nat /\ k + 1 \in DOMAIN q /\ k + 1 # 1 /\ Tail(q)[k] = q[k + 1]
<1>1. Len(q) \in Nat \ {0} /\ DOMAIN q = 1..Len(q)
  OBVIOUS
<1>2. Tail(q) \in Seq(S) /\ Len(Tail(q)) = Len(q) - 1 /\ Head(q) = q[1] /\ 1 \in DOMAIN q /\ Head(q) \in S
  BY <1>1, HeadTailProperties
<1>3. DOMAIN Tail(q) = 1..Len(q) - 1
  BY <1>2
<1>4. ASSUME NEW k \in DOMAIN Tail(q)
      PROVE k \in Nat /\ k + 1 \in DOMAIN q /\ k + 1 # 1 /\ Tail(q)[k] = q[k + 1]
  BY <1>1, <1>3, <1>4
<1> QED BY <1>2, <1>4

\* The first request becomes the playback.
LEMMA DequeueApart ==
    ASSUME NEW C, NEW cs, NEW ts, NEW q, NEW out, Kept(C, cs, ts, q, <<>>, out), q # <<>>,
           NEW n \in Nat, Apart(Places(cs, ts, q, <<>>, out), n)
    PROVE  Apart(Places(cs, ts, Tail(q), Head(q), out), n)
<1> DEFINE left == Tail(q)
           H == Places(cs, ts, q, <<>>, out)
           G == Places(cs, ts, left, Head(q), out)
           m == [p \in H \X Nat |-> IF p[1][1] = "queued"
                                    THEN IF p[1][2] = 1 THEN <<<<"playing", 0, p[1][3]>>, p[2]>>
                                         ELSE <<<<"queued", p[1][2] - 1, p[1][3]>>, p[2]>>
                                    ELSE p]
<1>1. q \in Seq(Seq(C \X (Nat \ {0})))
  BY DEF Kept
<1>2. /\ left \in Seq(Seq(C \X (Nat \ {0}))) /\ Head(q) \in Seq(C \X (Nat \ {0})) /\ Head(q) = q[1] /\ 1 \in DOMAIN q
      /\ \A k \in DOMAIN left : k \in Nat /\ k + 1 \in DOMAIN q /\ k + 1 # 1 /\ left[k] = q[k + 1]
  BY <1>1, Shifted
<1>3. Kept(C, cs, ts, left, Head(q), out)
  BY <1>2 DEF Kept
<1> HIDE DEF left
<1>4. ASSUME NEW g \in G, NEW i \in DOMAIN g[3]
      PROVE \E h \in H : \E j \in DOMAIN h[3] : h[3][j] = g[3][i] /\ m[<<h, j>>] = <<g, i>>
  <2>1. i \in Nat
    BY <1>3, <1>4, Kinds
  <2>2. \/ \E c \in cs : g = <<"capture", c[1], c[2]>>
        \/ \E t \in ts : g = <<"carried", t[1], t[2]>>
        \/ \E k \in DOMAIN left : g = <<"queued", k, left[k]>>
        \/ g = <<"playing", 0, Head(q)>>
        \/ g = <<"played", 0, out>>
    BY <1>4 DEF Places
  <2>3. CASE \/ \E c \in cs : g = <<"capture", c[1], c[2]>>
             \/ \E t \in ts : g = <<"carried", t[1], t[2]>>
             \/ g = <<"played", 0, out>>
    <3>1. g \in H
      BY <2>3 DEF Places
    <3>2. g[1] # "queued"
      BY <2>3
    <3>3. <<g, i>> \in H \X Nat
      BY <2>1, <3>1
    <3>4. m[<<g, i>>] = <<g, i>>
      BY <3>2, <3>3
    <3> QED BY <1>4, <3>1, <3>4
  <2>4. CASE g = <<"playing", 0, Head(q)>>
    <3> DEFINE h == <<"queued", 1, q[1]>>
    <3>1. h \in H
      BY <1>2 DEF Places
    <3>2. h[3] = q[1] /\ g[3] = q[1] /\ h[1] = "queued" /\ h[2] = 1
      BY <1>2, <2>4
    <3>3. <<h, i>> \in H \X Nat
      BY <2>1, <3>1
    <3>4. m[<<h, i>>] = <<g, i>>
      BY <1>2, <2>4, <3>2, <3>3
    <3>5. i \in DOMAIN h[3] /\ h[3][i] = g[3][i]
      BY <1>4, <3>2
    <3> QED BY <3>1, <3>4, <3>5
  <2>5. CASE \E k \in DOMAIN left : g = <<"queued", k, left[k]>>
    <3>1. PICK k \in DOMAIN left : g = <<"queued", k, left[k]>>
      BY <2>5
    <3> DEFINE h == <<"queued", k + 1, q[k + 1]>>
    <3>2. h \in H
      BY <1>2 DEF Places
    <3>3. h[3] = q[k + 1] /\ g[3] = q[k + 1] /\ h[1] = "queued" /\ h[2] = k + 1
      BY <1>2, <3>1
    <3>4. <<h, i>> \in H \X Nat
      BY <2>1, <3>2
    <3>5. k + 1 # 1 /\ (k + 1) - 1 = k /\ left[k] = q[k + 1]
      BY <1>2
    <3>6. m[<<h, i>>] = <<<<"queued", h[2] - 1, h[3]>>, i>>
      BY <3>3, <3>4, <3>5
    <3>7. m[<<h, i>>] = <<g, i>>
      BY <3>1, <3>3, <3>5, <3>6
    <3>8. i \in DOMAIN h[3] /\ h[3][i] = g[3][i]
      BY <1>4, <3>3
    <3> QED BY <3>2, <3>7, <3>8
  <2> QED BY <2>2, <2>3, <2>4, <2>5
<1>5. Apart(H, n) /\ Comes(H, G, m)
  BY <1>4 DEF Comes
<1> HIDE DEF H, G, m
<1>6. Apart(G, n)
  BY <1>5, StillApart
<1> QED BY <1>6 DEF G, left

\* The first frame of the playback goes out.
LEMMA PlayApart ==
    ASSUME NEW C, NEW cs, NEW ts, NEW q, NEW now, NEW out, Kept(C, cs, ts, q, now, out), now # <<>>,
           NEW n \in Nat, Apart(Places(cs, ts, q, now, out), n)
    PROVE  Apart(Places(cs, ts, q, Tail(now), Append(out, Head(now))), n)
<1> DEFINE left == Tail(now)
           heard1 == Append(out, Head(now))
           last == Len(out) + 1
           H == Places(cs, ts, q, now, out)
           G == Places(cs, ts, q, left, heard1)
           m == [p \in H \X Nat |-> IF p[1][1] = "played" THEN <<<<"played", 0, heard1>>, p[2]>>
                                    ELSE IF p[1][1] # "playing" THEN p
                                    ELSE IF p[2] = 1 THEN <<<<"played", 0, heard1>>, last>>
                                    ELSE <<<<"playing", 0, left>>, p[2] - 1>>]
<1>1. now \in Seq(C \X (Nat \ {0})) /\ out \in Seq(C \X (Nat \ {0}))
  BY DEF Kept
<1>2. /\ left \in Seq(C \X (Nat \ {0})) /\ Head(now) \in C \X (Nat \ {0}) /\ Head(now) = now[1] /\ 1 \in DOMAIN now
      /\ \A k \in DOMAIN left : k \in Nat /\ k + 1 \in DOMAIN now /\ k + 1 # 1 /\ left[k] = now[k + 1]
  BY <1>1, Shifted
<1>3. /\ heard1 \in Seq(C \X (Nat \ {0})) /\ heard1[last] = now[1]
      /\ \A k \in DOMAIN heard1 : k = last \/ (k \in DOMAIN out /\ heard1[k] = out[k])
  BY <1>1, <1>2, AppendProperties
<1>4. Kept(C, cs, ts, q, left, heard1)
  BY <1>2, <1>3 DEF Kept
<1> HIDE DEF left, heard1, last
<1>5. ASSUME NEW g \in G, NEW i \in DOMAIN g[3]
      PROVE \E h \in H : \E j \in DOMAIN h[3] : h[3][j] = g[3][i] /\ m[<<h, j>>] = <<g, i>>
  <2>1. i \in Nat
    BY <1>4, <1>5, Kinds
  <2>2. \/ \E c \in cs : g = <<"capture", c[1], c[2]>>
        \/ \E t \in ts : g = <<"carried", t[1], t[2]>>
        \/ \E k \in DOMAIN q : g = <<"queued", k, q[k]>>
        \/ g = <<"playing", 0, left>>
        \/ g = <<"played", 0, heard1>>
    BY <1>5 DEF Places
  <2>3. CASE \/ \E c \in cs : g = <<"capture", c[1], c[2]>>
             \/ \E t \in ts : g = <<"carried", t[1], t[2]>>
             \/ \E k \in DOMAIN q : g = <<"queued", k, q[k]>>
    <3>1. g \in H
      BY <2>3 DEF Places
    <3>2. g[1] # "played" /\ g[1] # "playing"
      BY <2>3
    <3>3. <<g, i>> \in H \X Nat
      BY <2>1, <3>1
    <3>4. m[<<g, i>>] = <<g, i>>
      BY <3>2, <3>3
    <3> QED BY <1>5, <3>1, <3>4
  <2>4. CASE g = <<"playing", 0, left>>
    <3> DEFINE h == <<"playing", 0, now>>
    <3>1. h \in H
      BY DEF Places
    <3>2. g[3] = left /\ h[3] = now /\ h[1] = "playing"
      BY <2>4
    <3>3. i + 1 \in DOMAIN now /\ left[i] = now[i + 1] /\ i + 1 # 1 /\ (i + 1) - 1 = i /\ i + 1 \in Nat
      BY <1>2, <1>5, <2>1, <3>2
    <3>4. <<h, i + 1>> \in H \X Nat
      BY <3>1, <3>3
    <3>5. m[<<h, i + 1>>] = <<<<"playing", 0, left>>, (i + 1) - 1>>
      BY <3>2, <3>3, <3>4
    <3>6. m[<<h, i + 1>>] = <<g, i>>
      BY <2>4, <3>3, <3>5
    <3> QED BY <3>1, <3>2, <3>3, <3>6
  <2>5. CASE g = <<"played", 0, heard1>> /\ i = last
    <3> DEFINE h == <<"playing", 0, now>>
    <3>1. h \in H
      BY DEF Places
    <3>2. g[3] = heard1 /\ h[3] = now /\ h[1] = "playing"
      BY <2>5
    <3>3. <<h, 1>> \in H \X Nat
      BY <3>1
    <3>4. m[<<h, 1>>] = <<g, i>>
      BY <2>5, <3>2, <3>3
    <3>5. 1 \in DOMAIN h[3] /\ h[3][1] = g[3][i]
      BY <1>2, <1>3, <2>5, <3>2
    <3> QED BY <3>1, <3>4, <3>5
  <2>6. CASE g = <<"played", 0, heard1>> /\ i # last
    <3> DEFINE h == <<"played", 0, out>>
    <3>1. h \in H
      BY DEF Places
    <3>2. g[3] = heard1 /\ h[3] = out /\ h[1] = "played"
      BY <2>6
    <3>3. i \in DOMAIN out /\ heard1[i] = out[i]
      BY <1>3, <1>5, <2>6, <3>2
    <3>4. <<h, i>> \in H \X Nat
      BY <2>1, <3>1
    <3>5. m[<<h, i>>] = <<g, i>>
      BY <2>6, <3>2, <3>4
    <3> QED BY <3>1, <3>2, <3>3, <3>5
  <2> QED BY <2>2, <2>3, <2>4, <2>5, <2>6
<1>6. Apart(H, n) /\ Comes(H, G, m)
  BY <1>5 DEF Comes
<1> HIDE DEF H, G, m
<1>7. Apart(G, n)
  BY <1>6, StillApart
<1> QED BY <1>7 DEF G, left, heard1

\* A new frame comes into a capture.
LEMMA FrameApart ==
    ASSUME NEW C, NEW cs, NEW ts, NEW q, NEW now, NEW out, Kept(C, cs, ts, q, now, out),
           NEW n \in Nat, Apart(Places(cs, ts, q, now, out), n),
           NEW c \in cs, NEW k \in C
    PROVE  Apart(Places((cs \ {c}) \cup {<<k, Append(c[2], <<k, n + 1>>)>>}, ts, q, now, out), n + 1)
<1> DEFINE f == <<k, n + 1>>
           longer == Append(c[2], f)
           last == Len(c[2]) + 1
           kept == (cs \ {c}) \cup {<<k, longer>>}
           H == Places(cs, ts, q, now, out)
           G == Places(kept, ts, q, now, out)
           r == <<<<"capture", k, longer>>, last>>
           m == [p \in H \X Nat |-> IF p[1] = <<"capture", c[1], c[2]>>
                                    THEN <<<<"capture", k, longer>>, p[2]>> ELSE p]
<1>1. c[2] \in Seq(C \X (Nat \ {0})) /\ f \in C \X (Nat \ {0}) /\ f[2] = n + 1 /\ ~(n + 1 <= n)
  BY DEF Kept
<1>2. /\ longer \in Seq(C \X (Nat \ {0})) /\ longer[last] = f
      /\ \A i \in DOMAIN longer : i = last \/ (i \in DOMAIN c[2] /\ longer[i] = c[2][i])
  BY <1>1, AppendProperties
<1>3. \A d \in kept : (d \in cs /\ d # c) \/ d = <<k, longer>>
  OBVIOUS
<1>4. Kept(C, kept, ts, q, now, out)
  <2>1. \A d \in kept : d[2] \in Seq(C \X (Nat \ {0})) /\ d = <<d[1], d[2]>>
    <3>1. ASSUME NEW d \in cs
          PROVE d[2] \in Seq(C \X (Nat \ {0})) /\ d = <<d[1], d[2]>>
      BY DEF Kept
    <3>2. ASSUME NEW d, d = <<k, longer>>
          PROVE d[2] \in Seq(C \X (Nat \ {0})) /\ d = <<d[1], d[2]>>
      BY <1>2, <3>2
    <3> QED BY <1>3, <3>1, <3>2
  <2> QED BY <2>1 DEF Kept
<1>5. \A h \in H : \A j \in DOMAIN h[3] : h[3][j][2] <= n
  BY DEF Apart, Numbered
<1>6. New(H, f)
  BY <1>1, <1>5 DEF New
<1> HIDE DEF longer, last, kept, f
<1>7. ASSUME NEW g \in G, NEW i \in DOMAIN g[3]
      PROVE \/ g[3][i] = f /\ <<g, i>> = r
            \/ \E h \in H : \E j \in DOMAIN h[3] : h[3][j] = g[3][i] /\ m[<<h, j>>] = <<g, i>>
  <2>1. i \in Nat
    BY <1>4, <1>7, Kinds
  <2>2. \/ \E d \in kept : g = <<"capture", d[1], d[2]>>
        \/ \E t \in ts : g = <<"carried", t[1], t[2]>>
        \/ \E l \in DOMAIN q : g = <<"queued", l, q[l]>>
        \/ g = <<"playing", 0, now>>
        \/ g = <<"played", 0, out>>
    BY <1>7 DEF Places
  <2>3. ASSUME g \in H, g # <<"capture", c[1], c[2]>>
        PROVE \E h \in H : \E j \in DOMAIN h[3] : h[3][j] = g[3][i] /\ m[<<h, j>>] = <<g, i>>
    <3>1. <<g, i>> \in H \X Nat
      BY <2>1, <2>3
    <3>2. m[<<g, i>>] = <<g, i>>
      BY <2>3, <3>1
    <3> QED BY <2>3, <3>2, <1>7
  <2>4. CASE \/ \E t \in ts : g = <<"carried", t[1], t[2]>>
             \/ \E l \in DOMAIN q : g = <<"queued", l, q[l]>>
             \/ g = <<"playing", 0, now>>
             \/ g = <<"played", 0, out>>
    <3>1. g \in H
      BY <2>4 DEF Places
    <3>2. g # <<"capture", c[1], c[2]>>
      BY <2>4
    <3> QED BY <2>3, <3>1, <3>2
  <2>5. CASE \E d \in cs : d # c /\ g = <<"capture", d[1], d[2]>>
    <3>1. g \in H
      BY <2>5 DEF Places
    <3>2. PICK d \in cs : d # c /\ g = <<"capture", d[1], d[2]>>
      BY <2>5
    <3>3. d = <<d[1], d[2]>> /\ c = <<c[1], c[2]>>
      BY DEF Kept
    <3>4. g # <<"capture", c[1], c[2]>>
      BY <3>2, <3>3
    <3> QED BY <2>3, <3>1, <3>4
  <2>6. CASE g = <<"capture", k, longer>> /\ i = last
    BY <1>2, <2>6
  <2>7. CASE g = <<"capture", k, longer>> /\ i # last
    <3> DEFINE h == <<"capture", c[1], c[2]>>
    <3>1. h \in H
      BY DEF Places
    <3>2. g[3] = longer /\ h[3] = c[2]
      BY <2>7
    <3>3. i \in DOMAIN h[3] /\ h[3][i] = g[3][i]
      BY <1>2, <1>7, <2>7, <3>2
    <3>4. <<h, i>> \in H \X Nat
      BY <2>1, <3>1
    <3>5. m[<<h, i>>] = <<g, i>>
      BY <2>7, <3>4
    <3> QED BY <3>1, <3>3, <3>5
  <2>8. (\E d \in kept : g = <<"capture", d[1], d[2]>>) =>
           \/ g = <<"capture", k, longer>>
           \/ \E d \in cs : d # c /\ g = <<"capture", d[1], d[2]>>
    BY <1>3
  <2> QED BY <2>2, <2>4, <2>5, <2>6, <2>7, <2>8
<1>8. ComesOr(H, G, m, f, r) /\ Once(H)
  BY <1>7 DEF ComesOr, Apart
<1>9. \A h \in H : \A j \in DOMAIN h[3] : h[3][j][2] \in Nat
  <2>1. ASSUME NEW h \in H, NEW j \in DOMAIN h[3]
        PROVE h[3][j][2] \in Nat
    <3>1. h[3] \in Seq(C \X (Nat \ {0}))
      BY Kinds
    <3>2. h[3][j] \in C \X (Nat \ {0})
      BY <2>1, <3>1
    <3> QED BY <3>2
  <2> QED BY <2>1
<1> HIDE DEF H, G, m, r
<1>10. Numbered(G, n + 1)
  <2>1. ASSUME NEW g \in G, NEW i \in DOMAIN g[3]
        PROVE g[3][i][2] <= n + 1
    <3>1. CASE g[3][i] = f
      BY <1>1, <3>1
    <3>2. CASE \E h \in H : \E j \in DOMAIN h[3] : h[3][j] = g[3][i]
      BY <1>5, <1>9, <3>2
    <3> QED BY <1>8, <2>1, <3>1, <3>2 DEF ComesOr
  <2> QED BY <2>1 DEF Numbered
<1>11. Once(G)
  BY <1>6, <1>8, Joined
<1> QED BY <1>10, <1>11 DEF Apart, G, kept, longer, f

\* The next event numbers its frame.
LEMMA Later ==
    ASSUME NEW C, NEW cs, NEW ts, NEW q, NEW now, NEW out, Kept(C, cs, ts, q, now, out),
           NEW n \in Nat, Apart(Places(cs, ts, q, now, out), n)
    PROVE  Apart(Places(cs, ts, q, now, out), n + 1)
<1> DEFINE H == Places(cs, ts, q, now, out)
<1>1. ASSUME NEW h \in H, NEW i \in DOMAIN h[3]
      PROVE h[3][i][2] <= n + 1
  <2>1. h[3] \in Seq(C \X (Nat \ {0}))
    BY Kinds
  <2>2. h[3][i][2] \in Nat
    BY <1>1, <2>1
  <2>3. h[3][i][2] <= n
    BY <1>1 DEF Apart, Numbered
  <2> QED BY <2>2, <2>3
<1>2. Numbered(H, n + 1)
  BY <1>1 DEF Numbered
<1> QED BY <1>2 DEF Apart

\* A capture that is begun is empty.
LEMMA EnsureApart ==
    ASSUME NEW cs, NEW ts, NEW q, NEW now, NEW out, NEW n, NEW k, NEW ds,
           Apart(Places(cs, ts, q, now, out), n),
           ds \subseteq cs \cup {<<k, <<>>>>}
    PROVE  Apart(Places(ds, ts, q, now, out), n)
<1> DEFINE H == Places(cs, ts, q, now, out)
           G == Places(ds, ts, q, now, out)
<1>1. ASSUME NEW g \in G
      PROVE g \in H \/ DOMAIN g[3] = {}
  <2>1. CASE \E c \in ds : g = <<"capture", c[1], c[2]>>
    <3>1. PICK c \in ds : g = <<"capture", c[1], c[2]>>
      BY <2>1
    <3>2. CASE c \in cs
      BY <3>1, <3>2 DEF Places
    <3>3. CASE c = <<k, <<>>>>
      BY <3>1, <3>3
    <3> QED BY <3>2, <3>3
  <2>2. CASE ~\E c \in ds : g = <<"capture", c[1], c[2]>>
    BY <1>1, <2>2 DEF Places
  <2> QED BY <2>1, <2>2
<1> HIDE DEF H, G
<1>2. Apart(H, n)
  BY DEF H
<1>3. Apart(G, n)
  BY <1>1, <1>2, Fewer
<1> QED BY <1>3 DEF G

\* The same for what is carried, the requests and the playback.
LEMMA DropApart ==
    ASSUME NEW cs, NEW ts, NEW q, NEW now, NEW out, NEW n, NEW us, NEW then,
           Apart(Places(cs, ts, q, now, out), n),
           us \subseteq ts, then \in {now, <<>>}
    PROVE  Apart(Places(cs, us, q, then, out), n)
<1> DEFINE H == Places(cs, ts, q, now, out)
           G == Places(cs, us, q, then, out)
<1>1. ASSUME NEW g \in G
      PROVE g \in H \/ DOMAIN g[3] = {}
  <2>1. CASE g = <<"playing", 0, then>>
    <3>1. CASE then = now
      BY <2>1, <3>1 DEF Places
    <3>2. CASE then = <<>>
      BY <2>1, <3>2
    <3> QED BY <3>1, <3>2
  <2>2. CASE g # <<"playing", 0, then>>
    BY <1>1, <2>2 DEF Places
  <2> QED BY <2>1, <2>2
<1> HIDE DEF H, G
<1>2. Apart(H, n)
  BY DEF H
<1>3. Apart(G, n)
  BY <1>1, <1>2, Fewer
<1> QED BY <1>3 DEF G

-----------------------------------------------------------------------------
(* The echo bridge: the invariant and its steps                            *)

\* A frame of a radio's call.
Frames == Speech \X (Nat \ {0})

\* The captures: one for a call, of MaxFrames frames at most.
CapturesWell(cs) ==
    /\ \A c \in cs : c[1] \in Speech /\ c = <<c[1], c[2]>> /\ c[2] \in Seq(Frames) /\ Len(c[2]) <= EchoFrames
    /\ \A c, d \in cs : c[1] = d[1] => c = d

\* What the playback goroutine holds, and its call on the talkgroup.
PlayerWell(p, air1) ==
    /\ p \in [at : {"select", "delay", "playing", "done"}, frames : Seq(Frames)]
    /\ p.at \in {"select", "done"} => p.frames = <<>>
    /\ air1 \in {"none", "tx", "idle", "released"}
    /\ p.at = "delay" => air1 = "none"
    /\ p.at \in {"select", "done"} => air1 \in {"none", "released"}

\* The invariant.
EchoInv ==
    /\ CapturesWell(captures)
    /\ sleeping \subseteq Speech \X (1..EchoEvents)
    /\ Kept(Speech, captures, carrying, playbackQ, player.frames, played)
    /\ Len(playbackQ) <= EchoQueue
    /\ PlayerWell(player, onAir)
    /\ events \in 0..EchoEvents
    /\ Apart(Places(captures, carrying, playbackQ, player.frames, played), events)

\* What the module calls EchoSound follows.
LEMMA EchoInvSound ==
    ASSUME EchoInv, Ech!EchoConstants
    PROVE  EchoSound
<1>1. Ech!EchoOnce
  <2>1. Ech!Held = Places(captures, carrying, playbackQ, player.frames, played)
    BY DEF Ech!Held, Places
  <2>2. Once(Ech!Held)
    BY <2>1 DEF EchoInv, Apart
  <2> QED BY <2>2 DEF Ech!EchoOnce, Once
<1>2. Ech!TGReleased
  BY DEF EchoInv, PlayerWell, Ech!TGReleased
<1>3. played \in Seq(Ech!Frame)
  <2> DEFINE h == <<"played", 0, played>>
  <2>1. h \in Places(captures, carrying, playbackQ, player.frames, played) /\ h[3] = played
    BY DEF Places
  <2>2. \A i \in DOMAIN played : played[i][2] <= events
    BY <2>1 DEF EchoInv, Apart, Numbered
  <2>3. played \in Seq(Frames) /\ events \in 0..EchoEvents
    BY DEF EchoInv, Kept, Frames
  <2>4. ASSUME NEW i \in 1..Len(played)
        PROVE played[i] \in Ech!Frame
    <3>1. played[i] \in Frames /\ played[i][2] <= events
      BY <2>2, <2>3
    <3> QED BY <2>3, <3>1 DEF Frames, Ech!Frame, Ech!EchoConstants
  <2>5. played = [i \in 1..Len(played) |-> played[i]] /\ Len(played) \in Nat
    BY <2>3
  <2> QED BY <2>4, <2>5, IsASeq
<1>4. Ech!TypeOK
  BY <1>3 DEF EchoInv, CapturesWell, PlayerWell, Ech!TypeOK
<1> QED BY <1>1, <1>2, <1>4 DEF EchoSound, Ech!EchoSound

LEMMA EchoInit ==
    ASSUME Ech!EchoConstants, Ech!Init
    PROVE  EchoInv
<1>1. captures = {} /\ sleeping = {} /\ carrying = {} /\ playbackQ = <<>> /\ played = <<>>
  BY DEF Ech!Init
<1>2. player = [at |-> "select", frames |-> <<>>] /\ onAir = "none" /\ events = 0
  BY DEF Ech!Init, Ech!Resting
<1>3. CapturesWell(captures) /\ sleeping \subseteq Speech \X (1..EchoEvents)
  BY <1>1 DEF CapturesWell
<1>4. <<>> \in Seq(Frames) /\ <<>> \in Seq(Seq(Frames)) /\ Len(<<>>) = 0
  OBVIOUS
<1>5. Kept(Speech, captures, carrying, playbackQ, player.frames, played)
  BY <1>1, <1>2, <1>4 DEF Kept, Frames
<1>6. PlayerWell(player, onAir)
  BY <1>2, <1>4 DEF PlayerWell
<1>7. Apart(Places(captures, carrying, playbackQ, player.frames, played), events)
  <2>1. \A h \in Places({}, {}, <<>>, <<>>, <<>>) : DOMAIN h[3] = {}
    BY DEF Places
  <2> QED BY <1>1, <1>2, <2>1 DEF Apart, Once, Numbered
<1> QED BY <1>1, <1>2, <1>3, <1>4, <1>5, <1>6, <1>7 DEF EchoInv, Ech!EchoConstants

\* A transmission begins, or its first frame comes: there is one capture of its
\* call, which may be new.
LEMMA EnsureCapture ==
    ASSUME EchoInv, Ech!EchoConstants, NEW k \in Speech
    PROVE  /\ CapturesWell(Ech!EnsureCapture(k))
           /\ Kept(Speech, Ech!EnsureCapture(k), carrying, playbackQ, player.frames, played)
           /\ Apart(Places(Ech!EnsureCapture(k), carrying, playbackQ, player.frames, played), events)
           /\ \E c \in Ech!EnsureCapture(k) : c[1] = k
<1> DEFINE new == <<k, <<>>>>
           ds == Ech!EnsureCapture(k)
<1>1. \/ ds = captures /\ \E c \in captures : c[1] = k
      \/ ds = captures \cup {new} /\ ~\E c \in captures : c[1] = k
  BY DEF Ech!EnsureCapture
<1>2. new[1] = k /\ new = <<new[1], new[2]>> /\ new[2] \in Seq(Frames) /\ Len(new[2]) = 0
  OBVIOUS
<1>3. CapturesWell(ds)
  <2>1. CapturesWell(captures) /\ EchoFrames \in Nat
    BY DEF EchoInv, Ech!EchoConstants
  <2>2. CASE ds = captures
    BY <2>1, <2>2
  <2>3. CASE ds = captures \cup {new} /\ ~\E c \in captures : c[1] = k
    <3> HIDE DEF new
    <3>1. \A d \in ds : d = new \/ (d \in captures /\ d[1] # k)
      BY <2>3
    <3>2. Len(new[2]) <= EchoFrames
      BY <1>2, <2>1
    <3> HIDE DEF ds
    <3> QED BY <1>2, <2>1, <3>1, <3>2 DEF CapturesWell
  <2> QED BY <1>1, <2>2, <2>3
<1>4. \E c \in ds : c[1] = k
  BY <1>1, <1>2
<1>5. ds \subseteq captures \cup {new}
  BY <1>1
<1> HIDE DEF ds
<1>6. Kept(Speech, ds, carrying, playbackQ, player.frames, played)
  BY <1>3 DEF EchoInv, Kept, CapturesWell, Frames
<1>7. Apart(Places(captures, carrying, playbackQ, player.frames, played), events)
  BY DEF EchoInv
<1>8. Apart(Places(ds, carrying, playbackQ, player.frames, played), events)
  BY <1>5, <1>7, EnsureApart
<1> QED BY <1>3, <1>4, <1>6, <1>8 DEF ds

\* OnBrewCallControl: a transmission begins.
LEMMA GroupTXStep ==
    ASSUME EchoInv, Ech!EchoConstants, NEW k \in Speech, Ech!GroupTX(k)
    PROVE  EchoInv'
<1>1. PICK ds : ds = Ech!EnsureCapture(k)
  OBVIOUS
<1>2. /\ CapturesWell(ds)
      /\ Kept(Speech, ds, carrying, playbackQ, player.frames, played)
      /\ Apart(Places(ds, carrying, playbackQ, player.frames, played), events)
  BY <1>1, EnsureCapture
<1>3. /\ captures' = ds /\ events' = events + 1 /\ events < EchoEvents
      /\ UNCHANGED <<sleeping, carrying, playbackQ, player, onAir, played>>
  BY <1>1 DEF Ech!GroupTX, Ech!Event
<1>4. events \in Nat /\ events' \in 0..EchoEvents
  BY <1>3 DEF EchoInv, Ech!EchoConstants
<1>5. Apart(Places(ds, carrying, playbackQ, player.frames, played), events + 1)
  BY <1>2, <1>4, Later
<1> QED BY <1>2, <1>3, <1>4, <1>5 DEF EchoInv

\* OnBrewFrame: a frame comes into the capture of its call, if it has room.
LEMMA FrameStep ==
    ASSUME EchoInv, Ech!EchoConstants, NEW k \in Speech, Ech!OnBrewFrame(k)
    PROVE  EchoInv'
<1>1. PICK ds : ds = Ech!EnsureCapture(k)
  OBVIOUS
<1>2. /\ CapturesWell(ds)
      /\ Kept(Speech, ds, carrying, playbackQ, player.frames, played)
      /\ Apart(Places(ds, carrying, playbackQ, player.frames, played), events)
      /\ \E c \in ds : c[1] = k
  BY <1>1, EnsureCapture
<1>3. /\ captures' = {IF c[1] = k /\ Len(c[2]) < EchoFrames
                      THEN <<k, Append(c[2], <<k, events + 1>>)>> ELSE c : c \in ds}
      /\ events' = events + 1 /\ events < EchoEvents
      /\ UNCHANGED <<sleeping, carrying, playbackQ, player, onAir, played>>
  BY <1>1 DEF Ech!OnBrewFrame, Ech!Event
<1>4. events \in Nat /\ events' \in 0..EchoEvents
  BY <1>3 DEF EchoInv, Ech!EchoConstants
<1>5. PICK c \in ds : c[1] = k
  BY <1>2
<1>6. \A d \in ds : d[1] = k => d = c
  BY <1>2, <1>5 DEF CapturesWell
<1>7. CASE Len(c[2]) < EchoFrames
  <2> DEFINE longer == <<k, Append(c[2], <<k, events + 1>>)>>
             es == (ds \ {c}) \cup {longer}
  <2>1. captures' = es
    BY <1>3, <1>5, <1>6, <1>7
  <2>2. Apart(Places(es, carrying, playbackQ, player.frames, played), events + 1)
    BY <1>2, <1>4, <1>5, FrameApart
  <2>3. /\ longer[1] = k /\ longer = <<longer[1], longer[2]>> /\ longer[2] \in Seq(Frames)
        /\ Len(longer[2]) <= EchoFrames
    <3>1. c[2] \in Seq(Frames) /\ <<k, events + 1>> \in Frames
      BY <1>2, <1>4 DEF CapturesWell, Frames
    <3>2. Len(c[2]) \in Nat /\ EchoFrames \in Nat
      BY <3>1 DEF Ech!EchoConstants
    <3>3. Append(c[2], <<k, events + 1>>) \in Seq(Frames) /\ Len(Append(c[2], <<k, events + 1>>)) = Len(c[2]) + 1
      BY <3>1, AppendProperties
    <3> QED BY <1>7, <3>2, <3>3
  <2> HIDE DEF longer
  <2>4. CapturesWell(es)
    <3>1. \A d \in es : d = longer \/ (d \in ds /\ d[1] # k)
      BY <1>6
    <3> QED BY <1>2, <2>3, <3>1 DEF CapturesWell
  <2> HIDE DEF es
  <2>5. Kept(Speech, es, carrying, playbackQ, player.frames, played)
    BY <1>2, <2>4 DEF Kept, CapturesWell, Frames
  <2> QED BY <1>3, <1>4, <2>1, <2>2, <2>4, <2>5 DEF EchoInv
<1>8. CASE ~(Len(c[2]) < EchoFrames)
  <2>1. captures' = ds
    BY <1>3, <1>6, <1>8
  <2>2. Apart(Places(ds, carrying, playbackQ, player.frames, played), events + 1)
    BY <1>2, <1>4, Later
  <2> QED BY <1>2, <1>3, <1>4, <2>1, <2>2 DEF EchoInv
<1> QED BY <1>7, <1>8

\* finalizeCapture, under the lock: the capture is taken.
LEMMA TakeStep ==
    ASSUME EchoInv, Ech!EchoConstants, NEW s \in sleeping, Ech!TakeCapture(s)
    PROVE  EchoInv'
<1>1. PICK ds : ds = OfCall(captures, s[1])
  OBVIOUS
<1>2. PICK es : es = {d \in ds : d[2] # <<>>}
  OBVIOUS
<1>3. /\ captures' = captures \ ds /\ carrying' = carrying \cup CarriedBy(s, es)
      /\ sleeping' = sleeping \ {s}
      /\ UNCHANGED <<playbackQ, player, onAir, played, events>>
  BY <1>1, <1>2 DEF Ech!TakeCapture, OfCall, CarriedBy
<1>4. CapturesWell(captures')
  BY <1>3 DEF EchoInv, CapturesWell
<1>5. \A c \in es : c[2] \in Seq(Frames)
  BY <1>1, <1>2 DEF EchoInv, CapturesWell, OfCall
<1>6. \A t \in carrying' : t[2] \in Seq(Frames) /\ t = <<t[1], t[2]>>
  <2>1. ASSUME NEW t \in carrying
        PROVE t[2] \in Seq(Frames) /\ t = <<t[1], t[2]>>
    BY DEF EchoInv, Kept, Frames
  <2>2. ASSUME NEW c \in es, NEW t, t = <<s, c[2]>>
        PROVE t[2] \in Seq(Frames) /\ t = <<t[1], t[2]>>
    BY <1>5, <2>2
  <2> QED BY <1>3, <2>1, <2>2 DEF CarriedBy
<1>7. Kept(Speech, captures', carrying', playbackQ, player.frames, played)
  BY <1>4, <1>6 DEF EchoInv, Kept, CapturesWell, Frames
<1>8. Apart(Places(captures', carrying', playbackQ, player.frames, played), events)
  <2>1. /\ Kept(Speech, captures, carrying, playbackQ, player.frames, played)
        /\ Apart(Places(captures, carrying, playbackQ, player.frames, played), events)
        /\ events \in Nat
    BY DEF EchoInv
  <2>2. es \subseteq OfCall(captures, s[1])
    BY <1>1, <1>2
  <2>3. Apart(Places(captures \ OfCall(captures, s[1]), carrying \cup CarriedBy(s, es), playbackQ,
                     player.frames, played), events)
    BY <2>1, <2>2, TakeApart
  <2> QED BY <1>1, <1>3, <2>3
<1> QED BY <1>3, <1>4, <1>7, <1>8 DEF EchoInv

\* The rest of finalizeCapture: it is queued, or dropped.
LEMMA QueueStep ==
    ASSUME EchoInv, Ech!EchoConstants, NEW t \in carrying, Ech!QueueCapture(t)
    PROVE  EchoInv'
<1>1. /\ carrying' = carrying \ {t}
      /\ playbackQ' = IF Len(playbackQ) < EchoQueue THEN Append(playbackQ, t[2]) ELSE playbackQ
      /\ UNCHANGED <<captures, sleeping, player, onAir, played, events>>
  BY DEF Ech!QueueCapture
<1>2. /\ Kept(Speech, captures, carrying, playbackQ, player.frames, played)
      /\ Apart(Places(captures, carrying, playbackQ, player.frames, played), events)
      /\ events \in Nat
  BY DEF EchoInv
<1>3. playbackQ \in Seq(Seq(Frames)) /\ t[2] \in Seq(Frames) /\ Len(playbackQ) \in Nat /\ EchoQueue \in Nat
  BY <1>2 DEF Kept, Frames, Ech!EchoConstants
<1>4. playbackQ' \in Seq(Seq(Frames)) /\ Len(playbackQ') <= EchoQueue
  BY <1>1, <1>3, AppendProperties DEF EchoInv
<1>5. Kept(Speech, captures, carrying', playbackQ', player.frames, played)
  BY <1>1, <1>2, <1>4 DEF Kept, Frames
<1>6. Apart(Places(captures, carrying', playbackQ', player.frames, played), events)
  <2>1. CASE Len(playbackQ) < EchoQueue
    <3>1. Apart(Places(captures, carrying \ {t}, Append(playbackQ, t[2]), player.frames, played), events)
      BY <1>2, QueueApart
    <3> QED BY <1>1, <2>1, <3>1
  <2>2. CASE ~(Len(playbackQ) < EchoQueue)
    <3>1. carrying' \subseteq carrying /\ player.frames \in {player.frames, <<>>}
      BY <1>1
    <3>2. Apart(Places(captures, carrying', playbackQ, player.frames, played), events)
      BY <1>2, <3>1, DropApart
    <3> QED BY <1>1, <2>2, <3>2
  <2> QED BY <2>1, <2>2
<1> QED BY <1>1, <1>4, <1>5, <1>6 DEF EchoInv

\* playbackLoop takes a request.
LEMMA DequeueStep ==
    ASSUME EchoInv, Ech!EchoConstants, Ech!Dequeue
    PROVE  EchoInv'
<1>1. /\ player.at = "select" /\ playbackQ # <<>>
      /\ player' = [at |-> "delay", frames |-> Head(playbackQ)]
      /\ playbackQ' = Tail(playbackQ) /\ onAir' = "none"
      /\ UNCHANGED <<captures, sleeping, carrying, played, events>>
  BY DEF Ech!Dequeue
<1>2. player.frames = <<>>
  BY <1>1 DEF EchoInv, PlayerWell
<1>3. /\ Kept(Speech, captures, carrying, playbackQ, <<>>, played)
      /\ Apart(Places(captures, carrying, playbackQ, <<>>, played), events)
      /\ events \in Nat
  BY <1>2 DEF EchoInv
<1>4. playbackQ \in Seq(Seq(Frames))
  BY <1>3 DEF Kept, Frames
<1>5. Tail(playbackQ) \in Seq(Seq(Frames)) /\ Head(playbackQ) \in Seq(Frames) /\ Len(Tail(playbackQ)) = Len(playbackQ) - 1
  BY <1>1, <1>4, Shifted
<1>6. Len(playbackQ') <= EchoQueue
  BY <1>1, <1>4, <1>5 DEF EchoInv, Ech!EchoConstants
<1>7. player'.frames = Head(playbackQ) /\ PlayerWell(player', onAir')
  BY <1>1, <1>5 DEF PlayerWell
<1>8. Kept(Speech, captures, carrying, Tail(playbackQ), Head(playbackQ), played)
  BY <1>3, <1>5 DEF Kept, Frames
<1>9. Apart(Places(captures, carrying, Tail(playbackQ), Head(playbackQ), played), events)
  BY <1>1, <1>3, DequeueApart
<1> QED BY <1>1, <1>6, <1>7, <1>8, <1>9 DEF EchoInv

\* A frame of the playback goes out.
LEMMA PlayStep ==
    ASSUME EchoInv, Ech!EchoConstants, Ech!Play
    PROVE  EchoInv'
<1>1. /\ player.at = "playing" /\ player.frames # <<>>
      /\ played' = Append(played, Head(player.frames))
      /\ player' = [player EXCEPT !.frames = Tail(player.frames)]
      /\ UNCHANGED <<captures, sleeping, carrying, playbackQ, onAir, events>>
  BY DEF Ech!Play
<1>2. /\ Kept(Speech, captures, carrying, playbackQ, player.frames, played)
      /\ Apart(Places(captures, carrying, playbackQ, player.frames, played), events)
      /\ events \in Nat
  BY DEF EchoInv
<1>3. player.frames \in Seq(Frames) /\ played \in Seq(Frames)
  BY <1>2 DEF Kept, Frames
<1>4. Tail(player.frames) \in Seq(Frames) /\ Head(player.frames) \in Frames
  BY <1>1, <1>3, Shifted
<1>5. played' \in Seq(Frames)
  BY <1>1, <1>3, <1>4, AppendProperties
<1>6. player'.frames = Tail(player.frames) /\ PlayerWell(player', onAir')
  BY <1>1, <1>4 DEF EchoInv, PlayerWell
<1>7. Kept(Speech, captures, carrying, playbackQ, Tail(player.frames), played')
  BY <1>2, <1>4, <1>5 DEF Kept, Frames
<1>8. Apart(Places(captures, carrying, playbackQ, Tail(player.frames), Append(played, Head(player.frames))), events)
  BY <1>1, <1>2, PlayApart
<1> QED BY <1>1, <1>6, <1>7, <1>8 DEF EchoInv

\* The playback goroutine rests, begins or hangs up: what it holds stays or goes.
LEMMA RestStep ==
    ASSUME EchoInv, PlayerWell(player', onAir'), player'.frames \in {player.frames, <<>>},
           UNCHANGED <<captures, sleeping, carrying, playbackQ, played, events>>
    PROVE  EchoInv'
<1>1. /\ Kept(Speech, captures, carrying, playbackQ, player.frames, played)
      /\ Apart(Places(captures, carrying, playbackQ, player.frames, played), events)
  BY DEF EchoInv
<1>2. carrying \subseteq carrying
  OBVIOUS
<1>3. PICK then : then = player'.frames
  OBVIOUS
<1>4. then \in {player.frames, <<>>}
  BY <1>3
<1>5. Apart(Places(captures, carrying, playbackQ, then, played), events)
  BY <1>1, <1>2, <1>4, DropApart
<1>6. then \in Seq(Frames)
  BY <1>3 DEF PlayerWell
<1>7. Kept(Speech, captures, carrying, playbackQ, then, played)
  BY <1>1, <1>6 DEF Kept, Frames
<1> QED BY <1>3, <1>5, <1>7 DEF EchoInv

LEMMA PlayerStep ==
    ASSUME EchoInv, Ech!EchoConstants, Ech!Done \/ Ech!Delay \/ Ech!HangUp
    PROVE  EchoInv'
<1>1. PlayerWell(player, onAir)
  BY DEF EchoInv
<1>2. <<>> \in Seq(Frames)
  OBVIOUS
<1>3. CASE Ech!Done
  <2>1. PlayerWell(player', onAir') /\ player'.frames = player.frames
    BY <1>1, <1>3 DEF Ech!Done, PlayerWell
  <2> QED BY <1>3, <2>1, RestStep DEF Ech!Done
<1>4. CASE Ech!Delay
  <2>1. PlayerWell(player', onAir') /\ player'.frames \in {player.frames, <<>>}
    <3>1. CASE player' = [player EXCEPT !.at = "playing"] /\ onAir' = "tx"
      BY <1>1, <3>1 DEF PlayerWell
    <3>2. CASE player' = [at |-> "select", frames |-> <<>>] /\ onAir' = onAir
      <4>1. onAir = "none"
        BY <1>1, <1>4 DEF Ech!Delay, PlayerWell
      <4> QED BY <1>2, <3>2, <4>1 DEF PlayerWell
    <3> QED BY <1>4, <3>1, <3>2 DEF Ech!Delay, Ech!Resting
  <2> QED BY <1>4, <2>1, RestStep DEF Ech!Delay
<1>5. CASE Ech!HangUp
  <2>1. PlayerWell(player', onAir') /\ player'.frames \in {player.frames, <<>>}
    BY <1>1, <1>2, <1>5 DEF Ech!HangUp, Ech!Resting, PlayerWell
  <2> QED BY <1>5, <2>1, RestStep DEF Ech!HangUp
<1> QED BY <1>3, <1>4, <1>5

\* Every step of the echo bridge keeps the invariant.
LEMMA EchoStep ==
    ASSUME EchoInv, Ech!EchoConstants, [Ech!Next]_(Ech!vars)
    PROVE  EchoInv'
<1>1. ASSUME NEW k \in Speech, Ech!GroupTX(k)
      PROVE EchoInv'
  BY <1>1, GroupTXStep
<1>2. ASSUME NEW k \in Speech, Ech!OnBrewFrame(k)
      PROVE EchoInv'
  BY <1>2, FrameStep
<1>3. ASSUME NEW k \in Speech, Ech!GroupEnd(k)
      PROVE EchoInv'
  <2>1. /\ events' = events + 1 /\ events < EchoEvents
        /\ sleeping' = sleeping \cup {<<k, events + 1>>}
        /\ UNCHANGED <<captures, carrying, playbackQ, player, onAir, played>>
    BY <1>3 DEF Ech!GroupEnd, Ech!Event
  <2>2. events \in Nat /\ events' \in 0..EchoEvents /\ events + 1 \in 1..EchoEvents
    BY <2>1 DEF EchoInv, Ech!EchoConstants
  <2>3. /\ Kept(Speech, captures, carrying, playbackQ, player.frames, played)
        /\ Apart(Places(captures, carrying, playbackQ, player.frames, played), events)
    BY DEF EchoInv
  <2>4. Apart(Places(captures, carrying, playbackQ, player.frames, played), events + 1)
    BY <2>2, <2>3, Later
  <2>5. sleeping' \subseteq Speech \X (1..EchoEvents)
    BY <2>1, <2>2 DEF EchoInv
  <2> QED BY <2>1, <2>2, <2>3, <2>4, <2>5 DEF EchoInv
<1>4. ASSUME NEW s \in sleeping, Ech!TakeCapture(s)
      PROVE EchoInv'
  BY <1>4, TakeStep
<1>5. ASSUME NEW t \in carrying, Ech!QueueCapture(t)
      PROVE EchoInv'
  BY <1>5, QueueStep
<1>6. CASE Ech!Dequeue
  BY <1>6, DequeueStep
<1>7. CASE Ech!Play
  BY <1>7, PlayStep
<1>8. CASE Ech!Done \/ Ech!Delay \/ Ech!HangUp
  BY <1>8, PlayerStep
<1>9. CASE Ech!Stop \/ UNCHANGED Ech!vars
  <2>1. UNCHANGED <<captures, sleeping, carrying, playbackQ, player, onAir, played, events>>
    BY <1>9 DEF Ech!Stop, Ech!vars
  <2> QED BY <2>1 DEF EchoInv
<1> QED BY <1>1, <1>2, <1>3, <1>4, <1>5, <1>6, <1>7, <1>8, <1>9 DEF Ech!Next, Ech!Player

\* A frame is recorded, carried, queued and played back once, however the goroutines
\* of a pause and of a release, the speaker and the playback fall, and the talkgroup
\* is released between two playbacks.
THEOREM EchoAlwaysSound ==
    ASSUME Ech!EchoConstants
    PROVE  Ech!Spec => []EchoSound
<1>1. Ech!Init => EchoInv
  BY EchoInit
<1>2. EchoInv /\ [Ech!Next]_(Ech!vars) => EchoInv'
  BY EchoStep
<1>3. EchoInv => EchoSound
  BY EchoInvSound
<1> QED BY <1>1, <1>2, <1>3, PTL DEF Ech!Spec

-----------------------------------------------------------------------------
(* The Zello bridge: the session                                           *)

\* The loop: there is a client while there is a session, and what cleanupSession
\* has taken out is gone when it is over.
LoopInv ==
    /\ zat \in {"connect", "session", "cleanup", "wait", "done"}
    /\ logons \in Nat
    /\ alive \subseteq 1..logons
    /\ zat = "session" => client = logons /\ logons # 0
    /\ zat # "session" => client = 0
    /\ zat # "cleanup" => leaving = [calls |-> {}, streams |-> {}]

\* What the loop's variables say of the rest does not change with the rest.
LEMMA LoopKept ==
    ASSUME LoopInv, UNCHANGED Zel!loopVars
    PROVE  LoopInv'
BY DEF LoopInv, Zel!loopVars

LEMMA LoopStep ==
    ASSUME LoopInv, [Zel!Next]_(Zel!vars)
    PROVE  LoopInv'
<1>1. CASE Zel!Connect
  <2>1. zat = "connect" /\ client = 0 /\ leaving' = leaving /\ leaving = [calls |-> {}, streams |-> {}]
    BY <1>1 DEF Zel!Connect, LoopInv
  <2>2. CASE zat' = "session" /\ logons' = logons + 1 /\ client' = logons' /\ alive' = {logons'}
    <3>1. logons' \in Nat /\ logons' # 0 /\ logons' \in 1..logons'
      BY <2>2 DEF LoopInv
    <3> QED BY <2>1, <2>2, <3>1 DEF LoopInv
  <2>3. CASE zat' = "wait" /\ UNCHANGED <<logons, client, alive>>
    BY <2>1, <2>3 DEF LoopInv
  <2> QED BY <1>1, <2>2, <2>3 DEF Zel!Connect
<1>2. CASE Zel!EndSession
  BY <1>2 DEF Zel!EndSession, LoopInv
<1>3. CASE Zel!Cleanup
  BY <1>3 DEF Zel!Cleanup, LoopInv, Zel!Nothing
<1>4. CASE Zel!WaitReconnect \/ Zel!Return
  BY <1>4 DEF Zel!WaitReconnect, Zel!Return, LoopInv
<1>5. CASE Zel!Break
  BY <1>5 DEF Zel!Break, LoopInv
<1>6. CASE Zel!Stop
  BY <1>6 DEF Zel!Stop, LoopInv
<1>7. CASE \/ Zel!OnEvent \/ Zel!OnAudio \/ Zel!ZelloStart \/ Zel!ZelloAudio \/ Zel!ZelloStop
           \/ Zel!Attach \/ Zel!SendBinary
  BY <1>7, LoopKept
     DEF Zel!OnEvent, Zel!OnAudio, Zel!ZelloStart, Zel!ZelloAudio, Zel!ZelloStop, Zel!Attach, Zel!SendBinary
<1>8. CASE \/ Zel!OnBrew \/ Zel!Ensure \/ Zel!StartStream \/ Zel!Started \/ Zel!Feed
           \/ Zel!StopStream \/ Zel!DeleteCall
  BY <1>8, LoopKept
     DEF Zel!OnBrew, Zel!Ensure, Zel!StartStream, Zel!Started, Zel!Feed, Zel!StopStream, Zel!DeleteCall
<1>9. ASSUME NEW c \in Spoken, Zel!TakePacket(c) \/ Zel!Key(c) \/ Zel!Speak(c) \/ Zel!Unkey(c)
      PROVE LoopInv'
  BY <1>9, LoopKept DEF Zel!TakePacket, Zel!Key, Zel!Speak, Zel!Unkey
<1>10. CASE UNCHANGED Zel!vars
  BY <1>10, LoopKept DEF Zel!vars, Zel!loopVars
<1> QED BY <1>1, <1>2, <1>3, <1>4, <1>5, <1>6, <1>7, <1>8, <1>9, <1>10 DEF Zel!Next

-----------------------------------------------------------------------------
(* The Zello bridge: from Zello to the radios                              *)

\* The events of a client: a stream starts once, and not before its start is read.
EventsWell(es, streamsIn, n) ==
    /\ es \in Seq({"start", "stop"} \X (1..n))
    /\ \A i \in DOMAIN es : es[i][1] = "start" =>
          /\ es[i][2] \notin streamsIn
          /\ \A j \in DOMAIN es : es[j] = es[i] => j = i

\* Calls the bridge has open on the talkgroup belong to streams it follows.
InInv ==
    /\ talks \in Nat
    /\ talker \in 0..talks
    /\ DOMAIN inbound \subseteq 1..talks
    /\ \A n \in DOMAIN inbound : inbound[n] \in BOOLEAN
    /\ injected \subseteq 1..talks
    /\ zat # "session" => DOMAIN inbound = {}
    /\ EventsWell(general, DOMAIN inbound, talks)
    /\ Zel!CallsBacked

\* Of the loop's variables only at and leaving matter.
inboundVars == <<zat, leaving, talker, talks, general, inbound, injected>>
LEMMA InKept ==
    ASSUME InInv, UNCHANGED inboundVars
    PROVE  InInv'
BY DEF InInv, inboundVars, EventsWell, Zel!CallsBacked

\* An event that was read: what is left of the queue.
LEMMA EventsTail ==
    ASSUME NEW es, NEW ins, NEW n \in Nat, EventsWell(es, ins, n), es # <<>>, NEW more,
           \A k \in more : k \in ins \/ (Head(es)[1] = "start" /\ k = Head(es)[2])
    PROVE  /\ EventsWell(Tail(es), more, n)
           /\ Head(es)[1] \in {"start", "stop"} /\ Head(es)[2] \in 1..n
           /\ Head(es)[1] = "start" => Head(es)[2] \notin ins
<1> DEFINE E == {"start", "stop"} \X (1..n)
           rest == Tail(es)
<1>1. es \in Seq(E)
  BY DEF EventsWell
<1> HIDE DEF E
<1>2. /\ rest \in Seq(E) /\ Head(es) \in E /\ Head(es) = es[1] /\ 1 \in DOMAIN es
      /\ \A i \in DOMAIN rest : i \in Nat /\ i + 1 \in DOMAIN es /\ i + 1 # 1 /\ rest[i] = es[i + 1]
  BY <1>1, Shifted
<1> HIDE DEF rest
<1>3. ASSUME NEW i \in DOMAIN rest, rest[i][1] = "start"
      PROVE rest[i][2] \notin more /\ \A j \in DOMAIN rest : rest[j] = rest[i] => j = i
  <2>1. i \in Nat /\ i + 1 \in DOMAIN es /\ i + 1 # 1 /\ rest[i] = es[i + 1]
    BY <1>2
  <2>2. es[i + 1][2] \notin ins /\ \A j \in DOMAIN es : es[j] = es[i + 1] => j = i + 1
    BY <1>3, <2>1 DEF EventsWell
  <2>3. es[1] # es[i + 1]
    BY <1>2, <2>1, <2>2
  <2>4. es[1] \in E /\ es[i + 1] \in E
    BY <1>1, <1>2, <2>1
  <2>5. es[1] = <<es[1][1], es[1][2]>> /\ es[i + 1] = <<es[i + 1][1], es[i + 1][2]>>
    BY <2>4 DEF E
  <2>6. rest[i][2] \notin more
    BY <1>2, <1>3, <2>1, <2>2, <2>3, <2>5
  <2>7. ASSUME NEW j \in DOMAIN rest, rest[j] = rest[i]
        PROVE j = i
    <3>1. j \in Nat /\ j + 1 \in DOMAIN es /\ rest[j] = es[j + 1]
      BY <1>2
    <3>2. j + 1 = i + 1
      BY <2>1, <2>2, <2>7, <3>1
    <3> QED BY <2>1, <3>1, <3>2
  <2> QED BY <2>6, <2>7
<1>4. Head(es)[1] \in {"start", "stop"} /\ Head(es)[2] \in 1..n
  BY <1>2 DEF E
<1>5. Head(es)[1] = "start" => Head(es)[2] \notin ins
  BY <1>2 DEF EventsWell
<1> QED BY <1>2, <1>3, <1>4, <1>5 DEF EventsWell, E, rest

\* Events that are added: a start of a stream that is new, or a stop.
LEMMA EventsMore ==
    ASSUME NEW es, NEW ins, NEW n \in Nat, NEW o \in Nat, n <= o, EventsWell(es, ins, n), ins \subseteq 1..n,
           NEW e, \/ e = <<"start", o>> /\ n < o
                  \/ e[1] = "stop" /\ e \in {"stop"} \X (1..o)
    PROVE  EventsWell(Append(es, e), ins, o)
<1> DEFINE E == {"start", "stop"} \X (1..n)
           F == {"start", "stop"} \X (1..o)
           all == Append(es, e)
           last == Len(es) + 1
<1>1. es \in Seq(E)
  BY DEF EventsWell
<1>2. E \subseteq F /\ e \in F /\ \A x \in E : x[2] \in 1..n
  OBVIOUS
<1>3. \A i \in DOMAIN es : es[i] \in E
  BY <1>1
<1>4. es \in Seq(F)
  <2>1. es = [i \in 1..Len(es) |-> es[i]] /\ Len(es) \in Nat
    BY <1>1
  <2>2. \A i \in 1..Len(es) : es[i] \in F
    BY <1>2, <1>3, <2>1
  <2> HIDE DEF F
  <2> QED BY <2>1, <2>2, IsASeq
<1> HIDE DEF E, F
<1>5. /\ all \in Seq(F) /\ all[last] = e /\ last \notin DOMAIN es
      /\ \A i \in DOMAIN all : i = last \/ (i \in DOMAIN es /\ all[i] = es[i])
  BY <1>2, <1>4, AppendProperties
<1> HIDE DEF all, last
<1>6. ASSUME NEW i \in DOMAIN all, all[i][1] = "start"
      PROVE all[i][2] \notin ins /\ \A j \in DOMAIN all : all[j] = all[i] => j = i
  <2>1. CASE i = last
    <3>1. e = <<"start", o>> /\ n < o
      BY <1>5, <1>6, <2>1
    <3>2. o \notin ins
      BY <3>1
    <3>3. \A j \in DOMAIN es : es[j] # e
      BY <1>2, <1>3, <3>1
    <3> QED BY <1>5, <2>1, <3>1, <3>2, <3>3
  <2>2. CASE i # last
    <3>1. i \in DOMAIN es /\ all[i] = es[i]
      BY <1>5, <2>2
    <3>2. es[i][2] \notin ins /\ \A j \in DOMAIN es : es[j] = es[i] => j = i
      BY <1>6, <3>1 DEF EventsWell
    <3>3. e # es[i]
      <4>1. es[i][2] \in 1..n /\ es[i][1] = "start"
        BY <1>2, <1>3, <1>6, <3>1
      <4> QED BY <4>1
    <3> QED BY <1>5, <3>1, <3>2, <3>3
  <2> QED BY <2>1, <2>2
<1> QED BY <1>5, <1>6 DEF EventsWell, all, F

\* An event is read: a stream is followed, or it is over and its call released.
LEMMA OnEventStep ==
    ASSUME InInv, LoopInv, Zel!OnEvent
    PROVE  InInv'
<1> DEFINE n == Head(general)[2]
<1>1. /\ zat = "session" /\ general # <<>> /\ general' = Tail(general)
      /\ UNCHANGED <<zat, leaving, talker, talks>>
  BY DEF Zel!OnEvent, Zel!loopVars
<1>2. /\ talks \in Nat /\ talker \in 0..talks /\ DOMAIN inbound \subseteq 1..talks
      /\ \A k \in DOMAIN inbound : inbound[k] \in BOOLEAN
      /\ injected \subseteq 1..talks /\ EventsWell(general, DOMAIN inbound, talks)
      /\ \A k \in injected : k \in DOMAIN inbound /\ inbound[k]
  BY <1>1 DEF InInv, LoopInv, Zel!CallsBacked
<1>3. /\ Head(general)[1] \in {"start", "stop"} /\ n \in 1..talks
      /\ Head(general)[1] = "start" => n \notin DOMAIN inbound
  BY <1>1, <1>2, EventsTail
<1> HIDE DEF n
<1>4. CASE Head(general)[1] = "start"
  <2>1. inbound' = [x \in DOMAIN inbound \cup {n} |-> IF x = n THEN FALSE ELSE inbound[x]] /\ injected' = injected
    BY <1>4 DEF Zel!OnEvent, Zel!Put, n
  <2>2. /\ DOMAIN inbound' = DOMAIN inbound \cup {n}
        /\ \A x \in DOMAIN inbound : inbound'[x] = inbound[x]
        /\ inbound'[n] = FALSE
    BY <1>3, <1>4, <2>1
  <2>3. DOMAIN inbound' \subseteq 1..talks /\ \A k \in DOMAIN inbound' : inbound'[k] \in BOOLEAN
    BY <1>2, <1>3, <2>2
  <2>4. EventsWell(general', DOMAIN inbound', talks)
    <3>1. \A k \in DOMAIN inbound' : k \in DOMAIN inbound \/ (Head(general)[1] = "start" /\ k = Head(general)[2])
      BY <1>4, <2>2 DEF n
    <3>2. PICK ins : ins = DOMAIN inbound'
      OBVIOUS
    <3>3. EventsWell(Tail(general), ins, talks)
      BY <1>1, <1>2, <3>1, <3>2, EventsTail
    <3> QED BY <1>1, <3>2, <3>3
  <2>5. Zel!CallsBacked'
    BY <1>2, <2>1, <2>2 DEF Zel!CallsBacked
  <2> QED BY <1>1, <1>2, <2>1, <2>3, <2>4, <2>5 DEF InInv
<1>5. CASE Head(general)[1] = "stop"
  <2>1. /\ inbound' = [x \in DOMAIN inbound \ {n} |-> inbound[x]]
        /\ injected' = IF n \in DOMAIN inbound /\ inbound[n] THEN injected \ {n} ELSE injected
    BY <1>5 DEF Zel!OnEvent, Zel!Without, n
  <2>2. /\ DOMAIN inbound' = DOMAIN inbound \ {n}
        /\ \A x \in DOMAIN inbound : x # n => inbound'[x] = inbound[x]
    BY <2>1
  <2>3. DOMAIN inbound' \subseteq 1..talks /\ \A k \in DOMAIN inbound' : inbound'[k] \in BOOLEAN
    BY <1>2, <2>2
  <2>4. EventsWell(general', DOMAIN inbound', talks)
    <3>1. \A k \in DOMAIN inbound' : k \in DOMAIN inbound \/ (Head(general)[1] = "start" /\ k = Head(general)[2])
      BY <2>2
    <3>2. PICK ins : ins = DOMAIN inbound'
      OBVIOUS
    <3>3. EventsWell(Tail(general), ins, talks)
      BY <1>1, <1>2, <3>1, <3>2, EventsTail
    <3> QED BY <1>1, <3>2, <3>3
  <2>5. injected' \subseteq injected /\ n \notin injected'
    BY <1>2, <2>1
  <2>6. Zel!CallsBacked'
    BY <1>2, <2>2, <2>5 DEF Zel!CallsBacked
  <2> QED BY <1>1, <1>2, <2>3, <2>4, <2>5, <2>6 DEF InInv
<1> QED BY <1>3, <1>4, <1>5

\* Audio is read: its stream's call may begin.
LEMMA OnAudioStep ==
    ASSUME InInv, LoopInv, Zel!OnAudio
    PROVE  InInv'
<1> DEFINE n == Head(binary)
<1>1. zat = "session" /\ UNCHANGED <<zat, leaving, talker, talks, general>>
  BY DEF Zel!OnAudio, Zel!loopVars
<1>2. CASE UNCHANGED <<inbound, injected>>
  BY <1>1, <1>2, InKept DEF inboundVars
<1>3. CASE /\ n \in DOMAIN inbound
           /\ injected' = injected \cup {n}
           /\ inbound' = [x \in DOMAIN inbound \cup {n} |-> IF x = n THEN TRUE ELSE inbound[x]]
  <2> HIDE DEF n
  <2>1. /\ DOMAIN inbound' = DOMAIN inbound
        /\ \A x \in DOMAIN inbound : inbound'[x] = IF x = n THEN TRUE ELSE inbound[x]
    BY <1>3
  <2>2. /\ \A x \in DOMAIN inbound' : inbound'[x] \in BOOLEAN
        /\ injected' \subseteq 1..talks
    BY <1>3, <2>1 DEF InInv
  <2>3. EventsWell(general', DOMAIN inbound', talks')
    BY <1>1, <2>1 DEF InInv
  <2>4. Zel!CallsBacked'
    BY <1>1, <1>3, <2>1 DEF InInv, Zel!CallsBacked
  <2> QED BY <1>1, <2>1, <2>2, <2>3, <2>4 DEF InInv
<1> QED BY <1>2, <1>3 DEF Zel!OnAudio, Zel!StartsCall, Zel!Put

\* Every step of the bridge.
LEMMA InStep ==
    ASSUME InInv, LoopInv, [Zel!Next]_(Zel!vars)
    PROVE  InInv'
<1>1. CASE Zel!Connect \/ Zel!WaitReconnect \/ Zel!Return
  <2>1. zat # "session" /\ leaving' = leaving /\ leaving.calls = {} /\ DOMAIN inbound = {}
    BY <1>1 DEF Zel!Connect, Zel!WaitReconnect, Zel!Return, InInv, LoopInv
  <2>2. injected = {}
    BY <2>1 DEF InInv, Zel!CallsBacked
  <2>3. injected' = {} /\ DOMAIN inbound' = {} /\ UNCHANGED <<talker, talks, general>>
    <3>1. CASE Zel!Connect \/ Zel!WaitReconnect
      BY <2>1, <2>2, <3>1 DEF Zel!Connect, Zel!WaitReconnect, Zel!inVars, Zel!zelloVars
    <3>2. CASE Zel!Return
      BY <2>1, <2>2, <3>2 DEF Zel!Return, Zel!zelloVars
    <3> QED BY <1>1, <3>1, <3>2
  <2>4. EventsWell(general', DOMAIN inbound', talks')
    BY <2>1, <2>3 DEF InInv
  <2> QED BY <2>3, <2>4 DEF InInv, Zel!CallsBacked
<1>2. CASE Zel!Stop
  BY <1>2, InKept DEF Zel!Stop, inboundVars, Zel!inVars, Zel!zelloVars
<1>3. CASE Zel!EndSession
  <2>1. /\ zat = "session" /\ zat' = "cleanup" /\ DOMAIN inbound' = {}
        /\ UNCHANGED <<injected, talker, talks, general>>
        /\ leaving'.calls = {n \in DOMAIN inbound : inbound[n]}
    BY <1>3 DEF Zel!EndSession, Zel!zelloVars
  <2>2. leaving.calls = {}
    BY <2>1 DEF LoopInv
  <2>3. Zel!CallsBacked'
    BY <2>1, <2>2 DEF InInv, Zel!CallsBacked
  <2>4. EventsWell(general', DOMAIN inbound', talks')
    BY <2>1 DEF InInv, EventsWell
  <2> QED BY <2>1, <2>3, <2>4 DEF InInv
<1>4. CASE Zel!Cleanup
  <2>1. /\ zat = "cleanup" /\ injected' = injected \ leaving.calls /\ talker' = 0 /\ general' = <<>>
        /\ UNCHANGED <<talks, inbound>>
    BY <1>4 DEF Zel!Cleanup
  <2>2. injected' = {} /\ DOMAIN inbound = {}
    BY <2>1 DEF InInv, Zel!CallsBacked
  <2>3. EventsWell(general', DOMAIN inbound', talks')
    BY <2>1 DEF EventsWell
  <2>4. talks' \in Nat /\ talker' \in 0..talks'
    BY <2>1 DEF InInv
  <2>5. DOMAIN inbound' = {}
    BY <2>1, <2>2
  <2>6. injected' \subseteq 1..talks'
    BY <2>2
  <2> QED BY <2>2, <2>3, <2>4, <2>5, <2>6 DEF InInv, Zel!CallsBacked
<1>5. CASE Zel!ZelloStart
  <2>1. /\ talks' = talks + 1 /\ talker' = talks' /\ general' = Append(general, <<"start", talks'>>)
        /\ UNCHANGED <<zat, leaving, inbound, injected>>
    BY <1>5 DEF Zel!ZelloStart, Zel!loopVars, Zel!inVars
  <2>2. talks' \in Nat /\ talks <= talks' /\ talks < talks' /\ talker' \in 0..talks' /\ 1..talks \subseteq 1..talks'
    BY <2>1 DEF InInv
  <2>3. EventsWell(Append(general, <<"start", talks'>>), DOMAIN inbound, talks')
    <3>1. PICK o : o = talks'
      OBVIOUS
    <3>2. EventsWell(Append(general, <<"start", o>>), DOMAIN inbound, o)
      <4>1. o \in Nat /\ talks <= o /\ talks < o
        BY <2>2, <3>1
      <4>2. talks \in Nat /\ DOMAIN inbound \subseteq 1..talks /\ EventsWell(general, DOMAIN inbound, talks)
        BY DEF InInv
      <4> QED BY <4>1, <4>2, EventsMore
    <3> QED BY <3>1, <3>2
  <2> QED BY <2>1, <2>2, <2>3 DEF InInv, Zel!CallsBacked
<1>6. CASE Zel!ZelloStop
  <2>1. /\ talker # 0 /\ talker' = 0 /\ general' = Append(general, <<"stop", talker>>)
        /\ UNCHANGED <<zat, leaving, talks, inbound, injected>>
    BY <1>6 DEF Zel!ZelloStop, Zel!loopVars, Zel!inVars
  <2>2. <<"stop", talker>> \in {"stop"} \X (1..talks) /\ <<"stop", talker>>[1] = "stop"
    BY <2>1 DEF InInv
  <2>3. EventsWell(Append(general, <<"stop", talker>>), DOMAIN inbound, talks)
    <3>1. talks \in Nat /\ talks <= talks /\ DOMAIN inbound \subseteq 1..talks
          /\ EventsWell(general, DOMAIN inbound, talks)
      BY DEF InInv
    <3> QED BY <2>2, <3>1, EventsMore
  <2> QED BY <2>1, <2>3 DEF InInv, Zel!CallsBacked
<1>7. CASE Zel!OnEvent
  BY <1>7, OnEventStep
<1>8. CASE Zel!OnAudio
  BY <1>8, OnAudioStep
<1>9. CASE \/ Zel!OnBrew \/ Zel!Ensure \/ Zel!StartStream \/ Zel!Started \/ Zel!Feed
           \/ Zel!StopStream \/ Zel!DeleteCall \/ Zel!SendBinary
  BY <1>9, InKept
     DEF Zel!OnBrew, Zel!Ensure, Zel!StartStream, Zel!Started, Zel!Feed, Zel!StopStream, Zel!DeleteCall,
         Zel!SendBinary, inboundVars, Zel!loopVars, Zel!inVars, Zel!zelloVars
<1>10. CASE Zel!Attach \/ Zel!ZelloAudio \/ Zel!Break
  BY <1>10, InKept
     DEF Zel!Attach, Zel!ZelloAudio, Zel!Break, inboundVars, Zel!loopVars, Zel!inVars, Zel!zelloVars
<1>11. ASSUME NEW c \in Spoken, Zel!TakePacket(c) \/ Zel!Key(c) \/ Zel!Speak(c) \/ Zel!Unkey(c)
       PROVE InInv'
  BY <1>11, InKept
     DEF Zel!TakePacket, Zel!Key, Zel!Speak, Zel!Unkey, inboundVars, Zel!loopVars, Zel!inVars, Zel!zelloVars
<1>12. CASE UNCHANGED Zel!vars
  BY <1>12, InKept DEF Zel!vars, inboundVars
<1> QED
  BY <1>1, <1>2, <1>3, <1>4, <1>5, <1>6, <1>7, <1>8, <1>9, <1>10, <1>11, <1>12 DEF Zel!Next

-----------------------------------------------------------------------------
(* The Zello bridge: from the radios to Zello                              *)

\* The numbers of streams: a session and a count.
StreamsUpTo(l, m) == (1..l) \X (1..m)
LEMMA StreamFacts ==
    ASSUME NEW l \in Nat, NEW m \in Nat, NEW s \in StreamsUpTo(l, m)
    PROVE  /\ Zel!Session(s) \in 1..l /\ Zel!Session(s) # 0
           /\ s # Zel!NoPacket
<1>1. s[1] \in 1..l /\ s = <<s[1], s[2]>>
  BY DEF StreamsUpTo
<1> QED BY <1>1 DEF Zel!Session, Zel!NoPacket
LEMMA StreamsGrow ==
    ASSUME NEW l \in Nat, NEW m \in Nat, NEW k \in Nat, NEW o \in Nat, l <= k, m <= o
    PROVE  StreamsUpTo(l, m) \subseteq StreamsUpTo(k, o)
BY DEF StreamsUpTo

\* What the radios said, and how much of it waits in transcoders.
RadiosInv ==
    /\ brew \in Seq({"tx", "frame", "end"} \X Spoken)
    /\ keyed \subseteq Spoken
    /\ frames \in [Spoken -> 0..ZelloFrames]

\* The table of outbound calls, and Zello's open streams.
TableInv ==
    /\ opened \in Nat
    /\ DOMAIN outbound \subseteq Spoken
    /\ \A c \in DOMAIN outbound :
          outbound[c] = Zel!NoPacket \/ outbound[c] \in StreamsUpTo(logons, opened)
    /\ streams \subseteq StreamsUpTo(logons, opened)
    /\ lost \subseteq streams

\* What the read loop is about to do, and how it stands to the table: an answer of
\* Zello comes for an entry without a stream, and what is about to be deleted is not
\* open, or a request for it failed.
JobInv ==
    /\ zjob.do \in {"idle", "ensure", "start", "started", "feed", "stop", "delete"}
    /\ zjob.do # "idle" => zjob.call \in Spoken
    /\ zjob.do = "start" => zjob.client \in 1..logons
    /\ zjob.do = "started" => zjob.stream \in StreamsUpTo(logons, opened)
    /\ zjob.do = "stop" =>
          /\ zjob.stream = Zel!NoPacket \/ zjob.stream \in StreamsUpTo(logons, opened)
          /\ zjob.client = 0 => zjob.stream = Zel!NoPacket
    /\ zjob.do # "idle" /\ zjob.call \in DOMAIN outbound =>
          /\ zjob.do = "start" => client = zjob.client /\ outbound[zjob.call] = Zel!NoPacket
          /\ zjob.do = "started" => client = Zel!Session(zjob.stream) /\ outbound[zjob.call] = Zel!NoPacket
          /\ zjob.do = "stop" => outbound[zjob.call] = zjob.stream
          /\ zjob.do = "delete" => outbound[zjob.call] \notin streams \ lost

OutInv ==
    /\ TableInv
    /\ JobInv
    /\ Zel!StreamsBacked
    /\ Zel!StreamsOfClient

outboundVars == <<client, logons, leaving, outbound, zjob, streams, lost, opened, packet>>
LEMMA OutKept ==
    ASSUME OutInv, UNCHANGED outboundVars
    PROVE  OutInv'
<1> USE DEF outboundVars
<1>1. TableInv'
  BY DEF OutInv, TableInv
<1>2. JobInv'
  BY DEF OutInv, JobInv
<1>3. Zel!StreamsBacked'
  BY DEF OutInv, Zel!StreamsBacked
<1>4. Zel!StreamsOfClient'
  BY DEF OutInv, Zel!StreamsOfClient
<1> QED BY <1>1, <1>2, <1>3, <1>4 DEF OutInv

\* Without a client no entry has a stream.
LEMMA NoneWithoutClient ==
    ASSUME OutInv, LoopInv, client = 0, NEW c \in DOMAIN outbound
    PROVE  outbound[c] = Zel!NoPacket /\ outbound[c] \notin streams
<1>1. \A s \in StreamsUpTo(logons, opened) : Zel!Session(s) # 0 /\ s # Zel!NoPacket
  BY StreamFacts DEF OutInv, TableInv, LoopInv
<1>2. outbound[c] = Zel!NoPacket
  BY <1>1 DEF OutInv, TableInv, Zel!StreamsOfClient
<1> QED BY <1>1, <1>2 DEF OutInv, TableInv

\* What radios say and what transcoders hold keep their types.
LEMMA RadiosStep ==
    ASSUME RadiosInv, ZelloFrames \in Nat, [Zel!Next]_(Zel!vars)
    PROVE  RadiosInv'
<1> DEFINE M == {"tx", "frame", "end"} \X Spoken
<1> HIDE DEF M
<1>1. brew \in Seq(M) /\ keyed \subseteq Spoken /\ frames \in [Spoken -> 0..ZelloFrames]
  BY DEF RadiosInv, M
<1>2. CASE UNCHANGED <<brew, keyed, frames>>
  BY <1>1, <1>2 DEF RadiosInv, M
<1>3. CASE Zel!OnBrew
  <2>1. brew # <<>> /\ brew' = Tail(brew) /\ UNCHANGED <<keyed, frames>>
    BY <1>3 DEF Zel!OnBrew, Zel!ReadJob
  <2>2. brew' \in Seq(M)
    BY <1>1, <2>1
  <2> QED BY <1>1, <2>1, <2>2 DEF RadiosInv, M
<1>4. CASE Zel!Feed
  <2>1. brew' \in Seq(M) /\ UNCHANGED keyed
    BY <1>1, <1>4 DEF Zel!Feed, Zel!radioVars
  <2>2. CASE /\ frames[zjob.call] < ZelloFrames
             /\ frames' = [frames EXCEPT ![zjob.call] = @ + 1]
    <3>1. \A x \in Spoken : frames[x] \in 0..ZelloFrames /\ (frames[x] < ZelloFrames => frames[x] + 1 \in 0..ZelloFrames)
      BY <1>1
    <3>2. frames' \in [Spoken -> 0..ZelloFrames]
      BY <1>1, <2>2, <3>1
    <3> QED BY <1>1, <2>1, <3>2 DEF RadiosInv, M
  <2>3. CASE UNCHANGED frames
    BY <1>1, <2>1, <2>3 DEF RadiosInv, M
  <2> QED BY <1>4, <2>2, <2>3 DEF Zel!Feed
<1>5. ASSUME NEW c \in Spoken, Zel!TakePacket(c)
      PROVE RadiosInv'
  <2>1. brew' \in Seq(M) /\ UNCHANGED keyed
    BY <1>1, <1>5 DEF Zel!TakePacket, Zel!radioVars
  <2>2. frames[c] \in 0..ZelloFrames /\ frames[c] > 0
    BY <1>1, <1>5 DEF Zel!TakePacket
  <2>3. frames[c] - 1 \in 0..ZelloFrames /\ 0 \in 0..ZelloFrames
    BY <2>2
  <2>4. frames' \in [Spoken -> 0..ZelloFrames]
    <3>1. \E k \in 0..ZelloFrames : frames' = [frames EXCEPT ![c] = k]
      BY <1>5, <2>3 DEF Zel!TakePacket
    <3> QED BY <1>1, <3>1
  <2> QED BY <1>1, <2>1, <2>4 DEF RadiosInv, M
<1>6. ASSUME NEW c \in Spoken, Zel!Key(c) \/ Zel!Speak(c) \/ Zel!Unkey(c)
      PROVE RadiosInv'
  <2>1. PICK what \in {"tx", "frame", "end"} : brew' = Append(brew, <<what, c>>)
    BY <1>6 DEF Zel!Key, Zel!Speak, Zel!Unkey, Zel!Says
  <2>2. <<what, c>> \in M
    BY DEF M
  <2>3. brew' \in Seq(M)
    BY <1>1, <2>1, <2>2
  <2>4. keyed' \subseteq Spoken /\ UNCHANGED frames
    BY <1>1, <1>6 DEF Zel!Key, Zel!Speak, Zel!Unkey, Zel!outVars
  <2> QED BY <1>1, <2>3, <2>4 DEF RadiosInv, M
<1>7. CASE \/ Zel!Connect \/ Zel!WaitReconnect \/ Zel!Return \/ Zel!Stop \/ Zel!EndSession \/ Zel!Cleanup
           \/ Zel!OnEvent \/ Zel!OnAudio \/ Zel!ZelloStart \/ Zel!ZelloStop \/ Zel!ZelloAudio
  BY <1>2, <1>7
     DEF Zel!Connect, Zel!WaitReconnect, Zel!Return, Zel!Stop, Zel!EndSession, Zel!Cleanup, Zel!OnEvent,
         Zel!OnAudio, Zel!ZelloStart, Zel!ZelloStop, Zel!ZelloAudio, Zel!radioVars, Zel!outVars
<1>8. CASE \/ Zel!Ensure \/ Zel!StartStream \/ Zel!Started \/ Zel!StopStream \/ Zel!DeleteCall
           \/ Zel!SendBinary \/ Zel!Attach \/ Zel!Break
  BY <1>2, <1>8
     DEF Zel!Ensure, Zel!StartStream, Zel!Started, Zel!StopStream, Zel!DeleteCall, Zel!SendBinary,
         Zel!Attach, Zel!Break, Zel!radioVars, Zel!outVars
<1>9. CASE UNCHANGED Zel!vars
  BY <1>2, <1>9 DEF Zel!vars
<1> QED
  BY <1>3, <1>4, <1>5, <1>6, <1>7, <1>8, <1>9 DEF Zel!Next

\* The session's steps.
LEMMA OutConnect ==
    ASSUME OutInv, LoopInv, Zel!Connect
    PROVE  OutInv'
<1>1. client = 0 /\ UNCHANGED <<leaving, outbound, zjob, streams, lost, opened, packet>>
  BY DEF Zel!Connect, LoopInv, Zel!outVars
<1>2. CASE UNCHANGED <<logons, client>>
  BY <1>1, <1>2, OutKept DEF outboundVars
<1>3. CASE logons' = logons + 1 /\ client' = logons'
  <2>1. logons \in Nat /\ logons' \in Nat /\ logons <= logons' /\ opened \in Nat /\ 1..logons \subseteq 1..logons'
    BY <1>3 DEF LoopInv, OutInv, TableInv
  <2>2. StreamsUpTo(logons, opened) \subseteq StreamsUpTo(logons', opened')
    <3>1. PICK k : k = logons'
      OBVIOUS
    <3>2. StreamsUpTo(logons, opened) \subseteq StreamsUpTo(k, opened)
      BY <2>1, <3>1, StreamsGrow
    <3> QED BY <1>1, <3>1, <3>2 DEF StreamsUpTo
  <2>3. \A c \in DOMAIN outbound : outbound[c] = Zel!NoPacket /\ outbound[c] \notin streams
    BY <1>1, NoneWithoutClient
  <2>4. TableInv'
    BY <1>1, <2>2 DEF OutInv, TableInv
  <2>5. JobInv'
    <3>1. /\ zjob'.do = "start" => zjob'.client \in 1..logons'
          /\ zjob'.do = "started" => zjob'.stream \in StreamsUpTo(logons', opened')
          /\ zjob'.do = "stop" =>
                /\ zjob'.stream = Zel!NoPacket \/ zjob'.stream \in StreamsUpTo(logons', opened')
                /\ zjob'.client = 0 => zjob'.stream = Zel!NoPacket
      BY <1>1, <2>1, <2>2 DEF OutInv, JobInv
    <3>2. /\ zjob.do = "start" => zjob.call \notin DOMAIN outbound
          /\ zjob.do = "started" => zjob.call \notin DOMAIN outbound
      <4>1. zjob.do = "started" => Zel!Session(zjob.stream) # 0
        BY <2>1, StreamFacts DEF OutInv, JobInv
      <4> QED BY <1>1, <4>1 DEF OutInv, JobInv
    <3> QED BY <1>1, <3>1, <3>2 DEF OutInv, JobInv
  <2>6. Zel!StreamsBacked'
    BY <1>1 DEF OutInv, Zel!StreamsBacked
  <2>7. Zel!StreamsOfClient'
    BY <1>1, <2>3 DEF OutInv, Zel!StreamsOfClient
  <2> QED BY <2>4, <2>5, <2>6, <2>7 DEF OutInv
<1> QED BY <1>2, <1>3 DEF Zel!Connect

\* The tables are emptied, at the end of a session or of the loop.
LEMMA OutEnd ==
    ASSUME OutInv, LoopInv, Zel!EndSession \/ Zel!Return
    PROVE  OutInv'
<1>1. DOMAIN outbound' = {} /\ UNCHANGED <<logons, zjob, streams, lost, opened, packet>>
  BY DEF Zel!EndSession, Zel!Return, Zel!LeftOutbound
<1>2. TableInv'
  BY <1>1 DEF OutInv, TableInv
<1>3. JobInv'
  BY <1>1 DEF OutInv, JobInv
<1>4. Zel!StreamsBacked'
  <2>1. CASE Zel!EndSession
    <3>1. zat = "session" /\ leaving'.streams = {outbound[c] : c \in DOMAIN outbound} \ {Zel!NoPacket}
      BY <2>1 DEF Zel!EndSession
    <3>2. leaving.streams = {}
      BY <3>1 DEF LoopInv
    <3>3. \A s \in streams : s # Zel!NoPacket
      BY StreamFacts DEF OutInv, TableInv, LoopInv
    <3> QED BY <1>1, <3>1, <3>2, <3>3 DEF OutInv, Zel!StreamsBacked
  <2>2. CASE Zel!Return
    <3>1. client = 0 /\ leaving' = leaving
      BY <2>2 DEF Zel!Return, LoopInv
    <3>2. \A c \in DOMAIN outbound : outbound[c] \notin streams
      BY <3>1, NoneWithoutClient
    <3> QED BY <1>1, <3>1, <3>2 DEF OutInv, Zel!StreamsBacked
  <2> QED BY <2>1, <2>2
<1>5. Zel!StreamsOfClient'
  BY <1>1 DEF OutInv, Zel!StreamsOfClient
<1> QED BY <1>2, <1>3, <1>4, <1>5 DEF OutInv

\* Streams are gone, with a session or a connection.
LEMMA OutGone ==
    ASSUME OutInv, Zel!Cleanup \/ Zel!Break
    PROVE  OutInv'
<1>1. /\ streams' \subseteq streams /\ lost' = lost \cap streams'
      /\ UNCHANGED <<client, logons, outbound, zjob, opened, packet>>
      /\ \A s \in streams' : s \in leaving.streams => s \in leaving'.streams
  BY DEF Zel!Cleanup, Zel!Break
<1>2. TableInv'
  BY <1>1 DEF OutInv, TableInv
<1>3. JobInv'
  BY <1>1 DEF OutInv, JobInv
<1>4. Zel!StreamsBacked'
  BY <1>1 DEF OutInv, Zel!StreamsBacked
<1>5. Zel!StreamsOfClient'
  BY <1>1 DEF OutInv, Zel!StreamsOfClient
<1> QED BY <1>2, <1>3, <1>4, <1>5 DEF OutInv

\* The transcoder's goroutine reads client and stream together.
LEMMA OutPacket ==
    ASSUME OutInv, (\E c \in Spoken : Zel!TakePacket(c)) \/ Zel!SendBinary
    PROVE  OutInv'
<1>1. UNCHANGED <<client, logons, leaving, outbound, zjob, streams, lost, opened>>
  BY DEF Zel!TakePacket, Zel!SendBinary, Zel!loopVars
<1>2. packet' # Zel!NoPacket => Zel!Session(packet'[2]) = packet'[1]
  <2>1. CASE packet' = packet
    BY <2>1 DEF OutInv, Zel!StreamsOfClient
  <2>2. ASSUME NEW c \in DOMAIN outbound, outbound[c] # Zel!NoPacket, packet' = <<client, outbound[c]>>
        PROVE Zel!Session(packet'[2]) = packet'[1]
    <3>1. Zel!Session(outbound[c]) = client /\ packet'[1] = client /\ packet'[2] = outbound[c]
      BY <2>2 DEF OutInv, Zel!StreamsOfClient
    <3> QED BY <3>1 DEF Zel!Session
  <2>3. CASE Zel!SendBinary
    BY <2>3 DEF Zel!SendBinary
  <2> QED BY <2>1, <2>2, <2>3 DEF Zel!TakePacket
<1>3. TableInv' /\ JobInv' /\ Zel!StreamsBacked'
  BY <1>1 DEF OutInv, TableInv, JobInv, Zel!StreamsBacked
<1>4. Zel!StreamsOfClient'
  BY <1>1, <1>2 DEF OutInv, Zel!StreamsOfClient
<1> QED BY <1>3, <1>4 DEF OutInv

\* What a radio said is read: a call is entered, or something is to be done for it.
LEMMA OutRead ==
    ASSUME OutInv, LoopInv, RadiosInv, Zel!OnBrew
    PROVE  OutInv'
<1> DEFINE what == Head(brew)[1]
           c == Head(brew)[2]
<1>1. zjob.do = "idle" /\ UNCHANGED <<client, logons, leaving, streams, lost, opened, packet>>
  BY DEF Zel!OnBrew, Zel!Idle, Zel!loopVars
<1>2. c \in Spoken
  <2>1. Head(brew) \in {"tx", "frame", "end"} \X Spoken
    BY DEF RadiosInv, Zel!OnBrew
  <2> QED BY <2>1
<1> HIDE DEF c
<1>3. CASE /\ zjob' = Zel!Idle
           /\ outbound' = IF c \in DOMAIN outbound THEN outbound ELSE Zel!Put(outbound, c, Zel!NoPacket)
  <2>1. CASE c \in DOMAIN outbound
    <3>1. UNCHANGED outbound /\ zjob'.do = "idle"
      BY <1>3, <2>1 DEF Zel!Idle
    <3>2. TableInv' /\ Zel!StreamsBacked' /\ Zel!StreamsOfClient'
      BY <1>1, <3>1 DEF OutInv, TableInv, Zel!StreamsBacked, Zel!StreamsOfClient
    <3> QED BY <3>1, <3>2 DEF OutInv, JobInv
  <2>2. CASE c \notin DOMAIN outbound
    <3>1. /\ DOMAIN outbound' = DOMAIN outbound \cup {c} /\ outbound'[c] = Zel!NoPacket
          /\ \A x \in DOMAIN outbound : outbound'[x] = outbound[x]
          /\ zjob'.do = "idle"
      BY <1>3, <2>2 DEF Zel!Put, Zel!Idle
    <3>2. TableInv'
      BY <1>1, <1>2, <3>1 DEF OutInv, TableInv
    <3>3. Zel!StreamsBacked' /\ Zel!StreamsOfClient'
      BY <1>1, <3>1 DEF OutInv, Zel!StreamsBacked, Zel!StreamsOfClient
    <3> QED BY <3>1, <3>2, <3>3 DEF OutInv, JobInv
  <2> QED BY <2>1, <2>2
<1>4. CASE /\ UNCHANGED outbound
           /\ zjob' = IF c \in DOMAIN outbound THEN [do |-> "ensure", call |-> c] ELSE Zel!Idle
  <2>1. TableInv' /\ Zel!StreamsBacked' /\ Zel!StreamsOfClient'
    BY <1>1, <1>4 DEF OutInv, TableInv, Zel!StreamsBacked, Zel!StreamsOfClient
  <2>2. zjob'.do = "idle" \/ (zjob'.do = "ensure" /\ zjob'.call = c)
    BY <1>4 DEF Zel!Idle
  <2> QED BY <1>2, <2>1, <2>2 DEF OutInv, JobInv
<1>5. CASE /\ UNCHANGED outbound
           /\ zjob' = IF c \in DOMAIN outbound
                      THEN [do |-> "stop", call |-> c, client |-> client, stream |-> outbound[c]]
                      ELSE Zel!Idle
  <2>1. TableInv' /\ Zel!StreamsBacked' /\ Zel!StreamsOfClient'
    BY <1>1, <1>5 DEF OutInv, TableInv, Zel!StreamsBacked, Zel!StreamsOfClient
  <2>2. CASE c \notin DOMAIN outbound
    <3>1. zjob'.do = "idle"
      BY <1>5, <2>2 DEF Zel!Idle
    <3> QED BY <2>1, <3>1 DEF OutInv, JobInv
  <2>3. CASE c \in DOMAIN outbound
    <3>1. zjob'.do = "stop" /\ zjob'.call = c /\ zjob'.client = client /\ zjob'.stream = outbound[c]
      BY <1>5, <2>3
    <3>2. client = 0 => outbound[c] = Zel!NoPacket
      BY <2>3, NoneWithoutClient
    <3>3. outbound[c] = Zel!NoPacket \/ outbound[c] \in StreamsUpTo(logons', opened')
      BY <1>1, <2>3 DEF OutInv, TableInv
    <3> QED BY <1>2, <1>5, <2>1, <3>1, <3>2, <3>3 DEF OutInv, JobInv
  <2> QED BY <2>2, <2>3
<1> QED BY <1>3, <1>4, <1>5 DEF Zel!OnBrew, Zel!ReadJob, c

\* The entry is made sure of, and its stream looked up.
LEMMA OutEnsure ==
    ASSUME OutInv, LoopInv, Zel!Ensure
    PROVE  OutInv'
<1> DEFINE c == zjob.call
           stream == IF c \in DOMAIN outbound THEN outbound[c] ELSE Zel!NoPacket
<1>1. /\ zjob.do = "ensure" /\ c \in Spoken
      /\ outbound' = Zel!Put(outbound, c, stream)
      /\ zjob' = CASE client = 0 -> Zel!Idle
                   [] client # 0 /\ stream # Zel!NoPacket -> [do |-> "feed", call |-> c]
                   [] client # 0 /\ stream = Zel!NoPacket -> [do |-> "start", call |-> c, client |-> client]
      /\ UNCHANGED <<client, logons, leaving, streams, lost, opened, packet>>
  BY DEF Zel!Ensure, Zel!loopVars, OutInv, JobInv
<1>2. /\ DOMAIN outbound' = DOMAIN outbound \cup {c} /\ outbound'[c] = stream
      /\ \A x \in DOMAIN outbound : outbound'[x] = outbound[x]
      /\ c \notin DOMAIN outbound => outbound'[c] = Zel!NoPacket
  BY <1>1 DEF Zel!Put
<1>3. TableInv'
  BY <1>1, <1>2 DEF OutInv, TableInv
<1>4. Zel!StreamsBacked'
  BY <1>1, <1>2 DEF OutInv, Zel!StreamsBacked
<1>5. Zel!StreamsOfClient'
  BY <1>1, <1>2 DEF OutInv, Zel!StreamsOfClient
<1>6. JobInv'
  <2> HIDE DEF c, stream
  <2>1. CASE client = 0
    <3>1. zjob'.do = "idle"
      BY <1>1, <2>1 DEF Zel!Idle
    <3> QED BY <3>1 DEF JobInv
  <2>2. CASE client # 0 /\ stream # Zel!NoPacket
    <3>1. zjob'.do = "feed" /\ zjob'.call = c
      BY <1>1, <2>2
    <3> QED BY <1>1, <3>1 DEF JobInv
  <2>3. CASE client # 0 /\ stream = Zel!NoPacket
    <3>1. zjob'.do = "start" /\ zjob'.call = c /\ zjob'.client = client
      BY <1>1, <2>3
    <3>2. client \in 1..logons
      BY <2>3 DEF LoopInv
    <3> QED BY <1>1, <1>2, <2>3, <3>1, <3>2 DEF JobInv
  <2> QED BY <2>1, <2>2, <2>3
<1> QED BY <1>3, <1>4, <1>5, <1>6 DEF OutInv

\* Zello opens a stream, and the read loop has its number, or nobody has.
LEMMA OutStart ==
    ASSUME OutInv, LoopInv, Zel!StartStream
    PROVE  OutInv'
<1>1. zjob.do = "start" /\ zjob.call \in Spoken /\ UNCHANGED <<client, logons, leaving, outbound, packet>>
  BY DEF Zel!StartStream, Zel!loopVars, OutInv, JobInv
<1>2. CASE zjob' = Zel!Idle /\ UNCHANGED <<opened, streams, lost>>
  <2>1. zjob'.do = "idle"
    BY <1>2 DEF Zel!Idle
  <2>2. TableInv' /\ Zel!StreamsBacked' /\ Zel!StreamsOfClient'
    BY <1>1, <1>2 DEF OutInv, TableInv, Zel!StreamsBacked, Zel!StreamsOfClient
  <2> QED BY <2>1, <2>2 DEF OutInv, JobInv
<1>3. CASE /\ zjob.client \in alive
           /\ opened' = opened + 1
           /\ streams' = streams \cup {<<zjob.client, opened'>>}
           /\ \/ /\ zjob' = [do |-> "started", call |-> zjob.call, stream |-> <<zjob.client, opened'>>]
                 /\ UNCHANGED lost
              \/ /\ zjob' = Zel!Idle
                 /\ lost' = lost \cup {<<zjob.client, opened'>>}
  <2> DEFINE s == <<zjob.client, opened'>>
  <2>1. /\ logons \in Nat /\ opened \in Nat /\ opened' \in Nat /\ opened <= opened' /\ opened' \in 1..opened'
        /\ zjob.client \in 1..logons
    BY <1>1, <1>3 DEF LoopInv, OutInv, TableInv, JobInv
  <2>2. StreamsUpTo(logons, opened) \subseteq StreamsUpTo(logons', opened')
    <3>1. PICK o : o = opened'
      OBVIOUS
    <3>2. StreamsUpTo(logons, opened) \subseteq StreamsUpTo(logons, o)
      BY <2>1, <3>1, StreamsGrow
    <3> QED BY <1>1, <3>1, <3>2 DEF StreamsUpTo
  <2>3. s \in StreamsUpTo(logons', opened') /\ Zel!Session(s) = zjob.client
    BY <1>1, <2>1 DEF StreamsUpTo, Zel!Session
  <2> HIDE DEF s
  <2>4. /\ streams' = streams \cup {s}
        /\ \/ zjob'.do = "started" /\ zjob'.call = zjob.call /\ zjob'.stream = s /\ lost' = lost
           \/ zjob'.do = "idle" /\ lost' = lost \cup {s}
    BY <1>3 DEF s, Zel!Idle
  <2>5. TableInv'
    BY <1>1, <2>1, <2>2, <2>3, <2>4 DEF OutInv, TableInv
  <2>6. JobInv'
    BY <1>1, <2>3, <2>4 DEF OutInv, JobInv
  <2>7. Zel!StreamsBacked'
    BY <1>1, <2>4 DEF OutInv, Zel!StreamsBacked
  <2>8. Zel!StreamsOfClient'
    BY <1>1 DEF OutInv, Zel!StreamsOfClient
  <2> QED BY <2>5, <2>6, <2>7, <2>8 DEF OutInv
<1> QED BY <1>2, <1>3 DEF Zel!StartStream

\* The number is entered, if its call is still there, and the stream stopped otherwise.
LEMMA OutStarted ==
    ASSUME OutInv, LoopInv, Zel!Started
    PROVE  OutInv'
<1>1. /\ zjob.do = "started" /\ zjob.call \in Spoken /\ zjob.stream \in StreamsUpTo(logons, opened)
      /\ UNCHANGED <<client, logons, leaving, opened, packet>>
  BY DEF Zel!Started, Zel!loopVars, OutInv, JobInv
<1>2. CASE zjob.call \in DOMAIN outbound
  <2>1. /\ outbound' = [outbound EXCEPT ![zjob.call] = zjob.stream]
        /\ zjob'.do = "feed" /\ zjob'.call = zjob.call /\ UNCHANGED <<streams, lost>>
    BY <1>2 DEF Zel!Started
  <2>2. /\ DOMAIN outbound' = DOMAIN outbound /\ outbound'[zjob.call] = zjob.stream
        /\ \A x \in DOMAIN outbound : x # zjob.call => outbound'[x] = outbound[x]
    BY <1>2, <2>1
  <2>3. client = Zel!Session(zjob.stream) /\ outbound[zjob.call] = Zel!NoPacket
    BY <1>1, <1>2 DEF OutInv, JobInv
  <2>4. TableInv'
    BY <1>1, <2>1, <2>2 DEF OutInv, TableInv
  <2>5. JobInv'
    BY <1>1, <2>1 DEF JobInv
  <2>6. Zel!StreamsBacked'
    <3>1. \A s \in streams : s # Zel!NoPacket
      BY StreamFacts DEF OutInv, TableInv, LoopInv
    <3> QED BY <1>1, <1>2, <2>1, <2>2, <2>3, <3>1 DEF OutInv, Zel!StreamsBacked
  <2>7. Zel!StreamsOfClient'
    BY <1>1, <2>2, <2>3 DEF OutInv, Zel!StreamsOfClient
  <2> QED BY <2>4, <2>5, <2>6, <2>7 DEF OutInv
<1>3. CASE zjob.call \notin DOMAIN outbound
  <2>1. Zel!Close(zjob.stream) /\ zjob'.do = "idle" /\ UNCHANGED outbound
    BY <1>3 DEF Zel!Started, Zel!Idle
  <2> USE DEF Zel!Close
  <2>2. TableInv' /\ Zel!StreamsOfClient'
    BY <1>1, <2>1 DEF OutInv, TableInv, Zel!StreamsOfClient
  <2>3. Zel!StreamsBacked'
    BY <1>1, <2>1 DEF OutInv, Zel!StreamsBacked
  <2> QED BY <2>1, <2>2, <2>3 DEF OutInv, JobInv
<1> QED BY <1>2, <1>3

\* The end of a call: its stream is stopped, then its entry deleted.
LEMMA OutStop ==
    ASSUME OutInv, LoopInv, Zel!Feed \/ Zel!StopStream \/ Zel!DeleteCall
    PROVE  OutInv'
<1>1. zjob.call \in Spoken /\ UNCHANGED <<client, logons, leaving, opened, packet>>
  BY DEF Zel!Feed, Zel!StopStream, Zel!DeleteCall, Zel!loopVars, OutInv, JobInv
<1>2. \A s \in streams : s # Zel!NoPacket
  BY StreamFacts DEF OutInv, TableInv, LoopInv
<1>3. CASE Zel!Feed
  <2>1. zjob.do = "feed" /\ zjob'.do = "idle" /\ UNCHANGED <<outbound, streams, lost>>
    BY <1>3 DEF Zel!Feed, Zel!Idle
  <2>2. TableInv' /\ Zel!StreamsBacked' /\ Zel!StreamsOfClient'
    BY <1>1, <2>1 DEF OutInv, TableInv, Zel!StreamsBacked, Zel!StreamsOfClient
  <2> QED BY <2>1, <2>2 DEF OutInv, JobInv
<1>4. CASE Zel!StopStream
  <2>1. /\ zjob.do = "stop" /\ zjob'.do = "delete" /\ zjob'.call = zjob.call /\ UNCHANGED outbound
        /\ IF zjob.client # 0 THEN Zel!Close(zjob.stream) ELSE UNCHANGED <<streams, lost>>
    BY <1>4 DEF Zel!StopStream
  <2>2. Zel!Close(zjob.stream)
    BY <1>2, <2>1 DEF OutInv, TableInv, JobInv, Zel!Close
  <2> USE DEF Zel!Close
  <2>3. TableInv' /\ Zel!StreamsOfClient'
    BY <1>1, <2>1, <2>2 DEF OutInv, TableInv, Zel!StreamsOfClient
  <2>4. Zel!StreamsBacked'
    BY <1>1, <2>1, <2>2 DEF OutInv, Zel!StreamsBacked
  <2>5. JobInv'
    BY <1>1, <2>1, <2>2 DEF OutInv, JobInv
  <2> QED BY <2>3, <2>4, <2>5 DEF OutInv
<1>5. CASE Zel!DeleteCall
  <2>1. /\ zjob.do = "delete" /\ zjob'.do = "idle" /\ UNCHANGED <<streams, lost>>
        /\ outbound' = [x \in DOMAIN outbound \ {zjob.call} |-> outbound[x]]
    BY <1>5 DEF Zel!DeleteCall, Zel!Idle, Zel!Without
  <2>2. /\ DOMAIN outbound' = DOMAIN outbound \ {zjob.call}
        /\ \A x \in DOMAIN outbound' : outbound'[x] = outbound[x]
    BY <2>1
  <2>3. TableInv' /\ Zel!StreamsOfClient'
    BY <1>1, <2>1, <2>2 DEF OutInv, TableInv, Zel!StreamsOfClient
  <2>4. Zel!StreamsBacked'
    BY <1>1, <2>1, <2>2 DEF OutInv, JobInv, Zel!StreamsBacked
  <2> QED BY <2>1, <2>3, <2>4 DEF OutInv, JobInv
<1> QED BY <1>3, <1>4, <1>5

LEMMA OutStep ==
    ASSUME OutInv, LoopInv, RadiosInv, [Zel!Next]_(Zel!vars)
    PROVE  OutInv'
<1>1. CASE Zel!WaitReconnect \/ Zel!Stop \/ Zel!OnEvent \/ Zel!OnAudio
  BY <1>1, OutKept
     DEF Zel!WaitReconnect, Zel!Stop, Zel!OnEvent, Zel!OnAudio, outboundVars, Zel!outVars, Zel!loopVars
<1>2. CASE Zel!ZelloStart \/ Zel!ZelloAudio \/ Zel!ZelloStop \/ Zel!Attach
  BY <1>2, OutKept
     DEF Zel!ZelloStart, Zel!ZelloAudio, Zel!ZelloStop, Zel!Attach, outboundVars, Zel!outVars, Zel!loopVars
<1>3. CASE Zel!Connect
  BY <1>3, OutConnect
<1>4. CASE Zel!EndSession \/ Zel!Return
  BY <1>4, OutEnd
<1>5. CASE Zel!Cleanup \/ Zel!Break
  BY <1>5, OutGone
<1>6. CASE Zel!OnBrew
  BY <1>6, OutRead
<1>7. CASE Zel!Ensure
  BY <1>7, OutEnsure
<1>8. CASE Zel!StartStream
  BY <1>8, OutStart
<1>9. CASE Zel!Started
  BY <1>9, OutStarted
<1>10. CASE Zel!Feed \/ Zel!StopStream \/ Zel!DeleteCall
  BY <1>10, OutStop
<1>11. CASE (\E c \in Spoken : Zel!TakePacket(c)) \/ Zel!SendBinary
  BY <1>11, OutPacket
<1>12. ASSUME NEW c \in Spoken, Zel!Key(c) \/ Zel!Speak(c) \/ Zel!Unkey(c)
       PROVE OutInv'
  BY <1>12, OutKept DEF Zel!Key, Zel!Speak, Zel!Unkey, outboundVars, Zel!outVars, Zel!loopVars
<1>13. CASE UNCHANGED Zel!vars
  BY <1>13, OutKept DEF Zel!vars, outboundVars
<1> QED
  BY <1>1, <1>2, <1>3, <1>4, <1>5, <1>6, <1>7, <1>8, <1>9, <1>10, <1>11, <1>12, <1>13 DEF Zel!Next

\* The whole invariant, and the theorem: a group call has its stream, and a stream its
\* call, somebody who is about to stop it, or a request that failed or whose answer did
\* not come; none is used with another session's client.
ZelloInv ==
    /\ LoopInv
    /\ InInv
    /\ RadiosInv
    /\ OutInv

THEOREM ZelloAlwaysSound ==
    ASSUME Zel!ZelloConstants
    PROVE  Zel!Spec => []ZelloSound
<1>1. Zel!Init => ZelloInv
  <2> SUFFICES ASSUME Zel!Init PROVE ZelloInv
    OBVIOUS
  <2> USE DEF Zel!Init
  <2>1. ZelloFrames \in Nat
    BY DEF Zel!ZelloConstants
  <2>2. LoopInv
    BY DEF LoopInv, Zel!Nothing
  <2>3. InInv
    <3>1. DOMAIN inbound = {}
      OBVIOUS
    <3>2. EventsWell(general, DOMAIN inbound, talks)
      BY <3>1 DEF EventsWell
    <3>3. injected \subseteq 1..talks /\ talker \in 0..talks /\ talks \in Nat
      OBVIOUS
    <3> QED BY <3>1, <3>2, <3>3 DEF InInv, Zel!CallsBacked
  <2>4. RadiosInv
    <3>1. frames \in [Spoken -> 0..ZelloFrames]
      BY <2>1
    <3>2. brew = <<>> /\ keyed = {}
      OBVIOUS
    <3>3. brew \in Seq({"tx", "frame", "end"} \X Spoken)
      BY <3>2
    <3> QED BY <3>1, <3>2, <3>3 DEF RadiosInv
  <2>5. OutInv
    <3>1. DOMAIN outbound = {} /\ streams = {} /\ lost = {} /\ opened = 0 /\ zjob.do = "idle" /\ packet = Zel!NoPacket
      BY DEF Zel!Idle
    <3>2. TableInv
      BY <3>1 DEF TableInv
    <3>3. JobInv
      BY <3>1 DEF JobInv
    <3> QED BY <3>1, <3>2, <3>3 DEF OutInv, Zel!StreamsBacked, Zel!StreamsOfClient
  <2> QED BY <2>2, <2>3, <2>4, <2>5 DEF ZelloInv
<1>2. ZelloInv /\ [Zel!Next]_(Zel!vars) => ZelloInv'
  BY LoopStep, InStep, RadiosStep, OutStep DEF ZelloInv, Zel!ZelloConstants
<1>3. ZelloInv => ZelloSound
  <2> SUFFICES ASSUME ZelloInv PROVE ZelloSound
    OBVIOUS
  <2>1. client \in 0..logons
    BY DEF ZelloInv, LoopInv
  <2>2. Zel!TypeOK
    BY <2>1 DEF ZelloInv, LoopInv, InInv, RadiosInv, OutInv, TableInv, JobInv, StreamsUpTo, Zel!TypeOK
  <2> QED BY <2>2 DEF ZelloInv, InInv, OutInv, ZelloSound, Zel!ZelloSound
<1> QED BY <1>1, <1>2, <1>3, PTL DEF Zel!Spec

-----------------------------------------------------------------------------
(* The DMR bridge: what is queued for a network                            *)

\* The commands about n mirrors.
Commands(n) == (1..n) \X {"tx", "voice", "end"}

\* The release of m comes after place i of the queue; its beginning comes before.
Ended(q, m, i) == \E j \in DOMAIN q : i < j /\ q[j] = <<m, "end">>
Begun(q, m, i) == \E j \in DOMAIN q : j < i /\ q[j] = <<m, "tx">>

\* Mirrors that are to be opened or are open are followed (in w), or will be released.
TxBacked(q, w) == \A i \in DOMAIN q : q[i][2] = "tx" => q[i][1] \in w \/ Ended(q, q[i][1], i)
AirBacked(q, a, w) == \A m \in a : m \in w \/ Ended(q, m, 0)

\* Voice comes after the beginning of its mirror and before the release; mirrors of
\* calls the bridge follows (r) have begun and are not released.
VoiceIn(q, a) ==
    \A i \in DOMAIN q : q[i][2] = "voice" =>
        /\ q[i][1] \in a \/ Begun(q, q[i][1], i)
        /\ \A j \in DOMAIN q : j < i => q[j] # <<q[i][1], "end">>
CallIn(q, a, r) ==
    \A m \in r : /\ m \in a \/ \E j \in DOMAIN q : q[j] = <<m, "tx">>
                 /\ \A j \in DOMAIN q : q[j] # <<m, "end">>

\* A network's queue and what is open on it, with the mirrors that are followed, those
\* that went without a release, and whether a connection was lost.
PlaneWell(q, a, r, d, n, b) ==
    /\ q \in Seq(Commands(n))
    /\ a \subseteq 1..n /\ r \subseteq 1..n /\ d \subseteq 1..n
    /\ TxBacked(q, r \cup d)
    /\ AirBacked(q, a, r \cup d)
    /\ ~b => VoiceIn(q, a) /\ CallIn(q, a, r)

LEMMA Added ==
    ASSUME NEW S, NEW q \in Seq(S), NEW e \in S
    PROVE  \E last \in Nat :
              /\ Append(q, e) \in Seq(S)
              /\ DOMAIN Append(q, e) = DOMAIN q \cup {last} /\ Append(q, e)[last] = e
              /\ \A i \in DOMAIN q : i \in Nat /\ 0 < i /\ i < last /\ Append(q, e)[i] = q[i]
              /\ 0 < last
<1>1. /\ Append(q, e) \in Seq(S) /\ Len(Append(q, e)) = Len(q) + 1 /\ Len(q) \in Nat /\ DOMAIN q = 1..Len(q)
      /\ \A i \in 1..Len(q) : Append(q, e)[i] = q[i]
      /\ Append(q, e)[Len(q) + 1] = e
  BY AppendProperties
<1>2. DOMAIN Append(q, e) = 1..(Len(q) + 1)
  BY <1>1
<1>3. 1..(Len(q) + 1) = 1..Len(q) \cup {Len(q) + 1}
  BY <1>1
<1>4. Len(q) + 1 \in Nat /\ 0 < Len(q) + 1 /\ \A i \in 1..Len(q) : i \in Nat /\ 0 < i /\ i < Len(q) + 1
  BY <1>1
<1> QED BY <1>1, <1>2, <1>3, <1>4

LEMMA Removed ==
    ASSUME NEW S, NEW q \in Seq(S), q # <<>>
    PROVE  /\ Tail(q) \in Seq(S) /\ 1 \in DOMAIN q /\ Head(q) = q[1] /\ Head(q) \in S
           /\ \A i \in DOMAIN Tail(q) : i \in Nat /\ 0 < i /\ i + 1 \in DOMAIN q /\ Tail(q)[i] = q[i + 1]
           /\ \A i \in DOMAIN q : i \in Nat /\ 0 < i /\ (i # 1 => i - 1 \in DOMAIN Tail(q) /\ Tail(q)[i - 1] = q[i])
<1>1. /\ Tail(q) \in Seq(S) /\ 1 \in DOMAIN q /\ Head(q) = q[1] /\ Head(q) \in S
      /\ Len(Tail(q)) = Len(q) - 1 /\ Len(q) \in Nat /\ DOMAIN q = 1..Len(q) /\ DOMAIN Tail(q) = 1..Len(Tail(q))
      /\ \A k \in DOMAIN Tail(q) : k \in Nat /\ k + 1 \in DOMAIN q /\ Tail(q)[k] = q[k + 1]
  BY Shifted
<1>2. ASSUME NEW i \in DOMAIN q, i # 1
      PROVE i - 1 \in DOMAIN Tail(q) /\ Tail(q)[i - 1] = q[i]
  <2>1. i \in Nat /\ i - 1 \in 1..Len(Tail(q)) /\ i - 1 + 1 = i
    BY <1>1, <1>2
  <2> QED BY <1>1, <2>1
<1> QED BY <1>1, <1>2

\* Commands of two kinds differ.
LEMMA Differ ==
    ASSUME NEW m, NEW what \in {"tx", "voice", "end"}, NEW e, e = <<m, what>>
    PROVE  /\ e[1] = m /\ e[2] = what
           /\ \A k : what # "end" => e # <<k, "end">>
           /\ \A k : what # "tx" => e # <<k, "tx">>
OBVIOUS

LEMMA CommandsGrow ==
    ASSUME NEW n \in Nat, NEW o \in Nat, n <= o, NEW q \in Seq(Commands(n))
    PROVE  q \in Seq(Commands(o)) /\ 1..n \subseteq 1..o
<1>1. Commands(n) \subseteq Commands(o) /\ 1..n \subseteq 1..o
  BY DEF Commands
<1>2. q = [i \in 1..Len(q) |-> q[i]] /\ Len(q) \in Nat /\ \A i \in 1..Len(q) : q[i] \in Commands(n)
  OBVIOUS
<1>3. \A i \in 1..Len(q) : q[i] \in Commands(o)
  BY <1>1, <1>2
<1> QED BY <1>1, <1>2, <1>3, IsASeq

LEMMA CommandParts ==
    ASSUME NEW n \in Nat, NEW e \in Commands(n)
    PROVE  e = <<e[1], e[2]>> /\ e[1] \in 1..n /\ e[2] \in {"tx", "voice", "end"}
BY DEF Commands

\* From r, the mirrors that are followed, to s with the new ones; some go without a
\* release, from d to e.
Moved(r, d, new, s, e, o) ==
    /\ s \subseteq r \cup new /\ new \subseteq s
    /\ d \subseteq e /\ r \subseteq s \cup e /\ e \subseteq 1..o

\* Mirrors may go without a release, and more be made elsewhere.
LEMMA PlaneKept ==
    ASSUME NEW q, NEW a, NEW r, NEW d, NEW n \in Nat, NEW b \in BOOLEAN, PlaneWell(q, a, r, d, n, b),
           NEW s, NEW e, NEW o \in Nat, n <= o, Moved(r, d, {}, s, e, o)
    PROVE  PlaneWell(q, a, s, e, o, b)
<1>0. s \subseteq r /\ d \subseteq e /\ r \subseteq s \cup e /\ e \subseteq 1..o
  BY DEF Moved
<1>1. q \in Seq(Commands(o)) /\ a \subseteq 1..o /\ s \subseteq 1..o
  BY <1>0, CommandsGrow DEF PlaneWell
<1>2. TxBacked(q, s \cup e) /\ AirBacked(q, a, s \cup e)
  BY <1>0 DEF PlaneWell, TxBacked, AirBacked
<1>3. ~b => VoiceIn(q, a) /\ CallIn(q, a, s)
  BY <1>0 DEF PlaneWell, CallIn
<1> QED BY <1>0, <1>1, <1>2, <1>3 DEF PlaneWell

\* A mirror is made: r becomes s, perhaps without the one it replaces.
LEMMA PlaneStart ==
    ASSUME NEW q, NEW a, NEW r, NEW d, NEW n \in Nat, NEW b \in BOOLEAN, PlaneWell(q, a, r, d, n, b),
           NEW s, NEW e, NEW o \in Nat, o = n + 1, Moved(r, d, {o}, s, e, o)
    PROVE  PlaneWell(Append(q, <<o, "tx">>), a, s, e, o, b)
<1> DEFINE all == Append(q, <<o, "tx">>)
<1> s \subseteq r \cup {o} /\ o \in s /\ d \subseteq e /\ r \subseteq s \cup e /\ e \subseteq 1..o
  BY DEF Moved
<1>1. q \in Seq(Commands(o)) /\ a \subseteq 1..o /\ s \subseteq 1..o /\ o \notin 1..n /\ o \in 1..o
  BY CommandsGrow DEF PlaneWell
<1>2. <<o, "tx">> \in Commands(o)
  BY <1>1 DEF Commands
<1>3. PICK last \in Nat :
         /\ all \in Seq(Commands(o))
         /\ DOMAIN all = DOMAIN q \cup {last} /\ all[last] = <<o, "tx">>
         /\ \A i \in DOMAIN q : i \in Nat /\ 0 < i /\ i < last /\ all[i] = q[i]
         /\ 0 < last
  BY <1>1, <1>2, Added
<1>4. \A i \in DOMAIN q : q[i] \in Commands(n) /\ q[i][1] \in 1..n
  <2>1. q \in Seq(Commands(n))
    BY DEF PlaneWell
  <2>2. \A i \in DOMAIN q : q[i] \in Commands(n)
    BY <2>1
  <2> QED BY <2>2, CommandParts
<1> HIDE DEF all
<1>0. all[last][1] = o /\ all[last][2] = "tx" /\ \A k : all[last] # <<k, "end">>
  BY <1>3, Differ
<1>5. TxBacked(all, s \cup e)
  BY <1>0, <1>3 DEF PlaneWell, TxBacked, Ended
<1>6. AirBacked(all, a, s \cup e)
  BY <1>0, <1>3 DEF PlaneWell, AirBacked, Ended
<1>7. ASSUME ~b
      PROVE VoiceIn(all, a) /\ CallIn(all, a, s)
  <2>1. VoiceIn(q, a) /\ CallIn(q, a, r) /\ r \subseteq 1..n
    BY <1>7 DEF PlaneWell
  <2>2. VoiceIn(all, a)
    <3>1. ASSUME NEW i \in DOMAIN all, all[i][2] = "voice"
          PROVE /\ all[i][1] \in a \/ Begun(all, all[i][1], i)
                /\ \A j \in DOMAIN all : j < i => all[j] # <<all[i][1], "end">>
      <4>1. i \in DOMAIN q /\ all[i] = q[i] /\ i \in Nat /\ i < last
        BY <1>0, <1>3, <3>1
      <4>2. /\ q[i][1] \in a \/ Begun(q, q[i][1], i)
            /\ \A j \in DOMAIN q : j < i => q[j] # <<q[i][1], "end">>
        BY <2>1, <3>1, <4>1 DEF VoiceIn
      <4> QED BY <1>0, <1>3, <4>1, <4>2 DEF Begun
    <3> QED BY <3>1 DEF VoiceIn
  <2>3. CallIn(all, a, s)
    <3>1. ASSUME NEW m \in s
          PROVE /\ m \in a \/ \E j \in DOMAIN all : all[j] = <<m, "tx">>
                /\ \A j \in DOMAIN all : all[j] # <<m, "end">>
      <4>1. CASE m = o
        <5>1. \A j \in DOMAIN q : q[j] # <<o, "end">>
          BY <1>1, <1>4
        <5> QED BY <1>0, <1>3, <4>1, <5>1
      <4>2. CASE m \in r
        BY <1>0, <1>3, <2>1, <4>2 DEF CallIn
      <4> QED BY <4>1, <4>2
    <3> QED BY <3>1 DEF CallIn
  <2> QED BY <2>2, <2>3
<1> QED BY <1>1, <1>3, <1>5, <1>6, <1>7 DEF PlaneWell, all

\* Voice is sent to a mirror that is followed.
LEMMA PlaneVoice ==
    ASSUME NEW q, NEW a, NEW r, NEW d, NEW n \in Nat, NEW b \in BOOLEAN, PlaneWell(q, a, r, d, n, b),
           NEW m \in r
    PROVE  PlaneWell(Append(q, <<m, "voice">>), a, r, d, n, b)
<1> DEFINE all == Append(q, <<m, "voice">>)
<1>1. q \in Seq(Commands(n)) /\ <<m, "voice">> \in Commands(n)
  BY DEF PlaneWell, Commands
<1>2. PICK last \in Nat :
         /\ all \in Seq(Commands(n))
         /\ DOMAIN all = DOMAIN q \cup {last} /\ all[last] = <<m, "voice">>
         /\ \A i \in DOMAIN q : i \in Nat /\ 0 < i /\ i < last /\ all[i] = q[i]
         /\ 0 < last
  BY <1>1, Added
<1> HIDE DEF all
<1>0. all[last][1] = m /\ all[last][2] = "voice" /\ \A k : all[last] # <<k, "end">>
  BY <1>2, Differ
<1>3. TxBacked(all, r \cup d)
  BY <1>0, <1>2 DEF PlaneWell, TxBacked, Ended
<1>4. AirBacked(all, a, r \cup d)
  BY <1>0, <1>2 DEF PlaneWell, AirBacked, Ended
<1>5. ASSUME ~b
      PROVE VoiceIn(all, a) /\ CallIn(all, a, r)
  <2>1. VoiceIn(q, a) /\ CallIn(q, a, r)
    BY <1>5 DEF PlaneWell
  <2>2. CallIn(all, a, r)
    BY <1>0, <1>2, <2>1 DEF CallIn
  <2>3. ASSUME NEW i \in DOMAIN all, all[i][2] = "voice"
        PROVE /\ all[i][1] \in a \/ Begun(all, all[i][1], i)
              /\ \A j \in DOMAIN all : j < i => all[j] # <<all[i][1], "end">>
    <3>1. CASE i = last
      BY <1>0, <1>2, <2>1, <3>1 DEF CallIn, Begun
    <3>2. CASE i \in DOMAIN q
      <4>1. /\ q[i][1] \in a \/ Begun(q, q[i][1], i)
            /\ \A j \in DOMAIN q : j < i => q[j] # <<q[i][1], "end">>
        BY <1>0, <1>2, <2>1, <2>3, <3>2 DEF VoiceIn
      <4> QED BY <1>0, <1>2, <3>2, <4>1 DEF Begun
    <3> QED BY <1>0, <1>2, <3>1, <3>2
  <2> QED BY <2>2, <2>3 DEF VoiceIn
<1> QED BY <1>2, <1>3, <1>4, <1>5 DEF PlaneWell, all

\* A mirror is released, and followed no more.
LEMMA PlaneEnd ==
    ASSUME NEW q, NEW a, NEW r, NEW d, NEW n \in Nat, NEW b \in BOOLEAN, PlaneWell(q, a, r, d, n, b),
           NEW m \in r, NEW s, s = r \ {m}
    PROVE  PlaneWell(Append(q, <<m, "end">>), a, s, d, n, b)
<1> DEFINE all == Append(q, <<m, "end">>)
<1>1. q \in Seq(Commands(n)) /\ <<m, "end">> \in Commands(n)
  BY DEF PlaneWell, Commands
<1>2. PICK last \in Nat :
         /\ all \in Seq(Commands(n))
         /\ DOMAIN all = DOMAIN q \cup {last} /\ all[last] = <<m, "end">>
         /\ \A i \in DOMAIN q : i \in Nat /\ 0 < i /\ i < last /\ all[i] = q[i]
         /\ 0 < last
  BY <1>1, Added
<1> HIDE DEF all
<1>0. all[last][1] = m /\ all[last][2] = "end"
  BY <1>2, Differ
<1>3. TxBacked(all, s \cup d)
  <2>1. ASSUME NEW i \in DOMAIN all, all[i][2] = "tx"
        PROVE all[i][1] \in s \cup d \/ Ended(all, all[i][1], i)
    <3>1. i \in DOMAIN q /\ all[i] = q[i] /\ i < last
      BY <1>0, <1>2, <2>1
    <3>2. q[i][1] \in r \cup d \/ Ended(q, q[i][1], i)
      BY <2>1, <3>1 DEF PlaneWell, TxBacked
    <3> QED BY <1>0, <1>2, <3>1, <3>2 DEF Ended
  <2> QED BY <2>1 DEF TxBacked
<1>4. AirBacked(all, a, s \cup d)
  BY <1>0, <1>2 DEF PlaneWell, AirBacked, Ended
<1>5. ASSUME ~b
      PROVE VoiceIn(all, a) /\ CallIn(all, a, s)
  <2>1. VoiceIn(q, a) /\ CallIn(q, a, r)
    BY <1>5 DEF PlaneWell
  <2>2. CallIn(all, a, s)
    <3>1. ASSUME NEW k \in s
          PROVE /\ k \in a \/ \E j \in DOMAIN all : all[j] = <<k, "tx">>
                /\ \A j \in DOMAIN all : all[j] # <<k, "end">>
      <4>1. /\ k \in a \/ \E j \in DOMAIN q : q[j] = <<k, "tx">>
            /\ \A j \in DOMAIN q : q[j] # <<k, "end">>
        BY <2>1 DEF CallIn
      <4>2. all[last] # <<k, "end">>
        BY <1>0
      <4> QED BY <1>2, <4>1, <4>2
    <3> QED BY <3>1 DEF CallIn
  <2>3. ASSUME NEW i \in DOMAIN all, all[i][2] = "voice"
        PROVE /\ all[i][1] \in a \/ Begun(all, all[i][1], i)
              /\ \A j \in DOMAIN all : j < i => all[j] # <<all[i][1], "end">>
    <3>1. i \in DOMAIN q /\ all[i] = q[i] /\ i \in Nat /\ i < last
      BY <1>0, <1>2, <2>3
    <3>2. /\ q[i][1] \in a \/ Begun(q, q[i][1], i)
          /\ \A j \in DOMAIN q : j < i => q[j] # <<q[i][1], "end">>
      BY <2>1, <2>3, <3>1 DEF VoiceIn
    <3>3. \A j \in DOMAIN all : j < i => j \in DOMAIN q /\ all[j] = q[j]
      BY <1>2, <3>1
    <3>4. Begun(q, q[i][1], i) => Begun(all, all[i][1], i)
      BY <1>2, <3>1 DEF Begun
    <3> QED BY <3>1, <3>2, <3>3, <3>4
  <2> QED BY <2>2, <2>3 DEF VoiceIn
<1>6. s \subseteq 1..n
  BY DEF PlaneWell
<1> QED BY <1>2, <1>3, <1>4, <1>5, <1>6 DEF PlaneWell, all

\* The network acts on the first command.
LEMMA PlaneServe ==
    ASSUME NEW q, NEW a, NEW r, NEW d, NEW n \in Nat, NEW b \in BOOLEAN, PlaneWell(q, a, r, d, n, b),
           q # <<>>, NEW h, h = Head(q), NEW after,
           after = IF h[2] = "tx" THEN a \cup {h[1]} ELSE IF h[2] = "end" THEN a \ {h[1]} ELSE a
    PROVE  PlaneWell(Tail(q), after, r, d, n, b)
<1> DEFINE rest == Tail(q)
<1>1. q \in Seq(Commands(n))
  BY DEF PlaneWell
<1>2. /\ rest \in Seq(Commands(n)) /\ 1 \in DOMAIN q /\ h = q[1] /\ h \in Commands(n)
      /\ \A i \in DOMAIN rest : i \in Nat /\ 0 < i /\ i + 1 \in DOMAIN q /\ rest[i] = q[i + 1]
      /\ \A i \in DOMAIN q : i \in Nat /\ 0 < i /\ (i # 1 => i - 1 \in DOMAIN rest /\ rest[i - 1] = q[i])
  BY <1>1, Removed
<1>3. h[1] \in 1..n
  BY <1>2, CommandParts
<1>4. /\ \A m : h = <<m, "end">> => m \notin after
      /\ \A m : h = <<m, "tx">> => m \in after
      /\ \A m \in a : h # <<m, "end">> => m \in after
      /\ \A m \in after : m \in a \/ (m = h[1] /\ h[2] = "tx")
  <2>1. ASSUME NEW m
        PROVE /\ h = <<m, "end">> => m \notin after
              /\ h = <<m, "tx">> => m \in after
    OBVIOUS
  <2>2. ASSUME NEW m \in a, h # <<m, "end">>
        PROVE m \in after
    <3>1. h = <<h[1], h[2]>>
      BY <1>2, CommandParts
    <3> QED BY <2>2, <3>1
  <2> QED BY <2>1, <2>2
<1>5. after \subseteq 1..n /\ r \subseteq 1..n /\ d \subseteq 1..n
  BY <1>3, <1>4 DEF PlaneWell
<1> HIDE DEF rest
<1>6. ASSUME NEW m, NEW i \in Nat, Ended(q, m, i + 1)
      PROVE Ended(rest, m, i)
  <2>1. PICK j \in DOMAIN q : i + 1 < j /\ q[j] = <<m, "end">>
    BY <1>6 DEF Ended
  <2>2. j \in Nat /\ j # 1 /\ j - 1 \in DOMAIN rest /\ rest[j - 1] = <<m, "end">> /\ i < j - 1
    BY <1>2, <2>1
  <2> QED BY <2>2 DEF Ended
<1>7. TxBacked(rest, r \cup d)
  <2>1. ASSUME NEW i \in DOMAIN rest, rest[i][2] = "tx"
        PROVE rest[i][1] \in r \cup d \/ Ended(rest, rest[i][1], i)
    <3>1. i \in Nat /\ i + 1 \in DOMAIN q /\ rest[i] = q[i + 1]
      BY <1>2
    <3>2. q[i + 1][1] \in r \cup d \/ Ended(q, q[i + 1][1], i + 1)
      BY <2>1, <3>1 DEF PlaneWell, TxBacked
    <3> QED BY <1>6, <3>1, <3>2
  <2> QED BY <2>1 DEF TxBacked
<1>8. AirBacked(rest, after, r \cup d)
  <2>1. ASSUME NEW m \in after
        PROVE m \in r \cup d \/ Ended(rest, m, 0)
    <3>1. CASE m = h[1] /\ h[2] = "tx"
      <4>1. m \in r \cup d \/ Ended(q, m, 0 + 1)
        BY <1>2, <3>1 DEF PlaneWell, TxBacked
      <4> QED BY <1>6, <4>1
    <3>2. CASE m \in a
      <4>1. CASE m \in r \cup d
        BY <4>1
      <4>2. CASE Ended(q, m, 0)
        <5>1. PICK j \in DOMAIN q : q[j] = <<m, "end">>
          BY <4>2 DEF Ended
        <5>2. j # 1
          BY <1>2, <1>4, <2>1, <5>1
        <5>3. j \in Nat /\ 0 < j /\ 0 + 1 < j
          BY <1>2, <5>2
        <5>4. Ended(q, m, 0 + 1)
          BY <5>1, <5>3 DEF Ended
        <5> QED BY <1>6, <5>4
      <4> QED BY <3>2, <4>1, <4>2 DEF PlaneWell, AirBacked
    <3> QED BY <1>4, <3>1, <3>2
  <2> QED BY <2>1 DEF AirBacked
<1>9. ASSUME ~b
      PROVE VoiceIn(rest, after) /\ CallIn(rest, after, r)
  <2>1. VoiceIn(q, a) /\ CallIn(q, a, r)
    BY <1>9 DEF PlaneWell
  <2>2. ASSUME NEW i \in DOMAIN rest, rest[i][2] = "voice"
        PROVE /\ rest[i][1] \in after \/ Begun(rest, rest[i][1], i)
              /\ \A j \in DOMAIN rest : j < i => rest[j] # <<rest[i][1], "end">>
    <3> DEFINE m == rest[i][1]
    <3>1. i \in Nat /\ i + 1 \in DOMAIN q /\ rest[i] = q[i + 1] /\ 1 < i + 1
      BY <1>2
    <3>2. /\ m \in a \/ Begun(q, m, i + 1)
          /\ \A j \in DOMAIN q : j < i + 1 => q[j] # <<m, "end">>
      BY <2>1, <2>2, <3>1 DEF VoiceIn
    <3> HIDE DEF m
    <3>3. h # <<m, "end">>
      BY <1>2, <3>1, <3>2
    <3>4. \A j \in DOMAIN rest : j < i => rest[j] # <<m, "end">>
      BY <1>2, <3>1, <3>2
    <3>5. CASE m \in a
      BY <1>4, <3>3, <3>4, <3>5 DEF m
    <3>6. CASE Begun(q, m, i + 1)
      <4>1. PICK j \in DOMAIN q : j < i + 1 /\ q[j] = <<m, "tx">>
        BY <3>6 DEF Begun
      <4>2. CASE j = 1
        BY <1>2, <1>4, <3>4, <4>1, <4>2 DEF m
      <4>3. CASE j # 1
        <5>1. j - 1 \in DOMAIN rest /\ rest[j - 1] = <<m, "tx">> /\ j - 1 < i
          BY <1>2, <3>1, <4>1, <4>3
        <5>2. Begun(rest, m, i)
          BY <5>1 DEF Begun
        <5> QED BY <3>4, <5>2 DEF m
      <4> QED BY <4>2, <4>3
    <3> QED BY <3>2, <3>5, <3>6
  <2>3. ASSUME NEW m \in r
        PROVE /\ m \in after \/ \E j \in DOMAIN rest : rest[j] = <<m, "tx">>
              /\ \A j \in DOMAIN rest : rest[j] # <<m, "end">>
    <3>1. /\ m \in a \/ \E j \in DOMAIN q : q[j] = <<m, "tx">>
          /\ \A j \in DOMAIN q : q[j] # <<m, "end">>
      BY <2>1 DEF CallIn
    <3>2. \A j \in DOMAIN rest : rest[j] # <<m, "end">>
      BY <1>2, <3>1
    <3>3. h # <<m, "end">>
      BY <1>2, <3>1
    <3>4. CASE m \in a
      BY <1>4, <3>2, <3>3, <3>4
    <3>5. ASSUME NEW j \in DOMAIN q, q[j] = <<m, "tx">>
          PROVE m \in after \/ \E k \in DOMAIN rest : rest[k] = <<m, "tx">>
      <4>1. CASE j = 1
        BY <1>2, <1>4, <3>5, <4>1
      <4>2. CASE j # 1
        BY <1>2, <3>5, <4>2
      <4> QED BY <4>1, <4>2
    <3> QED BY <3>1, <3>2, <3>4, <3>5
  <2> QED BY <2>2, <2>3 DEF VoiceIn, CallIn
<1> QED BY <1>2, <1>5, <1>7, <1>8, <1>9 DEF PlaneWell, rest

\* The connection is lost, and perhaps the command that was being written.
LEMMA PlaneLost ==
    ASSUME NEW q, NEW a, NEW r, NEW d, NEW n \in Nat, NEW b \in BOOLEAN, PlaneWell(q, a, r, d, n, b),
           NEW left, left = q \/ (q # <<>> /\ left = Tail(q))
    PROVE  PlaneWell(left, {}, r, d, n, TRUE)
<1>1. CASE left = q
  BY <1>1 DEF PlaneWell, AirBacked
<1>2. CASE q # <<>> /\ left = Tail(q)
  <2>1. PICK h, after : h = Head(q) /\
           after = IF h[2] = "tx" THEN a \cup {h[1]} ELSE IF h[2] = "end" THEN a \ {h[1]} ELSE a
    OBVIOUS
  <2>2. PlaneWell(left, after, r, d, n, b)
    BY <1>2, <2>1, PlaneServe
  <2> QED BY <2>2 DEF PlaneWell, AirBacked
<1> QED BY <1>1, <1>2

-----------------------------------------------------------------------------
(* The DMR bridge: its tables                                              *)

\* The calls there are when n mirrors have been made, and what is said about them.
Ids(n) == Talk \cup (1..n)
Messages(n) == Ids(n) \X {"tx", "voice", "end"}

\* The mirrors of the calls in a table.
Followed(f) == {f[i] : i \in DOMAIN f}

\* A network's table of calls and of the bridge's own, and what its read loop holds:
\* every call has a mirror of its own, and is none of the bridge's.
TablesWell(f, mi, j, n) ==
    /\ DOMAIN f \subseteq Ids(n)
    /\ \A i \in DOMAIN f : f[i] \in 1..n
    /\ \A i, k \in DOMAIN f : f[i] = f[k] => i = k
    /\ mi \subseteq 1..n
    /\ DOMAIN f \cap mi = {}
    /\ j = <<>> \/ (j \in Ids(n) \X {"tx", "end"} /\ j[1] \notin mi)

LEMMA MessagesGrow ==
    ASSUME NEW n \in Nat, NEW o \in Nat, n <= o
    PROVE  /\ Ids(n) \subseteq Ids(o)
           /\ Ids(n) \X {"tx", "end"} \subseteq Ids(o) \X {"tx", "end"}
           /\ \A q \in Seq(Messages(n)) : q \in Seq(Messages(o))
<1>1. Ids(n) \subseteq Ids(o)
  BY DEF Ids
<1>2. Messages(n) \subseteq Messages(o) /\ Ids(n) \X {"tx", "end"} \subseteq Ids(o) \X {"tx", "end"}
  BY <1>1 DEF Messages
<1>3. ASSUME NEW q \in Seq(Messages(n))
      PROVE q \in Seq(Messages(o))
  <2>1. q = [i \in 1..Len(q) |-> q[i]] /\ Len(q) \in Nat /\ \A i \in 1..Len(q) : q[i] \in Messages(n)
    OBVIOUS
  <2>2. \A i \in 1..Len(q) : q[i] \in Messages(o)
    BY <1>2, <2>1
  <2> QED BY <2>1, <2>2, IsASeq
<1> QED BY <1>1, <1>2, <1>3

\* What the read loop held is done.
LEMMA TablesDone ==
    ASSUME NEW f, NEW mi, NEW j, NEW n, TablesWell(f, mi, j, n)
    PROVE  TablesWell(f, mi, <<>>, n)
BY DEF TablesWell

\* Entries go.
LEMMA TablesFewer ==
    ASSUME NEW f, NEW mi, NEW j, NEW n, TablesWell(f, mi, j, n), NEW X
    PROVE  TablesWell(Dmr!Without(f, X), mi, j, n)
<1> DEFINE g == Dmr!Without(f, X)
<1>1. DOMAIN g = DOMAIN f \ X /\ \A i \in DOMAIN g : g[i] = f[i]
  BY DEF Dmr!Without
<1> HIDE DEF g
<1>2. TablesWell(g, mi, j, n)
  BY <1>1 DEF TablesWell
<1> QED BY <1>2 DEF g

\* A table with another entry.
Entered(f, id, o) == [i \in DOMAIN f \cup {id} |-> IF i = id THEN o ELSE f[i]]

\* A call gets a new mirror, which the other network's table knows for the bridge's own.
LEMMA TablesStart ==
    ASSUME NEW f, NEW mi, NEW j, NEW n \in Nat, TablesWell(f, mi, j, n), j # <<>>, NEW o \in Nat, o = n + 1
    PROVE  TablesWell(Entered(f, j[1], o), mi, <<>>, o)
<1> DEFINE g == Entered(f, j[1], o)
<1>1. /\ DOMAIN g = DOMAIN f \cup {j[1]} /\ g[j[1]] = o
      /\ \A i \in DOMAIN f : i # j[1] => g[i] = f[i]
  BY DEF Entered
<1> HIDE DEF g
<1>2. j[1] \in Ids(n) /\ j[1] \notin mi
  BY DEF TablesWell
<1>3. Ids(n) \subseteq Ids(o) /\ 1..n \subseteq 1..o /\ o \in 1..o /\ o \notin 1..n
  BY DEF Ids
<1>4. \A i \in DOMAIN g : g[i] \in 1..o
  BY <1>1, <1>3 DEF TablesWell
<1>5. \A i, k \in DOMAIN g : g[i] = g[k] => i = k
  BY <1>1, <1>3 DEF TablesWell
<1>6. TablesWell(g, mi, <<>>, o)
  BY <1>1, <1>2, <1>3, <1>4, <1>5 DEF TablesWell
<1> QED BY <1>6 DEF g
LEMMA TablesOwn ==
    ASSUME Talk \cap Nat = {},
           NEW f, NEW mi, NEW j, NEW n \in Nat, TablesWell(f, mi, j, n), NEW o \in Nat, o = n + 1,
           NEW ni, ni = mi \cup {o}
    PROVE  TablesWell(f, ni, j, o)
<1>1. Ids(n) \subseteq Ids(o) /\ 1..n \subseteq 1..o /\ o \in 1..o /\ o \notin Ids(n)
  BY DEF Ids
<1>2. j # <<>> => j \in Ids(o) \X {"tx", "end"} /\ j[1] \notin ni
  <2>1. j # <<>> => j \in Ids(n) \X {"tx", "end"} /\ j[1] \notin mi
    BY DEF TablesWell
  <2>2. j # <<>> => j[1] \in Ids(n)
    BY <2>1
  <2>3. Ids(n) \X {"tx", "end"} \subseteq Ids(o) \X {"tx", "end"}
    BY <1>1
  <2> QED BY <1>1, <2>1, <2>2, <2>3
<1> QED BY <1>1, <1>2 DEF TablesWell

\* The mirrors of a table that loses entries, or gains one.
LEMMA FollowedFewer ==
    ASSUME NEW f, NEW X, NEW d, NEW e, NEW n,
           d \subseteq e, e \subseteq 1..n, \A i \in X \cap DOMAIN f : f[i] \in e
    PROVE  Moved(Followed(f), d, {}, Followed(Dmr!Without(f, X)), e, n)
<1> DEFINE g == Dmr!Without(f, X)
<1>1. DOMAIN g = DOMAIN f \ X /\ \A i \in DOMAIN g : g[i] = f[i]
  BY DEF Dmr!Without
<1> HIDE DEF g
<1>2. Followed(g) \subseteq Followed(f) /\ Followed(f) \subseteq Followed(g) \cup e
  BY <1>1 DEF Followed
<1> QED BY <1>2 DEF Moved, g
LEMMA FollowedOne ==
    ASSUME NEW f, NEW id \in DOMAIN f, \A i, k \in DOMAIN f : f[i] = f[k] => i = k
    PROVE  Followed(Dmr!Without(f, {id})) = Followed(f) \ {f[id]} /\ f[id] \in Followed(f)
<1> DEFINE g == Dmr!Without(f, {id})
<1>1. DOMAIN g = DOMAIN f \ {id} /\ \A i \in DOMAIN g : g[i] = f[i]
  BY DEF Dmr!Without
<1> HIDE DEF g
<1>2. Followed(g) = Followed(f) \ {f[id]} /\ f[id] \in Followed(f)
  BY <1>1 DEF Followed
<1> QED BY <1>2 DEF g
LEMMA FollowedMore ==
    ASSUME NEW f, NEW id, NEW o, NEW d, NEW e, NEW n,
           d \subseteq e, e \subseteq 1..n, id \in DOMAIN f => f[id] \in e
    PROVE  Moved(Followed(f), d, {o}, Followed(Entered(f, id, o)), e, n)
<1> DEFINE g == Entered(f, id, o)
<1>1. /\ DOMAIN g = DOMAIN f \cup {id} /\ g[id] = o
      /\ \A i \in DOMAIN f : i # id => g[i] = f[i]
  BY DEF Entered
<1> HIDE DEF g
<1>2. Followed(g) \subseteq Followed(f) \cup {o} /\ {o} \subseteq Followed(g) /\ Followed(f) \subseteq Followed(g) \cup e
  BY <1>1 DEF Followed
<1> QED BY <1>2 DEF Moved, g

-----------------------------------------------------------------------------
(* The DMR bridge: its steps                                               *)

TypesInv ==
    /\ made \in Nat /\ broken \in BOOLEAN
    /\ talking \subseteq Talk
    /\ dropped \subseteq 1..made
    /\ mirrors = [s \in Dmr!Net |-> mirrors[s]] /\ DOMAIN inbox = Dmr!Net /\ DOMAIN outbox = Dmr!Net
    /\ DOMAIN job = Dmr!Net /\ DOMAIN calls = Dmr!Net /\ DOMAIN mine = Dmr!Net

InboxInv == \A s \in Dmr!Net : inbox[s] \in Seq(Messages(made))
TablesInv == \A s \in Dmr!Net : TablesWell(calls[s], mine[s], job[s], made)
PlaneInv ==
    \A s \in Dmr!Net :
        PlaneWell(outbox[s], mirrors[s], Followed(calls[Dmr!Far(s)]), dropped, made, broken)

DmrInv == TypesInv /\ InboxInv /\ TablesInv /\ PlaneInv

LEMMA OtherSide ==
    /\ \A s \in Dmr!Net : Dmr!Far(s) \in Dmr!Net /\ Dmr!Far(s) # s /\ Dmr!Far(Dmr!Far(s)) = s
    /\ \A s, t \in Dmr!Net : t = s \/ t = Dmr!Far(s)
BY DEF Dmr!Net, Dmr!Far

\* A radio is heard, or a mirror of the bridge itself.
LEMMA InboxMore ==
    ASSUME DmrInv, NEW s \in Dmr!Net, NEW m \in Messages(made),
           inbox' = [inbox EXCEPT ![s] = Append(@, m)], made' = made
    PROVE  InboxInv' /\ DOMAIN inbox' = Dmr!Net
<1>1. DOMAIN inbox = Dmr!Net /\ \A t \in Dmr!Net : inbox[t] \in Seq(Messages(made))
  BY DEF DmrInv, TypesInv, InboxInv
<1>2. \A t \in Dmr!Net : inbox'[t] \in Seq(Messages(made))
  BY <1>1
<1> QED BY <1>1, <1>2 DEF InboxInv

\* A radio begins, speaks or ends.
LEMMA TalkStep ==
    ASSUME DmrInv, Dmr!DmrConstants, NEW k \in Talk, Dmr!Key(k) \/ Dmr!Voice(k) \/ Dmr!Unkey(k)
    PROVE  DmrInv'
<1>1. /\ UNCHANGED <<mirrors, outbox, job, calls, mine, made, dropped, broken>>
      /\ talking' \subseteq Talk
  BY DEF Dmr!Key, Dmr!Voice, Dmr!Unkey, DmrInv, TypesInv
<1>2. PICK what \in {"tx", "voice", "end"} : inbox' = [inbox EXCEPT ![From[k]] = Append(@, <<k, what>>)]
  BY DEF Dmr!Key, Dmr!Voice, Dmr!Unkey, Dmr!Says
<1>3. From[k] \in Dmr!Net
  BY DEF Dmr!DmrConstants
<1>4. <<k, what>> \in Messages(made)
  BY DEF Messages, Ids
<1>5. InboxInv' /\ DOMAIN inbox' = Dmr!Net
  <2>1. PICK s, m : s = From[k] /\ m = <<k, what>>
    OBVIOUS
  <2>2. s \in Dmr!Net /\ m \in Messages(made) /\ inbox' = [inbox EXCEPT ![s] = Append(@, m)] /\ made' = made
    BY <1>1, <1>2, <1>3, <1>4, <2>1
  <2> QED BY <2>2, InboxMore
<1>6. TypesInv'
  BY <1>1, <1>5 DEF DmrInv, TypesInv
<1>7. TablesInv' /\ PlaneInv'
  BY <1>1 DEF DmrInv, TablesInv, PlaneInv
<1> QED BY <1>5, <1>6, <1>7 DEF DmrInv

\* The network acts on a command, and may send it back.
LEMMA ServeStep ==
    ASSUME DmrInv, NEW s \in Dmr!Net, Dmr!Serve(s)
    PROVE  DmrInv'
<1> DEFINE m == Head(outbox[s])
           after == IF m[2] = "tx" THEN mirrors[s] \cup {m[1]}
                    ELSE IF m[2] = "end" THEN mirrors[s] \ {m[1]} ELSE mirrors[s]
<1>1. /\ outbox[s] # <<>> /\ outbox' = [outbox EXCEPT ![s] = Tail(@)]
      /\ UNCHANGED <<talking, job, calls, mine, made, dropped, broken>>
  BY DEF Dmr!Serve
<1>2. made \in Nat /\ outbox[s] \in Seq(Commands(made))
  BY DEF DmrInv, TypesInv, PlaneInv, PlaneWell
<1>3. m \in Commands(made)
  BY <1>1, <1>2, Removed
<1>4. m[2] \in {"tx", "voice", "end"}
  BY <1>2, <1>3, CommandParts
<1>5. mirrors' = [mirrors EXCEPT ![s] = after]
  BY <1>4 DEF Dmr!Serve
<1>6. PlaneWell(Tail(outbox[s]), after, Followed(calls[Dmr!Far(s)]), dropped, made, broken)
  <2>1. broken \in BOOLEAN
    BY DEF DmrInv, TypesInv
  <2>2. PlaneWell(outbox[s], mirrors[s], Followed(calls[Dmr!Far(s)]), dropped, made, broken)
    BY DEF DmrInv, PlaneInv
  <2>3. PICK h, x : h = m /\ x = after
    OBVIOUS
  <2>4. x = IF h[2] = "tx" THEN mirrors[s] \cup {h[1]} ELSE IF h[2] = "end" THEN mirrors[s] \ {h[1]} ELSE mirrors[s]
    BY <2>3
  <2> HIDE DEF after
  <2>5. PlaneWell(Tail(outbox[s]), x, Followed(calls[Dmr!Far(s)]), dropped, made, broken)
    BY <1>1, <1>2, <2>1, <2>2, <2>3, <2>4, PlaneServe
  <2> QED BY <2>3, <2>5
<1> HIDE DEF after
<1>7. PlaneInv'
  BY <1>1, <1>5, <1>6 DEF DmrInv, TypesInv, PlaneInv
<1>8. InboxInv' /\ DOMAIN inbox' = Dmr!Net
  <2>1. CASE inbox' = [inbox EXCEPT ![s] = Append(@, m)]
    <3>1. m \in Messages(made)
      BY <1>3 DEF Commands, Messages, Ids
    <3> QED BY <1>1, <2>1, <3>1, InboxMore
  <2>2. CASE inbox' = inbox
    BY <1>1, <2>2 DEF DmrInv, TypesInv, InboxInv
  <2> QED BY <2>1, <2>2 DEF Dmr!Serve
<1> QED BY <1>1, <1>5, <1>7, <1>8 DEF DmrInv, TypesInv, TablesInv

\* The connection is lost and made again.
LEMMA FlapStep ==
    ASSUME DmrInv, NEW s \in Dmr!Net, Dmr!Flap(s)
    PROVE  DmrInv'
<1>1. /\ broken' = TRUE /\ mirrors' = [mirrors EXCEPT ![s] = {}] /\ inbox' = [inbox EXCEPT ![s] = <<>>]
      /\ UNCHANGED <<talking, job, calls, mine, made, dropped>>
  BY DEF Dmr!Flap
<1>2. PICK left : /\ left = outbox[s] \/ (outbox[s] # <<>> /\ left = Tail(outbox[s]))
                  /\ outbox' = [outbox EXCEPT ![s] = left]
  BY DEF Dmr!Flap
<1>3. made \in Nat /\ broken \in BOOLEAN
  BY DEF DmrInv, TypesInv
<1>4. PlaneWell(left, {}, Followed(calls[Dmr!Far(s)]), dropped, made, TRUE)
  BY <1>2, <1>3, PlaneLost DEF DmrInv, PlaneInv
<1>5. ASSUME NEW t \in Dmr!Net, t # s
      PROVE PlaneWell(outbox[t], mirrors[t], Followed(calls[Dmr!Far(t)]), dropped, made, TRUE)
  BY DEF DmrInv, PlaneInv, PlaneWell
<1>6. PlaneInv'
  BY <1>1, <1>2, <1>4, <1>5 DEF DmrInv, TypesInv, PlaneInv
<1>7. InboxInv' /\ DOMAIN inbox' = Dmr!Net
  <2>1. <<>> \in Seq(Messages(made))
    OBVIOUS
  <2> QED BY <1>1, <2>1 DEF DmrInv, TypesInv, InboxInv
<1> QED BY <1>1, <1>2, <1>6, <1>7 DEF DmrInv, TypesInv, TablesInv

\* The first half of handleCall, and handleFrame.
LEMMA CheckStep ==
    ASSUME DmrInv, NEW s \in Dmr!Net, Dmr!Check(s)
    PROVE  DmrInv'
<1> DEFINE m == Head(inbox[s])
           far == Dmr!Far(s)
<1>1. /\ inbox[s] # <<>> /\ inbox' = [inbox EXCEPT ![s] = Tail(@)] /\ job[s] = <<>>
      /\ UNCHANGED <<talking, mirrors, calls, mine, made, dropped, broken>>
  BY DEF Dmr!Check, Dmr!NoJob
<1>2. made \in Nat /\ broken \in BOOLEAN /\ far \in Dmr!Net /\ Dmr!Far(far) = s /\ inbox[s] \in Seq(Messages(made))
  BY OtherSide DEF DmrInv, TypesInv, InboxInv
<1>3. m \in Messages(made) /\ Tail(inbox[s]) \in Seq(Messages(made))
  BY <1>1, <1>2, Removed
<1>4. InboxInv' /\ DOMAIN inbox' = Dmr!Net
  BY <1>1, <1>3 DEF DmrInv, TypesInv, InboxInv
<1>5. DOMAIN job' = Dmr!Net /\ TablesInv'
  <2>1. CASE m[1] \in mine[s] \/ m[2] = "voice"
    <3>1. UNCHANGED job
      BY <2>1 DEF Dmr!Check, Dmr!IsMine
    <3> QED BY <1>1, <3>1 DEF DmrInv, TypesInv, TablesInv
  <2>2. CASE m[1] \notin mine[s] /\ m[2] # "voice"
    <3>1. job' = [job EXCEPT ![s] = m]
      BY <2>2 DEF Dmr!Check, Dmr!IsMine
    <3>2. m \in Ids(made) \X {"tx", "end"}
      BY <1>3, <2>2 DEF Messages
    <3>3. TablesWell(calls[s], mine[s], m, made)
      BY <2>2, <3>2 DEF DmrInv, TablesInv, TablesWell
    <3> QED BY <1>1, <3>1, <3>3 DEF DmrInv, TypesInv, TablesInv
  <2> QED BY <2>1, <2>2
<1>6. DOMAIN outbox' = Dmr!Net /\ PlaneInv'
  <2>1. CASE UNCHANGED outbox
    BY <1>1, <2>1 DEF DmrInv, TypesInv, PlaneInv
  <2>2. CASE m[1] \in DOMAIN calls[s] /\ outbox' = [outbox EXCEPT ![far] = Append(@, <<calls[s][m[1]], "voice">>)]
    <3>1. PICK k : k = calls[s][m[1]]
      OBVIOUS
    <3>2. k \in Followed(calls[s])
      BY <2>2, <3>1 DEF Followed
    <3>3. PlaneWell(outbox[far], mirrors[far], Followed(calls[s]), dropped, made, broken)
      BY <1>2 DEF DmrInv, PlaneInv
    <3> HIDE DEF m
    <3>4. PlaneWell(Append(outbox[far], <<k, "voice">>), mirrors[far], Followed(calls[s]), dropped, made, broken)
      BY <1>2, <3>2, <3>3, PlaneVoice
    <3> HIDE DEF far
    <3>5. outbox'[far] = Append(outbox[far], <<k, "voice">>) /\ \A t \in Dmr!Net : t # far => outbox'[t] = outbox[t]
      BY <1>2, <2>2, <3>1 DEF DmrInv, TypesInv
    <3>6. ASSUME NEW t \in Dmr!Net
          PROVE PlaneWell(outbox'[t], mirrors[t], Followed(calls[Dmr!Far(t)]), dropped, made, broken)
      <4>1. CASE t = far
        BY <1>2, <3>4, <3>5, <4>1
      <4>2. CASE t # far
        BY <3>5, <4>2 DEF DmrInv, PlaneInv
      <4> QED BY <4>1, <4>2
    <3> QED BY <1>1, <2>2, <3>6 DEF DmrInv, TypesInv, PlaneInv
  <2> QED BY <2>1, <2>2 DEF Dmr!Check, Dmr!Send
<1> QED BY <1>1, <1>4, <1>5, <1>6 DEF DmrInv, TypesInv

\* A command of a radio that the bridge does not act on.
LEMMA JobDone ==
    ASSUME DmrInv, NEW s \in Dmr!Net, job' = [job EXCEPT ![s] = <<>>],
           UNCHANGED <<talking, mirrors, inbox, outbox, calls, mine, made, dropped, broken>>
    PROVE  DmrInv'
<1>1. TablesWell(calls[s], mine[s], <<>>, made)
  BY TablesDone DEF DmrInv, TablesInv
<1>2. TablesInv'
  BY <1>1 DEF DmrInv, TypesInv, TablesInv
<1> QED BY <1>2 DEF DmrInv, TypesInv, InboxInv, PlaneInv

\* A call begins on one network, and its mirror on the other.
LEMMA StartStep ==
    ASSUME DmrInv, Dmr!DmrConstants, NEW s \in Dmr!Net, Dmr!Start(s)
    PROVE  DmrInv'
<1> DEFINE id == job[s][1]
           far == Dmr!Far(s)
<1>1. /\ job[s] # <<>> /\ job' = [job EXCEPT ![s] = <<>>]
      /\ UNCHANGED <<talking, mirrors, inbox, broken>>
  BY DEF Dmr!Start, Dmr!NoJob
<1>2. CASE UNCHANGED <<made, calls, mine, dropped, outbox>>
  BY <1>1, <1>2, JobDone
<1>3. CASE Dmr!Gate(s, id)
  <2>1. PICK o : o = made + 1
    OBVIOUS
  <2>2. PICK g : g = Entered(calls[s], id, o)
    OBVIOUS
  <2>3. /\ made' = o
        /\ calls' = [calls EXCEPT ![s] = g]
        /\ mine' = [mine EXCEPT ![far] = @ \cup {o}]
        /\ dropped' = IF id \in DOMAIN calls[s] THEN dropped \cup {calls[s][id]} ELSE dropped
        /\ outbox' = [outbox EXCEPT ![far] = Append(@, <<o, "tx">>)]
    BY <1>3, <2>1, <2>2 DEF Dmr!Start, Dmr!Send, Entered
  <2>4. /\ made \in Nat /\ o \in Nat /\ made <= o /\ o = made + 1 /\ broken \in BOOLEAN
        /\ far \in Dmr!Net /\ far # s /\ Dmr!Far(far) = s /\ Talk \cap Nat = {}
        /\ \A t \in Dmr!Net : t = s \/ t = far
    BY <2>1, OtherSide DEF DmrInv, TypesInv, Dmr!DmrConstants
  <2> HIDE DEF far
  <2>5. TablesWell(calls[s], mine[s], job[s], made) /\ TablesWell(calls[far], mine[far], job[far], made)
    BY <2>4 DEF DmrInv, TablesInv
  <2>6. TablesWell(g, mine[s], <<>>, o)
    BY <1>1, <2>2, <2>4, <2>5, TablesStart
  <2>7. TablesWell(calls[far], mine[far] \cup {o}, job[far], o)
    BY <2>4, <2>5, TablesOwn
  <2> HIDE DEF id
  <2>8. /\ calls'[s] = g /\ calls'[far] = calls[far]
        /\ mine'[s] = mine[s] /\ mine'[far] = mine[far] \cup {o}
        /\ job'[s] = <<>> /\ job'[far] = job[far]
        /\ outbox'[s] = outbox[s] /\ outbox'[far] = Append(outbox[far], <<o, "tx">>)
    BY <1>1, <2>3, <2>4 DEF DmrInv, TypesInv
  <2>9. TablesInv'
    BY <2>3, <2>4, <2>6, <2>7, <2>8 DEF TablesInv
  <2>10. InboxInv'
    BY <1>1, <2>3, <2>4, MessagesGrow DEF DmrInv, InboxInv
  <2>11. dropped \subseteq dropped' /\ dropped' \subseteq 1..o
    <3>1. dropped \subseteq 1..made /\ 1..made \subseteq 1..o
      BY <2>4 DEF DmrInv, TypesInv
    <3>2. \A i \in DOMAIN calls[s] : calls[s][i] \in 1..made
      BY <2>5 DEF TablesWell
    <3> QED BY <2>3, <3>1, <3>2
  <2>12. PlaneWell(outbox[s], mirrors[s], Followed(calls[far]), dropped, made, broken)
         /\ PlaneWell(outbox[far], mirrors[far], Followed(calls[s]), dropped, made, broken)
    BY <2>4 DEF DmrInv, PlaneInv, far
  <2>13. PICK e : e = dropped'
    OBVIOUS
  <2>14. PlaneWell(outbox[s], mirrors[s], Followed(calls[far]), e, o, broken)
    <3>1. PICK r : r = Followed(calls[far])
      OBVIOUS
    <3>2. Moved(r, dropped, {}, r, e, o)
      BY <2>11, <2>13 DEF Moved
    <3> QED BY <2>4, <2>12, <3>1, <3>2, PlaneKept
  <2>15. PlaneWell(Append(outbox[far], <<o, "tx">>), mirrors[far], Followed(g), e, o, broken)
    <3>1. PICK f : f = calls[s]
      OBVIOUS
    <3>2. id \in DOMAIN f => f[id] \in e
      BY <2>3, <2>13, <3>1
    <3>3. Moved(Followed(f), dropped, {o}, Followed(Entered(f, id, o)), e, o)
      BY <2>11, <2>13, <3>2, FollowedMore
    <3>4. Moved(Followed(calls[s]), dropped, {o}, Followed(g), e, o)
      BY <2>2, <3>1, <3>3
    <3> QED BY <2>4, <2>12, <3>4, PlaneStart
  <2>16. PlaneInv'
    <3>1. ASSUME NEW t \in Dmr!Net
          PROVE PlaneWell(outbox'[t], mirrors[t], Followed(calls'[Dmr!Far(t)]), e, o, broken)
      <4>1. CASE t = s
        BY <2>8, <2>14, <4>1 DEF far
      <4>2. CASE t = far
        BY <2>4, <2>8, <2>15, <4>2
      <4> QED BY <2>4, <4>1, <4>2
    <3> QED BY <1>1, <2>3, <2>13, <3>1 DEF PlaneInv
  <2>17. TypesInv'
    BY <1>1, <2>3, <2>4, <2>11 DEF DmrInv, TypesInv
  <2> QED BY <2>9, <2>10, <2>16, <2>17 DEF DmrInv
<1> QED BY <1>2, <1>3 DEF Dmr!Start

\* A call ends, and its mirror is released.
LEMMA EndStep ==
    ASSUME DmrInv, NEW s \in Dmr!Net, Dmr!End(s)
    PROVE  DmrInv'
<1> DEFINE id == job[s][1]
           far == Dmr!Far(s)
<1>1. /\ job[s] # <<>> /\ job' = [job EXCEPT ![s] = <<>>]
      /\ UNCHANGED <<talking, mirrors, inbox, made, dropped, broken>>
  BY DEF Dmr!End, Dmr!NoJob
<1>2. CASE UNCHANGED <<calls, mine, outbox>>
  BY <1>1, <1>2, JobDone
<1>3. CASE id \in DOMAIN calls[s]
  <2>1. PICK m, g : m = calls[s][id] /\ g = Dmr!Without(calls[s], {id})
    OBVIOUS
  <2>2. /\ calls' = [calls EXCEPT ![s] = g]
        /\ mine' = [mine EXCEPT ![far] = @ \ {m}]
        /\ outbox' = [outbox EXCEPT ![far] = Append(@, <<m, "end">>)]
    BY <1>3, <2>1 DEF Dmr!End, Dmr!Send
  <2>3. /\ made \in Nat /\ broken \in BOOLEAN
        /\ far \in Dmr!Net /\ far # s /\ Dmr!Far(far) = s
        /\ \A t \in Dmr!Net : t = s \/ t = far
    BY OtherSide DEF DmrInv, TypesInv
  <2> HIDE DEF far, id
  <2>4. TablesWell(calls[s], mine[s], job[s], made) /\ TablesWell(calls[far], mine[far], job[far], made)
    BY <2>3 DEF DmrInv, TablesInv
  <2>5. TablesWell(g, mine[s], <<>>, made)
    BY <2>1, <2>4, TablesFewer, TablesDone
  <2>6. TablesWell(calls[far], mine[far] \ {m}, job[far], made)
    BY <2>4 DEF TablesWell
  <2>7. /\ calls'[s] = g /\ calls'[far] = calls[far]
        /\ mine'[s] = mine[s] /\ mine'[far] = mine[far] \ {m}
        /\ job'[s] = <<>> /\ job'[far] = job[far]
        /\ outbox'[s] = outbox[s] /\ outbox'[far] = Append(outbox[far], <<m, "end">>)
    BY <1>1, <2>2, <2>3 DEF DmrInv, TypesInv
  <2>8. TablesInv'
    BY <1>1, <2>3, <2>5, <2>6, <2>7 DEF TablesInv
  <2>9. PlaneWell(outbox[s], mirrors[s], Followed(calls[far]), dropped, made, broken)
        /\ PlaneWell(outbox[far], mirrors[far], Followed(calls[s]), dropped, made, broken)
    BY <2>3 DEF DmrInv, PlaneInv, far
  <2>10. PlaneWell(Append(outbox[far], <<m, "end">>), mirrors[far], Followed(g), dropped, made, broken)
    <3>1. \A i, k \in DOMAIN calls[s] : calls[s][i] = calls[s][k] => i = k
      BY <2>4 DEF TablesWell
    <3>2. Followed(g) = Followed(calls[s]) \ {m} /\ m \in Followed(calls[s])
      BY <1>3, <2>1, <3>1, FollowedOne
    <3> QED BY <2>3, <2>9, <3>2, PlaneEnd
  <2>11. PlaneInv'
    <3>1. ASSUME NEW t \in Dmr!Net
          PROVE PlaneWell(outbox'[t], mirrors[t], Followed(calls'[Dmr!Far(t)]), dropped, made, broken)
      <4>1. CASE t = s
        BY <2>7, <2>9, <4>1 DEF far
      <4>2. CASE t = far
        BY <2>3, <2>7, <2>10, <4>2
      <4> QED BY <2>3, <4>1, <4>2
    <3> QED BY <1>1, <3>1 DEF PlaneInv
  <2>12. TypesInv' /\ InboxInv'
    BY <1>1, <2>2 DEF DmrInv, TypesInv, InboxInv
  <2> QED BY <2>8, <2>11, <2>12 DEF DmrInv
<1> QED BY <1>2, <1>3 DEF Dmr!End

\* Old entries go from both tables.
LEMMA SweepStep ==
    ASSUME DmrInv, Dmr!Sweep
    PROVE  DmrInv'
<1> DEFINE Old == {o \in Dmr!Net \X Dmr!Id : o[2] \in DOMAIN calls[o[1]]}
<1>1. PICK old \in SUBSET Old :
         /\ calls' = [s \in Dmr!Net |->
                         Dmr!Without(calls[s], {o[2] : o \in {p \in old : p[1] = s}})]
         /\ mine' = [s \in Dmr!Net |->
                         mine[s] \ {calls[o[1]][o[2]] : o \in {p \in old : p[1] = Dmr!Far(s)}}]
         /\ dropped' = dropped \cup {calls[o[1]][o[2]] : o \in old}
         /\ UNCHANGED <<talking, mirrors, inbox, outbox, job, made, broken>>
  BY DEF Dmr!Sweep
<1>2. \A o \in old : o[1] \in Dmr!Net /\ o[2] \in DOMAIN calls[o[1]]
  OBVIOUS
<1> HIDE DEF Old
<1>3. PICK X : X = [s \in Dmr!Net |-> {o[2] : o \in {p \in old : p[1] = s}}]
  OBVIOUS
<1>4. PICK Y : Y = [s \in Dmr!Net |-> {calls[o[1]][o[2]] : o \in {p \in old : p[1] = Dmr!Far(s)}}]
  OBVIOUS
<1>5. ASSUME NEW s \in Dmr!Net
      PROVE /\ calls'[s] = Dmr!Without(calls[s], X[s])
            /\ mine'[s] = mine[s] \ Y[s]
            /\ \A i \in X[s] : calls[s][i] \in dropped'
  <2>1. calls'[s] = Dmr!Without(calls[s], X[s]) /\ mine'[s] = mine[s] \ Y[s]
    BY <1>1, <1>3, <1>4
  <2>2. \A i \in X[s] : calls[s][i] \in dropped'
    BY <1>1, <1>3
  <2> QED BY <2>1, <2>2
<1>6. /\ made \in Nat /\ broken \in BOOLEAN
      /\ \A s \in Dmr!Net : TablesWell(calls[s], mine[s], job[s], made)
  BY DEF DmrInv, TypesInv, TablesInv
<1>7. dropped' \subseteq 1..made /\ dropped \subseteq dropped'
  <2>1. \A o \in old : calls[o[1]][o[2]] \in 1..made
    BY <1>2, <1>6 DEF TablesWell
  <2> QED BY <1>1, <2>1 DEF DmrInv, TypesInv
<1>8. TypesInv' /\ InboxInv'
  BY <1>1, <1>7 DEF DmrInv, TypesInv, InboxInv
<1>9. TablesInv'
  <2>1. ASSUME NEW s \in Dmr!Net
        PROVE TablesWell(calls'[s], mine'[s], job[s], made)
    <3>1. TablesWell(calls'[s], mine[s], job[s], made)
      BY <1>5, <1>6, TablesFewer
    <3>2. mine'[s] \subseteq mine[s]
      BY <1>5
    <3> QED BY <3>1, <3>2 DEF TablesWell
  <2> QED BY <1>1, <2>1 DEF TablesInv
<1>10. PlaneInv'
  <2>1. ASSUME NEW s \in Dmr!Net
        PROVE PlaneWell(outbox[s], mirrors[s], Followed(calls'[Dmr!Far(s)]), dropped', made, broken)
    <3>1. PICK f, g, e, far : /\ far = Dmr!Far(s) /\ far \in Dmr!Net
                              /\ f = calls[far] /\ g = calls'[far] /\ e = dropped'
      BY OtherSide
    <3>2. g = Dmr!Without(f, X[far]) /\ \A i \in X[far] \cap DOMAIN f : f[i] \in e
      BY <1>5, <3>1
    <3>3. dropped \subseteq e /\ e \subseteq 1..made
      BY <1>7, <3>1
    <3>4. Moved(Followed(f), dropped, {}, Followed(g), e, made)
      BY <3>2, <3>3, FollowedFewer
    <3>5. PlaneWell(outbox[s], mirrors[s], Followed(f), dropped, made, broken)
      BY <3>1 DEF DmrInv, PlaneInv
    <3>6. made <= made
      BY <1>6
    <3>7. PlaneWell(outbox[s], mirrors[s], Followed(g), e, made, broken)
      BY <1>6, <3>4, <3>5, <3>6, PlaneKept
    <3> QED BY <3>1, <3>7
  <2> QED BY <1>1, <2>1 DEF PlaneInv
<1> QED BY <1>8, <1>9, <1>10 DEF DmrInv

\* The theorem: what is repeated on the other network ends with its original, is not
\* repeated back, and is heard within its call, for any number of calls and whichever
\* networks echo.
THEOREM MirrorsAlwaysSound ==
    ASSUME Dmr!DmrConstants
    PROVE  Dmr!Spec => []MirrorsSound
<1>1. Dmr!Init => DmrInv
  <2> SUFFICES ASSUME Dmr!Init PROVE DmrInv
    OBVIOUS
  <2> USE DEF Dmr!Init
  <2>1. TypesInv
    BY DEF TypesInv
  <2>2. \A s \in Dmr!Net : /\ inbox[s] = <<>> /\ outbox[s] = <<>> /\ mirrors[s] = {}
                           /\ calls[s] = <<>> /\ mine[s] = {} /\ job[s] = <<>>
    BY DEF Dmr!NoJob
  <2>3. InboxInv
    <3>1. <<>> \in Seq(Messages(made))
      OBVIOUS
    <3> QED BY <2>2, <3>1 DEF InboxInv
  <2>4. TablesInv
    <3>1. TablesWell(<<>>, {}, <<>>, made)
      BY DEF TablesWell
    <3> QED BY <2>2, <3>1 DEF TablesInv
  <2>5. PlaneInv
    <3>1. Followed(<<>>) = {}
      BY DEF Followed
    <3>2. PlaneWell(<<>>, {}, {}, {}, made, broken)
      BY DEF PlaneWell, TxBacked, AirBacked, VoiceIn, CallIn
    <3>3. dropped = {} /\ \A s \in Dmr!Net : Followed(calls[Dmr!Far(s)]) = {}
      BY <2>2, <3>1, OtherSide
    <3> QED BY <2>2, <3>2, <3>3 DEF PlaneInv
  <2> QED BY <2>1, <2>3, <2>4, <2>5 DEF DmrInv
<1>2. DmrInv /\ [Dmr!Next]_(Dmr!vars) => DmrInv'
  <2> SUFFICES ASSUME DmrInv, [Dmr!Next]_(Dmr!vars) PROVE DmrInv'
    OBVIOUS
  <2>1. ASSUME NEW k \in Talk, Dmr!Key(k) \/ Dmr!Voice(k) \/ Dmr!Unkey(k) PROVE DmrInv'
    BY <2>1, TalkStep
  <2>2. ASSUME NEW s \in Dmr!Net, Dmr!Serve(s) PROVE DmrInv'
    BY <2>2, ServeStep
  <2>3. ASSUME NEW s \in Dmr!Net, Dmr!Flap(s) PROVE DmrInv'
    BY <2>3, FlapStep
  <2>4. ASSUME NEW s \in Dmr!Net, Dmr!ReadLoop(s) PROVE DmrInv'
    BY <2>4, CheckStep, StartStep, EndStep DEF Dmr!ReadLoop
  <2>5. CASE Dmr!Sweep
    BY <2>5, SweepStep
  <2>6. CASE UNCHANGED Dmr!vars
    BY <2>6 DEF Dmr!vars, DmrInv, TypesInv, InboxInv, TablesInv, PlaneInv
  <2> QED BY <2>1, <2>2, <2>3, <2>4, <2>5, <2>6 DEF Dmr!Next
<1>3. DmrInv => MirrorsSound
  <2> SUFFICES ASSUME DmrInv PROVE MirrorsSound
    OBVIOUS
  <2>1. \A s \in Dmr!Net : PlaneWell(outbox[s], mirrors[s], Followed(calls[Dmr!Far(s)]), dropped, made, broken)
    BY DEF DmrInv, PlaneInv
  <2>2. Dmr!TypeOK
    <3>1. \A s \in Dmr!Net : mirrors[s] \in SUBSET (1..made) /\ outbox[s] \in Seq((1..made) \X {"tx", "voice", "end"})
      BY <2>1 DEF PlaneWell, Commands
    <3>2. mirrors \in [Dmr!Net -> SUBSET (1..made)]
      <4>1. mirrors = [s \in Dmr!Net |-> mirrors[s]]
        BY DEF DmrInv, TypesInv
      <4> QED BY <3>1, <4>1
    <3>3. talking \subseteq Talk /\ dropped \subseteq 1..made
      BY DEF DmrInv, TypesInv
    <3>4. \A s \in Dmr!Net : inbox[s] \in Seq(Dmr!Id \X {"tx", "voice", "end"})
      BY DEF DmrInv, InboxInv, Messages, Ids, Dmr!Id
    <3>5. \A s \in Dmr!Net : /\ job[s] = Dmr!NoJob \/ job[s] \in Dmr!Id \X {"tx", "end"}
                             /\ DOMAIN calls[s] \subseteq Dmr!Id /\ mine[s] \subseteq 1..made
      BY DEF DmrInv, TablesInv, TablesWell, Ids, Dmr!Id, Dmr!NoJob
    <3> QED BY <3>1, <3>2, <3>3, <3>4, <3>5 DEF Dmr!TypeOK
  <2>3. Dmr!MirrorBacked
    <3>1. ASSUME NEW s \in Dmr!Net, NEW m \in mirrors[s] \ dropped
          PROVE \/ \E id \in DOMAIN calls[Dmr!Far(s)] : calls[Dmr!Far(s)][id] = m
                \/ \E i \in 1..Len(outbox[s]) : outbox[s][i] = <<m, "end">>
      <4>1. m \in Followed(calls[Dmr!Far(s)]) \/ Ended(outbox[s], m, 0)
        BY <2>1 DEF PlaneWell, AirBacked
      <4>2. DOMAIN outbox[s] = 1..Len(outbox[s])
        BY <2>1 DEF PlaneWell
      <4> QED BY <4>1, <4>2 DEF Followed, Ended
    <3> QED BY <3>1 DEF Dmr!MirrorBacked, Dmr!Contains
  <2>4. Dmr!NotReflected
    BY DEF DmrInv, TablesInv, TablesWell, Dmr!NotReflected
  <2>5. Dmr!VoiceInCall
    <3>1. ASSUME NEW s \in Dmr!Net, outbox[s] # <<>>, Head(outbox[s])[2] = "voice", ~broken
          PROVE Head(outbox[s])[1] \in mirrors[s]
      <4>1. outbox[s] \in Seq(Commands(made)) /\ VoiceIn(outbox[s], mirrors[s])
        BY <2>1, <3>1 DEF PlaneWell
      <4>2. 1 \in DOMAIN outbox[s] /\ Head(outbox[s]) = outbox[s][1]
            /\ \A j \in DOMAIN outbox[s] : j \in Nat /\ 0 < j
        BY <3>1, <4>1, Removed
      <4>3. ~Begun(outbox[s], Head(outbox[s])[1], 1)
        BY <4>2 DEF Begun
      <4> QED BY <3>1, <4>1, <4>2, <4>3 DEF VoiceIn
    <3> QED BY <3>1 DEF Dmr!VoiceInCall
  <2> QED BY <2>2, <2>3, <2>4, <2>5 DEF MirrorsSound, Dmr!MirrorsSound
<1> QED BY <1>1, <1>2, <1>3, PTL DEF Dmr!Spec
=============================================================================
