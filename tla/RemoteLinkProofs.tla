-------------------------- MODULE RemoteLinkProofs --------------------------
(* Proofs about RemoteLink for any limit of the spool and any number of    *)
(* sockets, handshakes, sessions, lines and restarts.                      *)
EXTENDS RemoteLink, SequenceTheorems, TLAPS

(* The spool holds the last lines of the session, and all from base on.    *)
Retained(sp, k) ==
  /\ \A i \in 1 .. Len(sp.entries) : sp.entries[i] = k - Len(sp.entries) + i
  /\ IF sp.broken THEN Len(sp.entries) = 0 ELSE k - Len(sp.entries) < sp.base

Spool == [entries : Seq(Nat), base : Nat, broken : BOOLEAN]

(* A session emits nothing before it is started.                           *)
Sessions ==
  /\ app <= started
  /\ \A s \in Session : s > started => emitted[s] = 0
  /\ app # 0 => Retained(spool, emitted[app])

IInv == TypeOK /\ Sessions

(***************************************************************************)
(* The spool.                                                              *)
(***************************************************************************)
(* In a run of consecutive numbers the loops stop at one place.            *)
LEMMA PassedFacts ==
  ASSUME NEW entries \in Seq(Nat), NEW k \in Nat, NEW seq \in Nat,
         \A i \in 1 .. Len(entries) : entries[i] = k - Len(entries) + i
  PROVE  LET p == Passed(entries, seq) IN
         /\ p \in 0 .. Len(entries)
         /\ \A j \in 1 .. p : entries[j] <= seq
         /\ p < Len(entries) => entries[p + 1] > seq
<1> DEFINE L == Len(entries)
           P(i) == /\ \A j \in 1 .. i : entries[j] <= seq
                   /\ i < L => entries[i + 1] > seq
<1>1. L \in Nat
  OBVIOUS
<1>2. \A j \in 1 .. L : entries[j] \in Nat /\ entries[j] = k - L + j
  OBVIOUS
<1> HIDE DEF L
<1>3. \E i \in 0 .. L : P(i)
  <2>1. CASE seq <= k - L
    <3>1. P(0)
      BY <1>1, <1>2, <2>1
    <3> HIDE DEF P
    <3> QED
      BY <1>1, <3>1
  <2>2. CASE seq >= k
    <3>1. P(L)
      BY <1>1, <1>2, <2>2
    <3> HIDE DEF P
    <3> QED
      BY <1>1, <3>1
  <2>3. CASE k - L < seq /\ seq < k
    <3> DEFINE q == seq - (k - L)
    <3>1. q \in 1 .. L - 1
      BY <1>1, <2>3
    <3>2. P(q)
      BY <1>1, <1>2, <3>1
    <3> HIDE DEF P
    <3> QED
      BY <1>1, <3>1, <3>2
  <2> QED
    BY <1>1, <2>1, <2>2, <2>3
<1>4. Passed(entries, seq) = CHOOSE i \in 0 .. L : P(i)
  BY DEF Passed, L
<1>5. Passed(entries, seq) \in 0 .. L /\ P(Passed(entries, seq))
  BY <1>3, <1>4
<1> QED
  BY <1>5 DEF L

(* The lines of a spool after sequence seq: a suffix that starts right after it. *)
LEMMA AfterFacts ==
  ASSUME NEW entries \in Seq(Nat), NEW k \in Nat, NEW seq \in Nat,
         \A i \in 1 .. Len(entries) : entries[i] = k - Len(entries) + i
  PROVE  LET p == Passed(entries, seq)
             rest == After(entries, seq) IN
         /\ p \in 0 .. Len(entries)
         /\ p > 0 => k - Len(entries) + p <= seq
         /\ p < Len(entries) => k - Len(entries) + p + 1 > seq
         /\ rest \in Seq(Nat)
         /\ Len(rest) = Len(entries) - p
         /\ \A i \in 1 .. Len(rest) : rest[i] = k - Len(rest) + i
<1> DEFINE p == Passed(entries, seq)
           rest == After(entries, seq)
           L == Len(entries)
<1>1. L \in Nat
  OBVIOUS
<1>2. /\ p \in 0 .. L
      /\ \A j \in 1 .. p : entries[j] <= seq
      /\ p < L => entries[p + 1] > seq
  BY PassedFacts
<1> HIDE DEF p
<1>3. rest = SubSeq(entries, p + 1, L)
  BY DEF After, p
<1>4. /\ rest \in Seq(Nat)
      /\ Len(rest) = IF p + 1 <= L THEN L - (p + 1) + 1 ELSE 0
      /\ \A i \in 1 .. L - (p + 1) + 1 : rest[i] = entries[p + 1 + i - 1]
  <2>1. p + 1 \in 1 .. L + 1 /\ L \in p + 1 - 1 .. L
    BY <1>1, <1>2
  <2> QED
    BY SMTT(30), <1>1, <1>2, <1>3, <2>1, SubSeqProperties
<1>5. Len(rest) = L - p
  BY <1>1, <1>2, <1>4
<1>6. \A i \in 1 .. Len(rest) : rest[i] = k - Len(rest) + i
  <2> TAKE i \in 1 .. Len(rest)
  <2>1. p + i \in 1 .. L /\ rest[i] = entries[p + i]
    BY <1>1, <1>2, <1>4, <1>5
  <2>2. entries[p + i] = k - L + (p + i)
    BY <2>1
  <2> HIDE DEF rest, L
  <2> QED
    BY <1>1, <1>2, <1>5, <2>1, <2>2
<1>7. (p > 0 => k - L + p <= seq) /\ (p < L => k - L + p + 1 > seq)
  <2>1. p > 0 => entries[p] = k - L + p /\ entries[p] <= seq
    BY <1>1, <1>2
  <2>2. p < L => entries[p + 1] = k - L + (p + 1) /\ entries[p + 1] > seq
    BY <1>1, <1>2
  <2> QED
    BY <1>1, <1>2, <2>1, <2>2
<1> QED
  BY <1>2, <1>4, <1>5, <1>6, <1>7 DEF p

(* A line more.                                                            *)
LEMMA KeptFacts ==
  ASSUME NEW sp \in Spool, NEW k \in Nat, Retained(sp, k)
  PROVE  Kept(sp, k + 1) \in Spool /\ Retained(Kept(sp, k + 1), k + 1)
<1> DEFINE e == sp.entries
           new == Kept(sp, k + 1)
<1>1. /\ e \in Seq(Nat) /\ sp.base \in Nat /\ sp.broken \in BOOLEAN /\ Len(e) \in Nat
      /\ sp = [entries |-> e, base |-> sp.base, broken |-> sp.broken]
  BY DEF Spool
<1>2. /\ \A i \in 1 .. Len(e) : e[i] = k - Len(e) + i
      /\ IF sp.broken THEN Len(e) = 0 ELSE k - Len(e) < sp.base
  BY DEF Retained
<1>3. CASE sp.broken
  <2>1. new = sp
    BY <1>3 DEF Kept
  <2> HIDE DEF new, e
  <2> QED
    BY <1>1, <1>2, <1>3, <2>1 DEF Retained, new, e
<1>4. CASE ~sp.broken /\ Len(e) >= SpoolLimit
  <2>1. new = [entries |-> <<>>, base |-> sp.base, broken |-> TRUE]
    BY <1>1, <1>4 DEF Kept
  <2> HIDE DEF new, e
  <2>2. new \in Spool /\ new.entries = <<>> /\ new.broken
    BY <1>1, <2>1 DEF Spool
  <2> QED
    BY <2>2 DEF Retained, new
<1>5. CASE ~sp.broken /\ ~(Len(e) >= SpoolLimit)
  <2>1. new = [entries |-> Append(e, k + 1), base |-> sp.base, broken |-> FALSE]
    BY <1>1, <1>5 DEF Kept
  <2> DEFINE f == Append(e, k + 1)
  <2>2. new \in Spool /\ new.entries = f /\ new.base = sp.base /\ ~new.broken
    <3>1. f \in Seq(Nat)
      BY <1>1
    <3> HIDE DEF new, e, f
    <3> QED
      BY <1>1, <2>1, <3>1 DEF Spool, f
  <2>3. Len(f) = Len(e) + 1 /\ f[Len(e) + 1] = k + 1 /\ \A i \in 1 .. Len(e) : f[i] = e[i]
    BY <1>1
  <2> HIDE DEF e, f
  <2>4. \A i \in 1 .. Len(f) : f[i] = (k + 1) - Len(f) + i
    <3> TAKE i \in 1 .. Len(f)
    <3>1. CASE i = Len(e) + 1
      BY <1>1, <2>3, <3>1
    <3>2. CASE i \in 1 .. Len(e)
      BY <1>1, <1>2, <2>3, <3>2
    <3> QED
      BY <1>1, <2>3, <3>1, <3>2
  <2>5. (k + 1) - Len(f) < sp.base
    BY <1>1, <1>2, <1>5, <2>3
  <2> HIDE DEF new
  <2>6. Retained(new, k + 1)
    BY <2>2, <2>4, <2>5 DEF Retained
  <2> QED
    BY <2>2, <2>6 DEF new
<1> QED
  BY <1>3, <1>4, <1>5

(* An ack, of any line.                                                    *)
LEMMA AckFacts ==
  ASSUME NEW sp \in Spool, NEW k \in Nat, NEW seq \in Nat, Retained(sp, k)
  PROVE  AckTo(sp, seq) \in Spool /\ Retained(AckTo(sp, seq), k)
<1> DEFINE e == sp.entries
           p == Passed(e, seq)
           rest == After(e, seq)
           new == AckTo(sp, seq)
<1>1. e \in Seq(Nat) /\ sp.base \in Nat /\ sp.broken \in BOOLEAN /\ Len(e) \in Nat
  BY DEF Spool
<1>2. \A i \in 1 .. Len(e) : e[i] = k - Len(e) + i
  BY DEF Retained
<1>3. /\ p \in 0 .. Len(e)
      /\ p > 0 => k - Len(e) + p <= seq
      /\ rest \in Seq(Nat)
      /\ Len(rest) = Len(e) - p
      /\ \A i \in 1 .. Len(rest) : rest[i] = k - Len(rest) + i
  BY <1>1, <1>2, AfterFacts
<1>4. sp = [entries |-> e, base |-> sp.base, broken |-> sp.broken]
  BY DEF Spool
<1> DEFINE b == IF seq + 1 > sp.base THEN seq + 1 ELSE sp.base
<1>5. new = [entries |-> rest, base |-> b, broken |-> sp.broken]
  <2>1. new = [[sp EXCEPT !.entries = rest] EXCEPT !.base = b]
    BY DEF AckTo
  <2> HIDE DEF rest, b, new, e
  <2> QED
    BY <1>4, <2>1
<1>6. IF sp.broken THEN Len(e) = 0 ELSE k - Len(e) < sp.base
  BY DEF Retained
<1>7. b \in Nat /\ b > seq /\ b >= sp.base
  BY <1>1
<1> HIDE DEF e, p, rest, b, new
<1>8. /\ new.entries = rest /\ new.base = b /\ new.broken = sp.broken
      /\ new \in Spool
  BY <1>1, <1>3, <1>5, <1>7 DEF Spool
<1>9. IF sp.broken THEN Len(rest) = 0 ELSE k - Len(rest) < b
  BY <1>1, <1>3, <1>6, <1>7
<1>10. Retained(new, k)
  BY <1>3, <1>8, <1>9 DEF Retained
<1> QED
  BY <1>8, <1>10 DEF new

(* What the host would replay.                                             *)
LEMMA ReplayFacts ==
  ASSUME NEW sp \in Spool, NEW k \in Nat, NEW n \in 0 .. k, Retained(sp, k), Bridges(sp, n)
  PROVE  After(sp.entries, n) = [i \in 1 .. k - n |-> n + i]
<1> DEFINE e == sp.entries
           p == Passed(e, n)
           rest == After(e, n)
<1>1. e \in Seq(Nat) /\ sp.base \in Nat /\ Len(e) \in Nat /\ n \in Nat
  BY DEF Spool
<1>2. \A i \in 1 .. Len(e) : e[i] = k - Len(e) + i
  BY DEF Retained
<1>3. /\ p \in 0 .. Len(e)
      /\ p > 0 => k - Len(e) + p <= n
      /\ p < Len(e) => k - Len(e) + p + 1 > n
      /\ rest \in Seq(Nat)
      /\ Len(rest) = Len(e) - p
      /\ \A i \in 1 .. Len(rest) : rest[i] = k - Len(rest) + i
  BY <1>1, <1>2, AfterFacts
<1>4. k - Len(e) < sp.base /\ n + 1 >= sp.base
  BY DEF Retained, Bridges
<1> HIDE DEF e, p, rest
<1> DEFINE L == Len(e)
           R == Len(rest)
<1>5. R = k - n
  <2>1. /\ L \in Nat /\ n \in Nat /\ k \in Nat /\ sp.base \in Nat /\ p \in 0 .. L
        /\ p > 0 => k - L + p <= n
        /\ p < L => k - L + p + 1 > n
        /\ R = L - p /\ n <= k
        /\ k - L < sp.base /\ n + 1 >= sp.base
    BY <1>1, <1>3, <1>4
  <2> DEFINE base == sp.base
  <2> HIDE DEF L, R, base
  <2>2. CASE p = L
    BY <2>1, <2>2 DEF base
  <2>3. CASE p < L
    BY <2>1, <2>3 DEF base
  <2> QED
    BY <2>1, <2>2, <2>3
<1>6. \A i \in 1 .. k - n : rest[i] = n + i
  <2> TAKE i \in 1 .. k - n
  <2>1. rest[i] = k - R + i
    BY <1>3, <1>5
  <2> HIDE DEF R
  <2> QED
    BY <1>1, <1>5, <2>1
<1> QED
  BY <1>3, <1>5, <1>6 DEF rest, e

(***************************************************************************)
(* Messages and sockets.                                                   *)
(***************************************************************************)
LEMMA NoteType ==
  ASSUME NEW kind \in Kind, NEW yes \in BOOLEAN
  PROVE  Note(kind, yes) \in Msg
BY DEF Note, Msg

(* A frame is a message.                                                   *)
LEMMA FrameType ==
  ASSUME NEW kind \in Kind, NEW chan \in Nat, NEW sess \in Nat, NEW n \in Nat, NEW yes \in BOOLEAN
  PROVE  Frame(kind, chan, sess, n, yes) \in Msg
BY DEF Frame, Msg

(* One message is a sequence of messages.                                  *)
LEMMA OneMessage ==
  ASSUME NEW msg \in Msg
  PROVE  <<msg>> \in Seq(Msg)
OBVIOUS

(* So is a function from 1 .. n to messages.                               *)
LEMMA MessageSeq ==
  ASSUME NEW n \in Nat, NEW msgs \in [1 .. n -> Msg]
  PROVE  msgs \in Seq(Msg)
OBVIOUS

(* A write to the socket of s keeps the upward queues typed.               *)
LEMMA WrittenType ==
  ASSUME RelayTypeOK, NEW s \in Side, NEW msgs \in Seq(Msg)
  PROVE  Written(s, msgs) \in [Conn -> Seq(Msg)]
<1>1. up \in [Conn -> Seq(Msg)] /\ ws \in [Side -> 0 .. MaxConns]
  BY DEF RelayTypeOK
<1>2. CASE Connected(s)
  <2>1. ws[s] \in 1 .. MaxConns
    BY <1>1, <1>2, ConnsAssumption DEF Connected, Holds
  <2>2. <<s, ws[s]>> \in Conn
    BY <2>1 DEF Conn
  <2>3. up[<<s, ws[s]>>] \o msgs \in Seq(Msg)
    BY <1>1, <2>2
  <2> QED
    BY <1>1, <1>2, <2>3 DEF Written
<1> QED
  BY <1>1, <1>2 DEF Written

(* What the relay sends keeps the downward queues typed.                   *)
LEMMA SentType ==
  ASSUME RelayTypeOK, NEW s \in Side, NEW n, NEW msg \in Msg
  PROVE  Sent(s, n, msg) \in [Side -> Seq(Msg)]
<1>1. down \in [Side -> Seq(Msg)]
  BY DEF RelayTypeOK
<1>2. Append(down[s], msg) \in Seq(Msg)
  BY <1>1
<1> QED
  BY <1>1, <1>2 DEF Sent

(* A read takes a message from a typed queue.                              *)
LEMMA ReadsFacts ==
  ASSUME RelayTypeOK, NEW s \in Side, NEW kind, Reads(s, kind)
  PROVE  Head(down[s]) \in Msg /\ down' \in [Side -> Seq(Msg)]
<1>1. down \in [Side -> Seq(Msg)] /\ down[s] # <<>> /\ down' = [down EXCEPT ![s] = Tail(@)]
  BY DEF RelayTypeOK, Reads
<1>2. down[s] \in Seq(Msg)
  BY <1>1
<1>3. Head(down[s]) \in Msg /\ Tail(down[s]) \in Seq(Msg)
  BY <1>1, <1>2, HeadTailProperties
<1> QED
  BY <1>1, <1>3

(* A write fails or it does not.                                           *)
LEMMA WriteErrs ==
  ASSUME NEW s
  PROVE  WriteErr(s) \subseteq BOOLEAN
BY DEF WriteErr

(* Every step of the relay keeps its types.                                *)
LEMMA RelayStepKept ==
  ASSUME RelayTypeOK, RelayStep
  PROVE  RelayTypeOK'
<1> USE DEF Peer, Side
<1>1. PICK s \in Side, n \in 1 .. MaxConns :
        Greet(s, n) \/ Announce(s, n) \/ Tell(s, n) \/ Route(s, n) \/ Forward(s, n) \/ Drop(s, n)
  BY DEF RelayStep
<1> DEFINE c == <<s, n>>
<1>2. /\ c \in Conn /\ Peer(s) \in Side
      /\ dialed \in [Side -> 0 .. MaxConns] /\ ws \in [Side -> 0 .. MaxConns]
      /\ authed \in [Side -> BOOLEAN] /\ registered \in [Side -> 0 .. MaxConns]
      /\ phase \in [Conn -> Phase]
      /\ held \in [Conn -> [msg : Msg, dest : 0 .. MaxConns]]
      /\ up \in [Conn -> Seq(Msg)] /\ down \in [Side -> Seq(Msg)]
  BY DEF Conn, RelayTypeOK
<1>3. held[c].msg \in Msg /\ held[c].dest \in 0 .. MaxConns
  BY <1>2
<1>4. /\ \A kind \in {"up", "down", "lost", "ok"} : Note(kind, FALSE) \in Msg
      /\ NoMsg \in [msg : Msg, dest : 0 .. MaxConns]
  <2>1. \A kind \in {"up", "down", "lost", "ok"} : Note(kind, FALSE) \in Msg
    BY NoteType DEF Kind
  <2>2. 0 \in 0 .. MaxConns
    BY ConnsAssumption
  <2> QED
    BY <2>1, <2>2 DEF NoMsg
<1>5. {"telling", "serving", "parting", "routing", "leaving", "gone"} \subseteq Phase
  BY DEF Phase, Working
<1> HIDE DEF c
<1>6. CASE Greet(s, n)
  <2>1. down' \in [Side -> Seq(Msg)]
    BY <1>3, <1>6, SentType DEF Greet, c
  <2>2. held' \in [Conn -> [msg : Msg, dest : 0 .. MaxConns]] /\ phase' \in [Conn -> Phase]
    <3>1. CASE s = "host"
      <4>1. /\ held' = [held EXCEPT ![c] = [msg |-> Note("up", FALSE), dest |-> registered["phone"]]]
            /\ phase' = [phase EXCEPT ![c] = "telling"]
        BY <1>6, <3>1 DEF Greet, c
      <4>2. [msg |-> Note("up", FALSE), dest |-> registered["phone"]] \in [msg : Msg, dest : 0 .. MaxConns]
        BY <1>2, <1>4
      <4> QED
        BY <1>2, <1>5, <4>1, <4>2
    <3>2. CASE s # "host"
      <4>1. held' = [held EXCEPT ![c] = NoMsg] /\ phase' = [phase EXCEPT ![c] = "serving"]
        BY <1>6, <3>2 DEF Greet, c
      <4> QED
        BY <1>2, <1>4, <1>5, <4>1
    <3> QED
      BY <3>1, <3>2
  <2> QED
    BY <1>2, <1>6, <2>1, <2>2 DEF Greet, RelayTypeOK
<1>7. CASE Announce(s, n)
  <2>1. /\ held' = [held EXCEPT ![c] = [msg |-> Note("down", FALSE), dest |-> registered[Peer(s)]]]
        /\ phase' = [phase EXCEPT ![c] = "parting"]
    BY <1>7 DEF Announce, c
  <2>2. [msg |-> Note("down", FALSE), dest |-> registered[Peer(s)]] \in [msg : Msg, dest : 0 .. MaxConns]
    BY <1>2, <1>4
  <2>7. held' \in [Conn -> [msg : Msg, dest : 0 .. MaxConns]]
    BY <1>2, <2>1, <2>2
  <2>8. phase' \in [Conn -> Phase]
    BY <1>2, <1>5, <2>1
  <2> QED
    BY <1>2, <1>7, <2>7, <2>8 DEF Announce, RelayTypeOK
<1>8. CASE Tell(s, n)
  <2>1. down' \in [Side -> Seq(Msg)]
    BY <1>2, <1>3, <1>8, SentType DEF Tell, c
  <2>2. /\ held' = [held EXCEPT ![c] = NoMsg]
        /\ phase' = [phase EXCEPT ![c] = IF @ = "telling" THEN "serving" ELSE "gone"]
    BY <1>8 DEF Tell, c
  <2>7. held' \in [Conn -> [msg : Msg, dest : 0 .. MaxConns]]
    BY <1>2, <1>4, <2>2
  <2>8. phase' \in [Conn -> Phase]
    BY <1>2, <1>5, <2>2
  <2> QED
    BY <1>2, <1>8, <2>1, <2>7, <2>8 DEF Tell, RelayTypeOK
<1>9. CASE Route(s, n)
  <2>1. /\ up[c] # <<>>
        /\ held' = [held EXCEPT ![c] = [msg |-> Head(up[c]), dest |-> registered[Peer(s)]]]
        /\ up' = [up EXCEPT ![c] = Tail(@)]
        /\ phase' = [phase EXCEPT ![c] = "routing"]
    BY <1>9 DEF Route, c
  <2>2. up[c] \in Seq(Msg)
    BY <1>2
  <2>3. Head(up[c]) \in Msg /\ Tail(up[c]) \in Seq(Msg)
    BY <2>1, <2>2, HeadTailProperties
  <2>4. [msg |-> Head(up[c]), dest |-> registered[Peer(s)]] \in [msg : Msg, dest : 0 .. MaxConns]
    BY <1>2, <2>3
  <2>7. held' \in [Conn -> [msg : Msg, dest : 0 .. MaxConns]]
    BY <1>2, <2>1, <2>4
  <2>8. phase' \in [Conn -> Phase]
    BY <1>2, <1>5, <2>1
  <2>9. up' \in [Conn -> Seq(Msg)]
    BY <1>2, <2>1, <2>3
  <2> QED
    BY <1>2, <1>9, <2>9, <2>7, <2>8 DEF Route, RelayTypeOK
<1>10. CASE Forward(s, n)
  <2>1. down' \in [Side -> Seq(Msg)]
    <3>1. PICK failed \in SendErr(Peer(s), held[c].dest) :
            down' = IF failed THEN Sent(s, n, Note("lost", FALSE)) ELSE Sent(Peer(s), held[c].dest, held[c].msg)
      BY <1>10 DEF Forward, c
    <3> QED
      BY <1>2, <1>3, <1>4, <3>1, SentType
  <2>2. held' = [held EXCEPT ![c] = NoMsg] /\ phase' = [phase EXCEPT ![c] = "serving"]
    BY <1>10 DEF Forward, c
  <2>7. held' \in [Conn -> [msg : Msg, dest : 0 .. MaxConns]]
    BY <1>2, <1>4, <2>2
  <2>8. phase' \in [Conn -> Phase]
    BY <1>2, <1>5, <2>2
  <2> QED
    BY <1>2, <1>10, <2>1, <2>7, <2>8 DEF Forward, RelayTypeOK
<1>11. CASE Drop(s, n)
  <2>1. /\ up' = [up EXCEPT ![c] = <<>>] /\ held' = [held EXCEPT ![c] = NoMsg]
        /\ \/ phase' = [phase EXCEPT ![c] = "leaving"] /\ registered' = [registered EXCEPT ![s] = 0]
           \/ phase' = [phase EXCEPT ![c] = "gone"] /\ registered' = registered
    BY <1>11 DEF Drop, c
  <2>2. registered' \in [Side -> 0 .. MaxConns]
    BY <1>2, <2>1, ConnsAssumption
  <2>7. held' \in [Conn -> [msg : Msg, dest : 0 .. MaxConns]]
    BY <1>2, <1>4, <2>1
  <2>8. phase' \in [Conn -> Phase]
    BY <1>2, <1>5, <2>1
  <2>9. up' \in [Conn -> Seq(Msg)]
    BY <1>2, <2>1
  <2> QED
    BY <1>2, <1>11, <2>2, <2>9, <2>7, <2>8 DEF Drop, RelayTypeOK
<1> QED
  BY <1>1, <1>6, <1>7, <1>8, <1>9, <1>10, <1>11

(* Dialling keeps the types of the relay.                                  *)
LEMMA DialKept ==
  ASSUME RelayTypeOK, NEW s \in Side, Dial(s)
  PROVE  RelayTypeOK'
<1> DEFINE n == dialed[s] + 1
           first == [msg |-> Note("ok", s = "phone" /\ registered["host"] # 0), dest |-> 0]
<1>1. n \in 1 .. MaxConns
  BY ConnsAssumption DEF Dial, RelayTypeOK
<1>2. <<s, n>> \in Conn
  BY <1>1 DEF Conn
<1>3. first \in [msg : Msg, dest : 0 .. MaxConns]
  <2>1. Note("ok", s = "phone" /\ registered["host"] # 0) \in Msg
    BY NoteType DEF Kind
  <2>2. 0 \in 0 .. MaxConns
    BY ConnsAssumption
  <2> QED
    BY <2>1, <2>2
<1>4. /\ dialed' = [dialed EXCEPT ![s] = n] /\ ws' = [ws EXCEPT ![s] = n]
      /\ authed' = [authed EXCEPT ![s] = FALSE] /\ registered' = [registered EXCEPT ![s] = n]
      /\ phase' = [phase EXCEPT ![<<s, n>>] = "greeting"]
      /\ held' = [held EXCEPT ![<<s, n>>] = first]
      /\ UNCHANGED <<up, down>>
  BY DEF Dial
<1>5. "greeting" \in Phase /\ n \in 0 .. MaxConns
  BY <1>1, ConnsAssumption DEF Phase, Working
<1> HIDE DEF n, first
<1> QED
  BY <1>2, <1>3, <1>4, <1>5 DEF RelayTypeOK

(* The answer to a registration keeps them typed.                          *)
LEMMA ReadsOkKept ==
  ASSUME RelayTypeOK, NEW s \in Side, ReadsOk(s)
  PROVE  /\ authed' \in [Side -> BOOLEAN] /\ down' \in [Side -> Seq(Msg)]
         /\ Head(down[s]).yes \in BOOLEAN
<1>1. /\ down \in [Side -> Seq(Msg)] /\ authed \in [Side -> BOOLEAN] /\ down[s] # <<>>
      /\ down' = [down EXCEPT ![s] = Tail(@)] /\ authed' = [authed EXCEPT ![s] = TRUE]
  BY DEF RelayTypeOK, ReadsOk
<1>2. down[s] \in Seq(Msg)
  BY <1>1
<1>3. Head(down[s]) \in Msg /\ Tail(down[s]) \in Seq(Msg)
  BY <1>1, <1>2, HeadTailProperties
<1> QED
  BY <1>1, <1>3 DEF Msg

(* Closing a socket keeps them.                                            *)
LEMMA HangUpKept ==
  ASSUME RelayTypeOK, NEW s \in Side, HangUp(s)
  PROVE  RelayTypeOK'
<1>1. <<>> \in Seq(Msg) /\ 0 \in 0 .. MaxConns
  BY ConnsAssumption
<1> QED
  BY <1>1 DEF HangUp, RelayTypeOK

(***************************************************************************)
(* The invariant.                                                          *)
(***************************************************************************)
RestTypes ==
  /\ dialed \in [Side -> 0 .. MaxConns] /\ ws \in [Side -> 0 .. MaxConns]
  /\ authed \in [Side -> BOOLEAN] /\ registered \in [Side -> 0 .. MaxConns]
  /\ phase \in [Conn -> Phase]
  /\ held \in [Conn -> [msg : Msg, dest : 0 .. MaxConns]]
QueueTypes == up \in [Conn -> Seq(Msg)] /\ down \in [Side -> Seq(Msg)]
HostTypes ==
  /\ hostChan \in Nat /\ hostAtt \in BOOLEAN
  /\ app \in 0 .. MaxSessions /\ started \in 0 .. MaxSessions
  /\ emitted \in [Session -> Nat]
  /\ spool \in Spool
PhoneTypes ==
  /\ pending \in Nat /\ phoneChan \in Nat /\ phoneAtt \in BOOLEAN
  /\ contID \in Nat /\ lastRecv \in Nat /\ dirty \in BOOLEAN
  /\ shakes \in Nat /\ asks \in Nat /\ restarts \in Nat

(* The type invariant in four parts, by who changes them.                  *)
LEMMA Types == TypeOK <=> RestTypes /\ QueueTypes /\ HostTypes /\ PhoneTypes
BY DEF TypeOK, RelayTypeOK, RestTypes, QueueTypes, HostTypes, PhoneTypes, Spool

(* The parts make up the invariant of the next state.                      *)
LEMMA NextTypes ==
  ASSUME RestTypes', QueueTypes', HostTypes', PhoneTypes', Sessions'
  PROVE  IInv'
BY DEF TypeOK, RelayTypeOK, RestTypes, QueueTypes, HostTypes, PhoneTypes, Spool, IInv

(* A write of the host keeps its channel typed.                            *)
LEMMA HostSendsFacts ==
  ASSUME RelayTypeOK, NEW chan \in Nat, NEW att \in BOOLEAN, NEW frames \in Seq(Msg),
         HostSends(chan, att, frames)
  PROVE  up' \in [Conn -> Seq(Msg)] /\ hostChan' \in Nat /\ hostAtt' \in BOOLEAN
<1>1. PICK failed \in WriteErr("host") :
        /\ up' = Written("host", frames)
        /\ hostChan' = IF failed THEN 0 ELSE chan
        /\ hostAtt' = (att /\ ~failed)
  BY DEF HostSends
<1>2. up' \in [Conn -> Seq(Msg)]
  BY <1>1, WrittenType DEF Side
<1> QED
  BY <1>1, <1>2, WriteErrs

(* A write of the phone keeps its channel typed.                           *)
LEMMA PhoneSendsFacts ==
  ASSUME TypeOK, NEW frame \in Msg, PhoneSends(frame)
  PROVE  up' \in [Conn -> Seq(Msg)] /\ phoneChan' \in Nat /\ phoneAtt' \in BOOLEAN
<1>1. PICK failed \in WriteErr("phone") :
        /\ up' = Written("phone", <<frame>>)
        /\ phoneChan' = (IF failed THEN 0 ELSE phoneChan)
        /\ phoneAtt' = (phoneAtt /\ ~failed)
  BY DEF PhoneSends
<1>2. <<frame>> \in Seq(Msg) /\ RelayTypeOK /\ phoneChan \in Nat /\ phoneAtt \in BOOLEAN
  BY DEF TypeOK
<1>3. up' \in [Conn -> Seq(Msg)]
  BY <1>1, <1>2, WrittenType DEF Side
<1> QED
  BY <1>1, <1>2, <1>3, WriteErrs

(* So does a handshake that the phone starts.                              *)
LEMMA PhoneShakesFacts ==
  ASSUME TypeOK, PhoneShakes
  PROVE  /\ up' \in [Conn -> Seq(Msg)] /\ pending' \in Nat /\ phoneChan' \in Nat
         /\ phoneAtt' \in BOOLEAN /\ shakes' \in Nat
<1>1. shakes + 1 \in Nat /\ RelayTypeOK
  BY DEF TypeOK
<1>2. Frame("hs1", shakes + 1, 0, 0, FALSE) \in Msg
  BY <1>1, FrameType DEF Kind
<1>3. <<Frame("hs1", shakes + 1, 0, 0, FALSE)>> \in Seq(Msg)
  BY <1>2, OneMessage
<1>4. Written("phone", <<Frame("hs1", shakes + 1, 0, 0, FALSE)>>) \in [Conn -> Seq(Msg)]
  BY <1>1, <1>3, WrittenType DEF Side
<1> QED
  BY <1>1, <1>4 DEF PhoneShakes

(* What the host reads has typed fields.                                   *)
LEMMA HostMessage ==
  ASSUME TypeOK, NEW kind, Reads("host", kind)
  PROVE  LET m == Head(down["host"]) IN
         m.chan \in Nat /\ m.sess \in Nat /\ m.n \in Nat /\ down' \in [Side -> Seq(Msg)]
BY ReadsFacts DEF TypeOK, Side, Msg

(* What the phone reads has typed fields.                                  *)
LEMMA PhoneMessage ==
  ASSUME TypeOK, NEW kind, Reads("phone", kind)
  PROVE  LET m == Head(down["phone"]) IN
         m.chan \in Nat /\ m.sess \in Nat /\ m.n \in Nat /\ down' \in [Side -> Seq(Msg)]
BY ReadsFacts DEF TypeOK, Side, Msg

(* The invariant holds before anyone has dialled.                          *)
LEMMA Initially == Init => IInv
<1> SUFFICES ASSUME Init PROVE IInv
  OBVIOUS
<1> USE ConnsAssumption, LinkAssumption
<1>1. RestTypes
  <2>1. /\ NoMsg \in [msg : Msg, dest : 0 .. MaxConns]
        /\ "none" \in Phase /\ 0 \in 0 .. MaxConns
    BY DEF NoMsg, Note, Msg, Kind, Phase
  <2> QED
    BY <2>1 DEF Init, RelayInit, RestTypes
<1>2. QueueTypes
  BY DEF Init, RelayInit, QueueTypes
<1>3. HostTypes
  <2>1. <<>> \in Seq(Nat) /\ 1 \in Nat /\ FALSE \in BOOLEAN
    OBVIOUS
  <2>2. spool \in Spool
    BY <2>1 DEF Init, NewSpool, Spool
  <2>3. emitted \in [Session -> Nat]
    BY DEF Init
  <2>4. /\ hostChan \in Nat /\ hostAtt \in BOOLEAN
        /\ app \in 0 .. MaxSessions /\ started \in 0 .. MaxSessions
    <3>1. hostChan = 0 /\ app = 0 /\ started = 0 /\ ~hostAtt /\ hostAtt = FALSE
      BY DEF Init
    <3>2. hostAtt \in BOOLEAN
      BY <3>1
    <3> QED
      BY <3>1, <3>2
  <2> QED
    BY <2>2, <2>3, <2>4 DEF HostTypes
<1>4. PhoneTypes
  BY DEF Init, PhoneTypes
<1>5. Sessions
  BY DEF Init, Sessions, Session
<1> QED
  BY <1>1, <1>2, <1>3, <1>4, <1>5, Types DEF IInv

(* Steps that leave the host's session alone.                              *)
LEMMA SessionsKept ==
  ASSUME IInv, UNCHANGED <<app, emitted, spool, started>>
  PROVE  Sessions' /\ (hostChan' \in Nat /\ hostAtt' \in BOOLEAN => HostTypes')
<1>1. HostTypes /\ Sessions
  BY Types DEF IInv
<1> QED
  BY <1>1 DEF Sessions, Retained, HostTypes

(* A step that leaves the host alone keeps its sessions.                   *)
LEMMA HostKept ==
  ASSUME IInv, UNCHANGED hostVars
  PROVE  Sessions' /\ HostTypes'
<1>1. hostChan \in Nat /\ hostAtt \in BOOLEAN
  BY Types DEF IInv, HostTypes
<1> QED
  BY <1>1, SessionsKept DEF hostVars

(* A line of the app-server enters the spool.                              *)
LEMMA HostEmitsKept == IInv /\ HostEmits => IInv'
<1> SUFFICES ASSUME IInv, HostEmits PROVE IInv'
  OBVIOUS
<1>1. RestTypes /\ QueueTypes /\ HostTypes /\ PhoneTypes /\ RelayTypeOK
  BY Types DEF IInv, TypeOK
<1>2. /\ app \in Session /\ emitted[app] \in Nat /\ hostChan \in Nat /\ hostAtt \in BOOLEAN
      /\ spool \in Spool /\ Retained(spool, emitted[app]) /\ app <= started
  BY <1>1 DEF HostEmits, HostTypes, Session, IInv, Sessions
<1> DEFINE k == emitted[app]
<1>3. emitted' = [emitted EXCEPT ![app] = k + 1] /\ spool' = Kept(spool, k + 1)
  BY DEF HostEmits
<1>4. spool' \in Spool /\ Retained(spool', k + 1)
  BY <1>2, <1>3, KeptFacts
<1>5. up' \in [Conn -> Seq(Msg)] /\ hostChan' \in Nat /\ hostAtt' \in BOOLEAN
  <2>1. CASE hostAtt /\ hostChan # 0
    <3>1. Frame("rpc", hostChan, app, k + 1, FALSE) \in Msg
      BY <1>2, LinkAssumption DEF Frame, Msg, Kind, Session
    <3>2. HostSends(hostChan, hostAtt, <<Frame("rpc", hostChan, app, k + 1, FALSE)>>)
      BY <2>1 DEF HostEmits
    <3> QED
      BY <1>1, <1>2, <3>1, <3>2, OneMessage, HostSendsFacts
  <2>2. CASE ~(hostAtt /\ hostChan # 0)
    BY <1>1, <1>2, <2>2 DEF HostEmits, QueueTypes
  <2> QED
    BY <2>1, <2>2
<1> HIDE DEF k
<1>6. emitted' \in [Session -> Nat] /\ emitted'[app] = k + 1 /\ UNCHANGED <<app, started>>
  BY <1>1, <1>2, <1>3 DEF HostTypes, HostEmits, k
<1>7. HostTypes'
  BY <1>1, <1>4, <1>5, <1>6 DEF HostTypes
<1>8. RestTypes' /\ QueueTypes' /\ PhoneTypes'
  BY <1>1, <1>5 DEF HostEmits, relayVars, phoneVars, RestTypes, QueueTypes, PhoneTypes
<1>9. Sessions'
  <2>1. \A s \in Session : s > started' => emitted'[s] = 0
    BY <1>1, <1>2, <1>3, <1>6, LinkAssumption DEF IInv, Sessions, HostTypes, Session
  <2> QED
    BY <1>2, <1>4, <1>6, <2>1 DEF Sessions
<1> QED
  BY <1>7, <1>8, <1>9, NextTypes

(* An attach whose session the spool bridges replays the rest of it.       *)
LEMMA HostResumesKept == IInv /\ HostResumes => IInv'
<1> SUFFICES ASSUME IInv, HostResumes PROVE IInv'
  OBVIOUS
<1> DEFINE m == Head(down["host"])
           replay == After(spool.entries, m.n)
           frames == <<Frame("attached", hostChan, app, 0, TRUE)>> \o
                     [i \in 1 .. Len(replay) |-> Frame("rpc", hostChan, app, replay[i], FALSE)]
<1>1. RestTypes /\ QueueTypes /\ HostTypes /\ PhoneTypes /\ RelayTypeOK
  BY Types DEF IInv, TypeOK
<1>2. /\ app \in Session /\ emitted[app] \in Nat /\ hostChan \in Nat
      /\ spool \in Spool /\ Retained(spool, emitted[app])
      /\ m.n \in Nat /\ down' \in [Side -> Seq(Msg)]
  BY <1>1, HostMessage DEF HostResumes, HostOpens, HostTypes, Session, IInv, Sessions
<1>3. spool' = AckTo(spool, m.n) /\ HostSends(hostChan, TRUE, frames)
  BY DEF HostResumes
<1>4. spool' \in Spool /\ Retained(spool', emitted[app])
  BY <1>2, <1>3, AckFacts
<1>5. frames \in Seq(Msg)
  <2>1. replay \in Seq(Nat)
    <3> HIDE DEF m
    <3> QED
      BY <1>2, AfterFacts DEF Retained, Spool
  <2>2. hostChan \in Nat /\ app \in Nat
    BY <1>2, LinkAssumption DEF Session
  <2> HIDE DEF replay
  <2>3. \A i \in 1 .. Len(replay) : Frame("rpc", hostChan, app, replay[i], FALSE) \in Msg
    <3> TAKE i \in 1 .. Len(replay)
    <3>1. replay[i] \in Nat
      BY <2>1
    <3> QED
      BY <2>2, <3>1 DEF Frame, Msg, Kind
  <2>4. Frame("attached", hostChan, app, 0, TRUE) \in Msg
    BY <2>2 DEF Frame, Msg, Kind
  <2>5. [i \in 1 .. Len(replay) |-> Frame("rpc", hostChan, app, replay[i], FALSE)] \in Seq(Msg)
    <3>1. Len(replay) \in Nat
      BY <2>1
    <3> QED
      BY <2>3, <3>1, MessageSeq
  <2>6. <<Frame("attached", hostChan, app, 0, TRUE)>> \in Seq(Msg)
    BY <2>4, OneMessage
  <2> QED
    BY <2>5, <2>6, ConcatProperties
<1> HIDE DEF frames, m, replay
<1>6. up' \in [Conn -> Seq(Msg)] /\ hostChan' \in Nat /\ hostAtt' \in BOOLEAN
  BY <1>1, <1>2, <1>3, <1>5, HostSendsFacts
<1>7. HostTypes'
  BY <1>1, <1>4, <1>6 DEF HostTypes, HostResumes
<1>8. RestTypes' /\ QueueTypes' /\ PhoneTypes'
  BY <1>1, <1>2, <1>6 DEF HostResumes, relayVars, phoneVars, RestTypes, QueueTypes, PhoneTypes
<1>9. Sessions'
  BY <1>1, <1>4 DEF Sessions, IInv, HostResumes
<1> QED
  BY <1>7, <1>8, <1>9, NextTypes

(* Any other attach starts a new session.                                  *)
LEMMA HostRenewsKept == IInv /\ HostRenews => IInv'
<1> SUFFICES ASSUME IInv, HostRenews PROVE IInv'
  OBVIOUS
<1> DEFINE frames == <<Frame("attached", hostChan, started + 1, 0, FALSE)>>
<1>1. RestTypes /\ QueueTypes /\ HostTypes /\ PhoneTypes /\ RelayTypeOK
  BY Types DEF IInv, TypeOK
<1>2. /\ hostChan \in Nat /\ started + 1 \in Session /\ down' \in [Side -> Seq(Msg)]
      /\ emitted \in [Session -> Nat]
  BY <1>1, HostMessage, LinkAssumption DEF HostRenews, HostOpens, HostTypes, Session, IInv
<1>3. /\ started' = started + 1 /\ app' = started + 1 /\ spool' = NewSpool
      /\ UNCHANGED emitted /\ HostSends(hostChan, TRUE, frames)
  BY DEF HostRenews
<1>4. frames \in Seq(Msg)
  <2>1. Frame("attached", hostChan, started + 1, 0, FALSE) \in Msg
    BY <1>2, LinkAssumption DEF Frame, Msg, Kind, Session
  <2> QED
    BY <2>1, OneMessage
<1> HIDE DEF frames
<1>5. up' \in [Conn -> Seq(Msg)] /\ hostChan' \in Nat /\ hostAtt' \in BOOLEAN
  BY <1>1, <1>2, <1>3, <1>4, HostSendsFacts
<1>6. NewSpool \in Spool /\ Retained(NewSpool, 0)
  BY DEF NewSpool, Spool, Retained
<1>7. HostTypes'
  BY <1>1, <1>2, <1>3, <1>5, <1>6, LinkAssumption DEF HostTypes, Session
<1>8. RestTypes' /\ QueueTypes' /\ PhoneTypes'
  BY <1>1, <1>2, <1>5 DEF HostRenews, relayVars, phoneVars, RestTypes, QueueTypes, PhoneTypes
<1>9. Sessions'
  <2>1. \A s \in Session : s > started => emitted[s] = 0
    BY DEF IInv, Sessions
  <2>2. emitted[started + 1] = 0 /\ \A s \in Session : s > started + 1 => emitted[s] = 0
    BY <1>1, <1>2, <2>1 DEF HostTypes, Session
  <2> QED
    BY <1>1, <1>2, <1>3, <1>6, <2>2 DEF Sessions, HostTypes, Session
<1> QED
  BY <1>7, <1>8, <1>9, NextTypes

(* An acknowledgement trims the spool.                                     *)
LEMMA HostTrimsKept == IInv /\ HostTrims => IInv'
<1> SUFFICES ASSUME IInv, HostTrims PROVE IInv'
  OBVIOUS
<1> DEFINE m == Head(down["host"])
<1>1. RestTypes /\ QueueTypes /\ HostTypes /\ PhoneTypes
  BY Types DEF IInv
<1>2. m.n \in Nat /\ down' \in [Side -> Seq(Msg)]
  BY HostMessage DEF HostTrims, HostOpens, IInv
<1>3. spool' \in Spool /\ (app # 0 => Retained(spool', emitted[app]))
  <2>1. CASE app # 0
    <3>1. spool' = AckTo(spool, m.n)
      BY <2>1 DEF HostTrims
    <3>2. spool \in Spool /\ emitted[app] \in Nat /\ Retained(spool, emitted[app])
      BY <1>1, <2>1 DEF HostTypes, IInv, Sessions, Session
    <3> HIDE DEF m
    <3> QED
      BY <1>2, <3>1, <3>2, AckFacts
  <2>2. CASE app = 0
    BY <1>1, <2>2 DEF HostTrims, HostTypes
  <2> QED
    BY <2>1, <2>2
<1> HIDE DEF m
<1>4. HostTypes'
  BY <1>1, <1>3 DEF HostTypes, HostTrims
<1>5. RestTypes' /\ QueueTypes' /\ PhoneTypes'
  BY <1>1, <1>2 DEF HostTrims, relayVars, phoneVars, RestTypes, QueueTypes, PhoneTypes
<1>6. Sessions'
  BY <1>3 DEF Sessions, IInv, HostTrims
<1> QED
  BY <1>4, <1>5, <1>6, NextTypes

(* The host answers a handshake.                                           *)
LEMMA HostShakesKept == IInv /\ HostShakes => IInv'
<1> SUFFICES ASSUME IInv, HostShakes PROVE IInv'
  OBVIOUS
<1> DEFINE h == Head(down["host"]).chan
           frame == Frame("hs2", h, 0, 0, FALSE)
<1>1. RestTypes /\ QueueTypes /\ HostTypes /\ PhoneTypes /\ RelayTypeOK
  BY Types DEF IInv, TypeOK
<1>2. h \in Nat /\ down' \in [Side -> Seq(Msg)]
  BY HostMessage DEF HostShakes, IInv
<1>3. HostSends(h, FALSE, <<frame>>) /\ UNCHANGED <<app, emitted, spool, started>>
  BY DEF HostShakes
<1> HIDE DEF h
<1>4. <<frame>> \in Seq(Msg)
  <2>1. frame \in Msg
    BY <1>2 DEF Frame, Msg, Kind
  <2> QED
    BY <2>1, OneMessage
<1> HIDE DEF frame
<1>5. up' \in [Conn -> Seq(Msg)] /\ hostChan' \in Nat /\ hostAtt' \in BOOLEAN
  BY <1>1, <1>2, <1>3, <1>4, HostSendsFacts
<1>6. Sessions' /\ HostTypes'
  BY <1>3, <1>5, SessionsKept
<1>7. RestTypes' /\ QueueTypes' /\ PhoneTypes'
  BY <1>1, <1>2, <1>5 DEF HostShakes, relayVars, phoneVars, RestTypes, QueueTypes, PhoneTypes
<1> QED
  BY <1>6, <1>7, NextTypes

(* The host reads what changes nothing of its sessions.                    *)
LEMMA HostReadsKept == IInv /\ (HostIgnores \/ HostForwards \/ HostDetaches) => IInv'
<1> SUFFICES ASSUME IInv, HostIgnores \/ HostForwards \/ HostDetaches PROVE IInv'
  OBVIOUS
<1>1. RestTypes /\ QueueTypes /\ HostTypes /\ PhoneTypes
  BY Types DEF IInv
<1>2. \E kind : Reads("host", kind)
  BY DEF HostIgnores, HostForwards, HostDetaches, HostOpens
<1>3. down' \in [Side -> Seq(Msg)]
  BY <1>2, HostMessage DEF IInv
<1>4. /\ UNCHANGED <<app, emitted, spool, started, phoneVars, restarts, dialed, ws, authed,
                     relayVars, up>>
      /\ hostChan' \in Nat /\ hostAtt' \in BOOLEAN
  <2>1. hostChan \in Nat /\ hostAtt \in BOOLEAN
    BY <1>1 DEF HostTypes
  <2>2. CASE HostIgnores \/ HostForwards
    BY <2>1, <2>2 DEF HostIgnores, HostForwards, hostVars
  <2>3. CASE HostDetaches
    <3>1. hostChan' = 0 /\ hostAtt' = FALSE
      BY <2>3 DEF HostDetaches
    <3>2. UNCHANGED <<app, emitted, spool, started, phoneVars, restarts, dialed, ws, authed,
                      relayVars, up>>
      BY <2>3 DEF HostDetaches
    <3> QED
      BY <3>1, <3>2
  <2> QED
    BY <2>2, <2>3
<1>5. Sessions' /\ HostTypes'
  BY <1>4, SessionsKept
<1>6. RestTypes' /\ QueueTypes' /\ PhoneTypes'
  BY <1>1, <1>3, <1>4 DEF relayVars, phoneVars, RestTypes, QueueTypes, PhoneTypes
<1> QED
  BY <1>5, <1>6, NextTypes

(* The types of the relay are in two of the parts.                         *)
LEMMA Parts ==
  ASSUME RelayTypeOK'
  PROVE  RestTypes' /\ QueueTypes'
BY DEF RelayTypeOK, RestTypes, QueueTypes

(* The host dials the relay or is answered by it.                          *)
LEMMA HostConnectsKept == IInv /\ HostConnects => IInv'
<1> SUFFICES ASSUME IInv, HostConnects PROVE IInv'
  OBVIOUS
<1>1. RestTypes /\ QueueTypes /\ HostTypes /\ PhoneTypes /\ RelayTypeOK
  BY Types DEF IInv, TypeOK
<1>2. UNCHANGED <<hostVars, phoneVars, restarts>>
  BY DEF HostConnects
<1>3. Sessions' /\ HostTypes' /\ PhoneTypes'
  BY <1>1, <1>2, HostKept DEF phoneVars, PhoneTypes
<1>4. RestTypes' /\ QueueTypes'
  <2>1. CASE Dial("host")
    BY <1>1, <2>1, DialKept, Parts DEF Side
  <2>2. CASE ReadsOk("host") /\ UNCHANGED <<dialed, ws, relayVars, up>>
    <3>1. authed' \in [Side -> BOOLEAN] /\ down' \in [Side -> Seq(Msg)]
      BY <1>1, <2>2, ReadsOkKept DEF Side
    <3> QED
      BY <1>1, <2>2, <3>1 DEF relayVars, RestTypes, QueueTypes
  <2> QED
    BY <2>1, <2>2 DEF HostConnects
<1> QED
  BY <1>3, <1>4, NextTypes

(* The host loses its socket.                                              *)
LEMMA HostHangsUpKept == IInv /\ HostHangsUp => IInv'
<1> SUFFICES ASSUME IInv, HostHangsUp PROVE IInv'
  OBVIOUS
<1>1. HostTypes /\ PhoneTypes /\ RelayTypeOK
  BY Types DEF IInv, TypeOK
<1>2. RestTypes' /\ QueueTypes'
  BY <1>1, HangUpKept, Parts DEF HostHangsUp, Side
<1>3. hostChan' \in Nat /\ hostAtt' \in BOOLEAN
  BY DEF HostHangsUp
<1>4. Sessions' /\ HostTypes'
  BY <1>3, SessionsKept DEF HostHangsUp
<1>5. PhoneTypes'
  BY <1>1 DEF HostHangsUp, phoneVars, PhoneTypes
<1> QED
  BY <1>2, <1>4, <1>5, NextTypes

(* The host process starts again.                                          *)
LEMMA HostRestartsKept == IInv /\ HostRestarts => IInv'
<1> SUFFICES ASSUME IInv, HostRestarts PROVE IInv'
  OBVIOUS
<1>1. HostTypes /\ PhoneTypes /\ RelayTypeOK
  BY Types DEF IInv, TypeOK
<1>2. RestTypes' /\ QueueTypes'
  BY <1>1, HangUpKept, Parts DEF HostRestarts, Side
<1>3. PhoneTypes'
  BY <1>1 DEF HostRestarts, phoneVars, PhoneTypes
<1>4. NewSpool \in Spool
  BY DEF NewSpool, Spool
<1>5. hostChan' \in Nat /\ hostAtt' \in BOOLEAN /\ app' = 0 /\ spool' = NewSpool
  BY DEF HostRestarts
<1>6. HostTypes'
  BY <1>1, <1>4, <1>5, LinkAssumption DEF HostRestarts, HostTypes
<1>7. Sessions'
  BY <1>1, <1>5 DEF HostRestarts, IInv, Sessions, HostTypes
<1> QED
  BY <1>2, <1>3, <1>6, <1>7, NextTypes

(***************************************************************************)
(* The phone's steps leave the host's session alone.                       *)
(***************************************************************************)
LEMMA PhoneReadsKept ==
  IInv /\ (PhoneDetaches \/ PhoneIgnores \/ PhoneAttaches \/ PhoneApplies) => IInv'
<1> SUFFICES ASSUME IInv, PhoneDetaches \/ PhoneIgnores \/ PhoneAttaches \/ PhoneApplies PROVE IInv'
  OBVIOUS
<1>1. RestTypes /\ QueueTypes /\ HostTypes /\ PhoneTypes
  BY Types DEF IInv
<1> DEFINE m == Head(down["phone"])
<1>2. \E kind : Reads("phone", kind)
  BY DEF PhoneDetaches, PhoneIgnores, PhoneAttaches, PhoneApplies, PhoneOpens
<1>3. down' \in [Side -> Seq(Msg)] /\ m.sess \in Nat /\ m.n \in Nat
  BY <1>2, PhoneMessage DEF IInv
<1>4. UNCHANGED <<hostVars, restarts, dialed, ws, authed, relayVars, up, pending, shakes, asks>>
  BY DEF PhoneDetaches, PhoneIgnores, PhoneAttaches, PhoneApplies, phoneVars
<1>5. Sessions' /\ HostTypes'
  BY <1>4, HostKept
<1>6. RestTypes' /\ QueueTypes'
  BY <1>1, <1>3, <1>4 DEF relayVars, RestTypes, QueueTypes
<1>7. PhoneTypes'
  <2>1. CASE PhoneDetaches
    BY <1>1, <2>1 DEF PhoneDetaches, PhoneTypes
  <2>2. CASE PhoneIgnores
    BY <1>1, <2>2 DEF PhoneIgnores, PhoneTypes, phoneVars
  <2>3. CASE PhoneAttaches
    <3>1. contID' = m.sess /\ lastRecv' \in {0, lastRecv} /\ phoneAtt' = TRUE /\ dirty' = FALSE
      BY <2>3 DEF PhoneAttaches
    <3> HIDE DEF m
    <3>2. UNCHANGED <<phoneChan, pending, shakes, asks, restarts>>
      BY <2>3 DEF PhoneAttaches
    <3>3. phoneAtt' \in BOOLEAN /\ dirty' \in BOOLEAN
      BY <3>1
    <3>4. contID' \in Nat /\ lastRecv' \in Nat
      BY <1>1, <1>3, <3>1 DEF PhoneTypes
    <3> QED
      BY <1>1, <3>2, <3>3, <3>4 DEF PhoneTypes
  <2>4. CASE PhoneApplies
    <3>1. /\ lastRecv' \in {m.n, lastRecv}
          /\ dirty' = TRUE \/ dirty' = dirty
      BY <2>4 DEF PhoneApplies
    <3> HIDE DEF m
    <3>2. UNCHANGED <<phoneChan, phoneAtt, contID, pending, shakes, asks, restarts>>
      BY <2>4 DEF PhoneApplies
    <3>3. dirty' \in BOOLEAN
      BY <1>1, <3>1 DEF PhoneTypes
    <3>4. lastRecv' \in Nat
      BY <1>1, <1>3, <3>1 DEF PhoneTypes
    <3> QED
      BY <1>1, <3>2, <3>3, <3>4 DEF PhoneTypes
  <2> QED
    BY <2>1, <2>2, <2>3, <2>4
<1> QED
  BY <1>5, <1>6, <1>7, NextTypes

(* The phone completes a handshake and attaches.                           *)
LEMMA PhoneCompletesKept == IInv /\ PhoneCompletes => IInv'
<1> SUFFICES ASSUME IInv, PhoneCompletes PROVE IInv'
  OBVIOUS
<1> DEFINE h == Head(down["phone"]).chan
           frame == Frame("attach", h, contID, lastRecv, FALSE)
<1>1. RestTypes /\ QueueTypes /\ HostTypes /\ PhoneTypes /\ RelayTypeOK
  BY Types DEF IInv, TypeOK
<1>2. h \in Nat /\ down' \in [Side -> Seq(Msg)]
  BY PhoneMessage DEF PhoneCompletes, IInv
<1>3. UNCHANGED <<hostVars, contID, lastRecv, dirty, shakes, asks, restarts, dialed, ws, authed,
                  relayVars>> /\ pending' = 0
  BY DEF PhoneCompletes
<1>4. IF pending # 0 /\ pending = h
      THEN \E failed \in WriteErr("phone") :
             /\ phoneChan' = (IF failed THEN 0 ELSE h) /\ phoneAtt' = (phoneAtt /\ ~failed)
             /\ up' = Written("phone", <<frame>>)
      ELSE UNCHANGED <<phoneChan, phoneAtt, up>>
  BY DEF PhoneCompletes
<1> HIDE DEF h
<1>5. Written("phone", <<frame>>) \in [Conn -> Seq(Msg)]
  <2>1. contID \in Nat /\ lastRecv \in Nat
    BY <1>1 DEF PhoneTypes
  <2>2. frame \in Msg
    BY <1>2, <2>1 DEF Frame, Msg, Kind
  <2> HIDE DEF frame
  <2> QED
    BY <1>1, <2>2, OneMessage, WrittenType DEF Side
<1> HIDE DEF frame
<1>6. up' \in [Conn -> Seq(Msg)] /\ phoneChan' \in Nat /\ phoneAtt' \in BOOLEAN
  <2>1. CASE pending # 0 /\ pending = h
    <3>1. PICK failed \in WriteErr("phone") :
             /\ phoneChan' = (IF failed THEN 0 ELSE h) /\ phoneAtt' = (phoneAtt /\ ~failed)
             /\ up' = Written("phone", <<frame>>)
      BY <1>4, <2>1
    <3> QED
      BY <1>2, <1>5, <3>1
  <2>2. CASE ~(pending # 0 /\ pending = h)
    BY <1>1, <1>4, <2>2 DEF QueueTypes, PhoneTypes
  <2> QED
    BY <2>1, <2>2
<1>7. Sessions' /\ HostTypes'
  BY <1>3, HostKept
<1>8. RestTypes' /\ QueueTypes' /\ PhoneTypes'
  BY <1>1, <1>2, <1>3, <1>6 DEF relayVars, RestTypes, QueueTypes, PhoneTypes
<1> QED
  BY <1>7, <1>8, NextTypes

(* The phone dials the relay, or is answered and shakes hands.             *)
LEMMA PhoneConnectsKept == IInv /\ PhoneConnects => IInv'
<1> SUFFICES ASSUME IInv, PhoneConnects PROVE IInv'
  OBVIOUS
<1>1. RestTypes /\ QueueTypes /\ HostTypes /\ PhoneTypes /\ RelayTypeOK
  BY Types DEF IInv, TypeOK
<1>2. Sessions' /\ HostTypes'
  BY HostKept DEF PhoneConnects
<1>3. CASE Dial("phone") /\ UNCHANGED <<phoneVars, restarts>>
  <2>1. RestTypes' /\ QueueTypes'
    BY <1>1, <1>3, DialKept, Parts DEF Side
  <2>2. PhoneTypes'
    BY <1>1, <1>3 DEF phoneVars, PhoneTypes
  <2> QED
    BY <1>2, <2>1, <2>2, NextTypes
<1>4. CASE /\ ReadsOk("phone")
           /\ PhoneShakes \/ UNCHANGED <<pending, phoneChan, phoneAtt, shakes, up>>
           /\ UNCHANGED <<contID, lastRecv, dirty, asks, restarts, dialed, ws, relayVars>>
  <2>1. authed' \in [Side -> BOOLEAN] /\ down' \in [Side -> Seq(Msg)]
    BY <1>1, <1>4, ReadsOkKept DEF Side
  <2>2. /\ up' \in [Conn -> Seq(Msg)] /\ pending' \in Nat /\ phoneChan' \in Nat
        /\ phoneAtt' \in BOOLEAN /\ shakes' \in Nat
    <3>1. CASE PhoneShakes
      BY <3>1, PhoneShakesFacts DEF IInv
    <3>2. CASE UNCHANGED <<pending, phoneChan, phoneAtt, shakes, up>>
      BY <1>1, <3>2 DEF PhoneTypes, QueueTypes
    <3> QED
      BY <1>4, <3>1, <3>2
  <2>3. RestTypes' /\ QueueTypes'
    BY <1>1, <1>4, <2>1, <2>2 DEF relayVars, RestTypes, QueueTypes
  <2>4. PhoneTypes'
    BY <1>1, <1>4, <2>2 DEF PhoneTypes
  <2> QED
    BY <1>2, <2>3, <2>4, NextTypes
<1> QED
  BY <1>3, <1>4 DEF PhoneConnects

(* The phone shakes hands again when the host is back.                     *)
LEMMA PhoneReshakesKept == IInv /\ PhoneReshakes => IInv'
<1> SUFFICES ASSUME IInv, PhoneReshakes PROVE IInv'
  OBVIOUS
<1>1. RestTypes /\ QueueTypes /\ HostTypes /\ PhoneTypes
  BY Types DEF IInv
<1>2. Sessions' /\ HostTypes'
  BY HostKept DEF PhoneReshakes
<1>3. down' \in [Side -> Seq(Msg)]
  BY PhoneMessage DEF PhoneReshakes, IInv
<1>4. /\ up' \in [Conn -> Seq(Msg)] /\ pending' \in Nat /\ phoneChan' \in Nat
      /\ phoneAtt' \in BOOLEAN /\ shakes' \in Nat
  BY PhoneShakesFacts DEF PhoneReshakes, IInv
<1>5. UNCHANGED <<contID, lastRecv, dirty, asks, restarts, dialed, ws, authed, relayVars>>
  BY DEF PhoneReshakes
<1>6. RestTypes' /\ QueueTypes' /\ PhoneTypes'
  BY <1>1, <1>3, <1>4, <1>5 DEF relayVars, RestTypes, QueueTypes, PhoneTypes
<1> QED
  BY <1>2, <1>6, NextTypes

(* The phone acknowledges or asks.                                         *)
LEMMA PhoneWritesKept == IInv /\ (PhoneAcks \/ PhoneAsks) => IInv'
<1> SUFFICES ASSUME IInv, PhoneAcks \/ PhoneAsks PROVE IInv'
  OBVIOUS
<1>1. RestTypes /\ QueueTypes /\ HostTypes /\ PhoneTypes
  BY Types DEF IInv
<1>2. Sessions' /\ HostTypes'
  BY HostKept DEF PhoneAcks, PhoneAsks
<1>3. \E frame \in Msg : PhoneSends(frame)
  <2>1. phoneChan \in Nat /\ contID \in Nat /\ lastRecv \in Nat
    BY <1>1 DEF PhoneTypes
  <2>2. /\ Frame("ack", phoneChan, contID, lastRecv, FALSE) \in Msg
        /\ Frame("ask", phoneChan, contID, 0, FALSE) \in Msg
    BY <2>1 DEF Frame, Msg, Kind
  <2> QED
    BY <2>2 DEF PhoneAcks, PhoneAsks
<1>4. up' \in [Conn -> Seq(Msg)] /\ phoneChan' \in Nat /\ phoneAtt' \in BOOLEAN
  BY <1>3, PhoneSendsFacts DEF IInv
<1>5. /\ UNCHANGED <<pending, contID, lastRecv, shakes, restarts, dialed, ws, authed, relayVars, down>>
      /\ asks' \in {asks, asks + 1} /\ (dirty' = FALSE \/ dirty' = dirty)
  BY DEF PhoneAcks, PhoneAsks
<1>6. RestTypes' /\ QueueTypes'
  BY <1>1, <1>4, <1>5 DEF relayVars, RestTypes, QueueTypes
<1>7. dirty' \in BOOLEAN
  BY <1>1, <1>5 DEF PhoneTypes
<1>8. asks' \in Nat
  BY <1>1, <1>5 DEF PhoneTypes
<1>9. PhoneTypes'
  BY <1>1, <1>4, <1>5, <1>7, <1>8 DEF PhoneTypes
<1> QED
  BY <1>2, <1>6, <1>9, NextTypes

(* The phone loses its socket or starts again.                             *)
LEMMA PhoneHangsUpKept == IInv /\ (PhoneHangsUp \/ PhoneRestarts) => IInv'
<1> SUFFICES ASSUME IInv, PhoneHangsUp \/ PhoneRestarts PROVE IInv'
  OBVIOUS
<1>1. PhoneTypes /\ RelayTypeOK
  BY Types DEF IInv, TypeOK
<1>2. Sessions' /\ HostTypes'
  BY HostKept DEF PhoneHangsUp, PhoneRestarts
<1>3. RestTypes' /\ QueueTypes'
  BY <1>1, HangUpKept, Parts DEF PhoneHangsUp, PhoneRestarts, Side
<1>4. PhoneTypes'
  <2>1. CASE PhoneHangsUp
    BY <1>1, <2>1 DEF PhoneHangsUp, PhoneTypes
  <2>2. CASE PhoneRestarts
    <3>1. /\ pending' = 0 /\ phoneChan' = 0 /\ contID' = 0 /\ lastRecv' = 0
          /\ restarts' = restarts + 1 /\ UNCHANGED <<shakes, asks>>
      BY <2>2 DEF PhoneRestarts
    <3>2. phoneAtt' \in BOOLEAN /\ dirty' \in BOOLEAN
      BY <2>2 DEF PhoneRestarts
    <3> QED
      BY <1>1, <3>1, <3>2 DEF PhoneTypes
  <2> QED
    BY <2>1, <2>2
<1> QED
  BY <1>2, <1>3, <1>4, NextTypes

(* The relay moves a message.                                              *)
LEMMA RelayNextKept == IInv /\ RelayNext => IInv'
<1> SUFFICES ASSUME IInv, RelayNext PROVE IInv'
  OBVIOUS
<1>1. PhoneTypes /\ RelayTypeOK
  BY Types DEF IInv, TypeOK
<1>2. Sessions' /\ HostTypes'
  BY HostKept DEF RelayNext
<1>3. RestTypes' /\ QueueTypes'
  BY <1>1, RelayStepKept, Parts DEF RelayNext
<1>4. PhoneTypes'
  BY <1>1 DEF RelayNext, phoneVars, PhoneTypes
<1> QED
  BY <1>2, <1>3, <1>4, NextTypes

(* Nothing happens.                                                        *)
LEMMA Stuttering == IInv /\ UNCHANGED vars => IInv'
<1> SUFFICES ASSUME IInv, UNCHANGED vars PROVE IInv'
  OBVIOUS
<1>1. RestTypes /\ QueueTypes /\ PhoneTypes
  BY Types DEF IInv
<1>2. Sessions' /\ HostTypes'
  BY HostKept DEF vars
<1>3. RestTypes' /\ QueueTypes' /\ PhoneTypes'
  BY <1>1 DEF vars, netVars, relayVars, phoneVars, RestTypes, QueueTypes, PhoneTypes
<1> QED
  BY <1>2, <1>3, NextTypes

(* What the host keeps of a session is consistent with what the session    *)
(* emitted, after any step of either side, the relay or the network.       *)
THEOREM LinkInvariant == Spec => []IInv
<1>1. IInv /\ [Next]_vars => IInv'
  <2> SUFFICES ASSUME IInv, [Next]_vars PROVE IInv'
    OBVIOUS
  <2>1. CASE HostNext
    BY <2>1, HostConnectsKept, HostShakesKept, HostReadsKept, HostResumesKept, HostRenewsKept,
       HostTrimsKept, HostHangsUpKept DEF HostNext
  <2>2. CASE HostEmits \/ HostRestarts
    BY <2>2, HostEmitsKept, HostRestartsKept
  <2>3. CASE PhoneNext
    BY <2>3, PhoneConnectsKept, PhoneReshakesKept, PhoneReadsKept, PhoneCompletesKept,
       PhoneHangsUpKept DEF PhoneNext
  <2>4. CASE PhoneAcks \/ PhoneAsks \/ PhoneRestarts
    BY <2>4, PhoneWritesKept, PhoneHangsUpKept
  <2>5. CASE RelayNext
    BY <2>5, RelayNextKept
  <2>6. CASE UNCHANGED vars
    BY <2>6, Stuttering
  <2> QED
    BY <2>1, <2>2, <2>3, <2>4, <2>5, <2>6 DEF Next
<1> QED
  BY Initially, <1>1, PTL DEF Spec

(* Every message and counter of the link keeps its type.                   *)
THEOREM LinkTypes == Spec => []TypeOK
<1>1. IInv => TypeOK
  BY DEF IInv
<1> QED
  BY <1>1, LinkInvariant, PTL

(* Whenever the host would resume a phone, its replay is every line the    *)
(* phone missed and none twice, however many were dropped, acknowledged    *)
(* late or emitted while the phone was away (append, ackTo, replayFrom).   *)
THEOREM ReplaysAreComplete == Spec => []ReplayIsComplete
<1>1. IInv => ReplayIsComplete
  <2> SUFFICES ASSUME IInv, app # 0, NEW n \in 0 .. emitted[app], Bridges(spool, n)
               PROVE  After(spool.entries, n) = [i \in 1 .. emitted[app] - n |-> n + i]
    BY DEF ReplayIsComplete
  <2>1. spool \in Spool /\ emitted[app] \in Nat
    BY Types DEF IInv, HostTypes, Session
  <2>2. Retained(spool, emitted[app])
    BY DEF IInv, Sessions
  <2> QED
    BY <2>1, <2>2, ReplayFacts
<1> QED
  BY <1>1, LinkInvariant, PTL

(***************************************************************************)
(* What is under way between host and phone.                               *)
(***************************************************************************)
NoteKind == {"ok", "up", "down", "lost"}

(* The messages of a queue, and those ahead of its i-th.                   *)
Elems(q) == {q[i] : i \in 1 .. Len(q)}
Ahead(q, i) == {q[j] : j \in 1 .. i - 1}

(* What the relay took from socket k of s and has not sent yet, with what  *)
(* it has still to read from it.                                           *)
InHand(s, k) == IF phase[<<s, k>>] = "routing" THEN {held[<<s, k>>].msg} ELSE {}
Pipe(s, k) == InHand(s, k) \cup Elems(up[<<s, k>>])

(* The frames that s wrote and its peer has not read.                      *)
Flight(s) ==
  {m \in Elems(down[Peer(s)]) \cup UNION {Pipe(s, k) : k \in 1 .. MaxConns} : m.kind \notin NoteKind}
ToHost == Flight("phone")
ToPhone == Flight("host")

(* Frames that are sent once in a handshake.                               *)
Twin(a, b) == a.kind \in {"hs1", "attach", "attached"} /\ a.kind = b.kind /\ a.chan = b.chan
Apart(X, Y) == \A x \in X, y \in Y : ~Twin(x, y)
Single(q) == \A i \in 1 .. Len(q) : Apart({q[i]}, Ahead(q, i))

(* No such frame is under way twice.                                       *)
Once(s) ==
  /\ Single(down[Peer(s)])
  /\ \A k \in 1 .. MaxConns :
       /\ Single(up[<<s, k>>])
       /\ Apart(InHand(s, k), Elems(up[<<s, k>>]))
       /\ Apart(Elems(down[Peer(s)]), Pipe(s, k))
  /\ \A k, j \in 1 .. MaxConns : k # j => Apart(Pipe(s, k), Pipe(s, j))

(* A message more at the end of a queue.                                   *)
LEMMA AppendElems ==
  ASSUME NEW q \in Seq(Msg), NEW m \in Msg
  PROVE  /\ Elems(Append(q, m)) = Elems(q) \cup {m}
         /\ Len(Append(q, m)) = Len(q) + 1
         /\ \A i \in 1 .. Len(q) : Append(q, m)[i] = q[i] /\ Ahead(Append(q, m), i) = Ahead(q, i)
         /\ Append(q, m)[Len(q) + 1] = m /\ Ahead(Append(q, m), Len(q) + 1) = Elems(q)
<1> DEFINE p == Append(q, m)
<1>1. /\ Len(q) \in Nat /\ Len(p) = Len(q) + 1 /\ p[Len(q) + 1] = m
      /\ \A i \in 1 .. Len(q) : p[i] = q[i]
  OBVIOUS
<1> HIDE DEF p
<1>2. Elems(p) = Elems(q) \cup {m}
  <2>1. \A x \in Elems(p) : x \in Elems(q) \cup {m}
    <3> TAKE x \in Elems(p)
    <3>1. PICK i \in 1 .. Len(p) : x = p[i]
      BY DEF Elems
    <3>2. i = Len(q) + 1 \/ i \in 1 .. Len(q)
      BY <1>1
    <3> QED
      BY <1>1, <3>1, <3>2 DEF Elems
  <2>2. \A x \in Elems(q) : x \in Elems(p)
    <3> TAKE x \in Elems(q)
    <3>1. PICK i \in 1 .. Len(q) : x = q[i]
      BY DEF Elems
    <3>2. i \in 1 .. Len(p) /\ p[i] = x
      BY <1>1, <3>1
    <3> QED
      BY <3>2 DEF Elems
  <2>3. m \in Elems(p)
    <3>1. Len(q) + 1 \in 1 .. Len(p)
      BY <1>1
    <3> QED
      BY <1>1, <3>1 DEF Elems
  <2> QED
    BY <2>1, <2>2, <2>3
<1>3. \A i \in 1 .. Len(q) : Ahead(p, i) = Ahead(q, i)
  <2> TAKE i \in 1 .. Len(q)
  <2>1. \A j \in 1 .. i - 1 : p[j] = q[j]
    BY <1>1
  <2> QED
    BY <2>1 DEF Ahead
<1>4. Ahead(p, Len(q) + 1) = Elems(q)
  <2>1. Len(q) + 1 - 1 = Len(q)
    BY <1>1
  <2>2. \A j \in 1 .. Len(q) : p[j] = q[j]
    BY <1>1
  <2> QED
    BY <2>1, <2>2 DEF Ahead, Elems
<1> QED
  BY <1>1, <1>2, <1>3, <1>4 DEF p

(* The first message of a queue is read.                                   *)
LEMMA TailElems ==
  ASSUME NEW q \in Seq(Msg), q # <<>>
  PROVE  /\ Head(q) \in Msg /\ Tail(q) \in Seq(Msg)
         /\ Elems(q) = {Head(q)} \cup Elems(Tail(q))
         /\ Len(Tail(q)) = Len(q) - 1 /\ Len(q) \in Nat \ {0}
         /\ q[1] = Head(q) /\ Ahead(q, 1) = {}
         /\ \A i \in 1 .. Len(Tail(q)) :
              i + 1 \in 1 .. Len(q) /\ Tail(q)[i] = q[i + 1] /\ Ahead(q, i + 1) = {Head(q)} \cup Ahead(Tail(q), i)
<1> DEFINE p == Tail(q)
           h == Head(q)
<1>1. /\ Len(q) \in Nat \ {0} /\ Len(p) = Len(q) - 1 /\ q[1] = h /\ h \in Msg /\ p \in Seq(Msg)
      /\ \A i \in 1 .. Len(p) : p[i] = q[i + 1]
  BY HeadTailProperties, EmptySeq
<1> HIDE DEF p, h
<1>2. \A i \in 1 .. Len(p) : i + 1 \in 1 .. Len(q) /\ i \in 1 .. Len(q) - 1
  BY <1>1
<1>3. \A i \in 1 .. Len(q) : i = 1 \/ (i - 1 \in 1 .. Len(p) /\ (i - 1) + 1 = i)
  BY <1>1
<1>4. Elems(q) = {h} \cup Elems(p)
  <2>1. \A x \in Elems(q) : x \in {h} \cup Elems(p)
    <3> TAKE x \in Elems(q)
    <3>1. PICK i \in 1 .. Len(q) : x = q[i]
      BY DEF Elems
    <3>2. CASE i = 1
      BY <1>1, <3>1, <3>2
    <3>3. CASE i # 1
      <4>1. i - 1 \in 1 .. Len(p) /\ p[i - 1] = x
        BY <1>1, <1>3, <3>1, <3>3
      <4> QED
        BY <4>1 DEF Elems
    <3> QED
      BY <3>2, <3>3
  <2>2. \A x \in Elems(p) : x \in Elems(q)
    <3> TAKE x \in Elems(p)
    <3>1. PICK i \in 1 .. Len(p) : x = p[i]
      BY DEF Elems
    <3>2. i + 1 \in 1 .. Len(q) /\ q[i + 1] = x
      BY <1>1, <1>2, <3>1
    <3> QED
      BY <3>2 DEF Elems
  <2>3. h \in Elems(q)
    <3>1. 1 \in 1 .. Len(q)
      BY <1>1
    <3> QED
      BY <1>1, <3>1 DEF Elems
  <2> QED
    BY <2>1, <2>2, <2>3
<1>5. Ahead(q, 1) = {}
  BY DEF Ahead
<1>6. \A i \in 1 .. Len(p) : Ahead(q, i + 1) = {h} \cup Ahead(p, i)
  <2> TAKE i \in 1 .. Len(p)
  <2>0. i \in Nat \ {0} /\ i + 1 - 1 = i /\ i <= Len(p)
    BY <1>1
  <2>1. \A x \in Ahead(q, i + 1) : x \in {h} \cup Ahead(p, i)
    <3> TAKE x \in Ahead(q, i + 1)
    <3>1. PICK j \in 1 .. i : x = q[j]
      BY <2>0 DEF Ahead
    <3>2. CASE j = 1
      BY <1>1, <3>1, <3>2
    <3>3. CASE j # 1
      <4>1. j - 1 \in 1 .. i - 1 /\ j - 1 \in 1 .. Len(p) /\ (j - 1) + 1 = j
        BY <1>1, <2>0, <3>3
      <4>2. p[j - 1] = x
        BY <1>1, <3>1, <4>1
      <4> QED
        BY <4>1, <4>2 DEF Ahead
    <3> QED
      BY <3>2, <3>3
  <2>2. \A x \in Ahead(p, i) : x \in Ahead(q, i + 1)
    <3> TAKE x \in Ahead(p, i)
    <3>1. PICK j \in 1 .. i - 1 : x = p[j]
      BY DEF Ahead
    <3>2. j + 1 \in 1 .. i + 1 - 1 /\ j \in 1 .. Len(p)
      BY <1>1, <2>0
    <3>3. q[j + 1] = x
      BY <1>1, <3>1, <3>2
    <3> QED
      BY <3>2, <3>3 DEF Ahead
  <2>3. h \in Ahead(q, i + 1)
    <3>1. 1 \in 1 .. i + 1 - 1
      BY <2>0
    <3> QED
      BY <1>1, <3>1 DEF Ahead
  <2> QED
    BY <2>1, <2>2, <2>3
<1> QED
  BY <1>1, <1>2, <1>4, <1>5, <1>6 DEF p, h

(* A device writes several frames in a row.                                *)
LEMMA ConcatElems ==
  ASSUME NEW q \in Seq(Msg), NEW r \in Seq(Msg)
  PROVE  /\ q \o r \in Seq(Msg)
         /\ Elems(q \o r) = Elems(q) \cup Elems(r)
         /\ \A i \in 1 .. Len(q) : (q \o r)[i] = q[i] /\ Ahead(q \o r, i) = Ahead(q, i)
         /\ \A i \in 1 .. Len(q \o r) : i \in 1 .. Len(q) \/
              \E j \in 1 .. Len(r) : (q \o r)[i] = r[j] /\ Ahead(q \o r, i) = Elems(q) \cup Ahead(r, j)
<1> DEFINE p == q \o r
<1>1. /\ Len(q) \in Nat /\ Len(r) \in Nat /\ p \in Seq(Msg) /\ Len(p) = Len(q) + Len(r)
      /\ \A i \in 1 .. Len(p) : p[i] = IF i <= Len(q) THEN q[i] ELSE r[i - Len(q)]
  BY ConcatProperties
<1> HIDE DEF p
<1>2. \A i \in 1 .. Len(q) : i \in 1 .. Len(p) /\ p[i] = q[i]
  BY <1>1
<1>3. \A j \in 1 .. Len(r) : Len(q) + j \in 1 .. Len(p) /\ p[Len(q) + j] = r[j]
  <2> TAKE j \in 1 .. Len(r)
  <2>1. Len(q) + j \in 1 .. Len(p) /\ ~(Len(q) + j <= Len(q)) /\ Len(q) + j - Len(q) = j
    BY <1>1
  <2> QED
    BY <1>1, <2>1
<1>4. \A i \in 1 .. Len(p) : i \in 1 .. Len(q) \/ \E j \in 1 .. Len(r) : i = Len(q) + j
  <2> TAKE i \in 1 .. Len(p)
  <2>1. CASE i <= Len(q)
    BY <1>1, <2>1
  <2>2. CASE ~(i <= Len(q))
    <3>1. i - Len(q) \in 1 .. Len(r) /\ i = Len(q) + (i - Len(q))
      BY <1>1, <2>2
    <3> QED
      BY <3>1
  <2> QED
    BY <2>1, <2>2
<1>5. Elems(p) = Elems(q) \cup Elems(r)
  <2>1. \A x \in Elems(p) : x \in Elems(q) \cup Elems(r)
    <3> TAKE x \in Elems(p)
    <3>1. PICK i \in 1 .. Len(p) : x = p[i]
      BY DEF Elems
    <3> QED
      BY <1>2, <1>3, <1>4, <3>1 DEF Elems
  <2>2. \A x \in Elems(q) : x \in Elems(p)
    BY <1>2 DEF Elems
  <2>3. \A x \in Elems(r) : x \in Elems(p)
    <3> TAKE x \in Elems(r)
    <3>1. PICK j \in 1 .. Len(r) : x = r[j]
      BY DEF Elems
    <3>2. Len(q) + j \in 1 .. Len(p) /\ p[Len(q) + j] = x
      BY <1>3, <3>1
    <3> QED
      BY <3>2 DEF Elems
  <2> QED
    BY <2>1, <2>2, <2>3
<1>6. \A i \in 1 .. Len(q) : Ahead(p, i) = Ahead(q, i)
  <2> TAKE i \in 1 .. Len(q)
  <2>1. \A j \in 1 .. i - 1 : p[j] = q[j]
    BY <1>1, <1>2
  <2> QED
    BY <2>1 DEF Ahead
<1>7. \A j \in 1 .. Len(r) : Ahead(p, Len(q) + j) = Elems(q) \cup Ahead(r, j)
  <2> TAKE j \in 1 .. Len(r)
  <2>1. \A x \in Ahead(p, Len(q) + j) : x \in Elems(q) \cup Ahead(r, j)
    <3> TAKE x \in Ahead(p, Len(q) + j)
    <3>1. PICK i \in 1 .. Len(q) + j - 1 : x = p[i]
      BY DEF Ahead
    <3>2. CASE i <= Len(q)
      <4>1. i \in 1 .. Len(q)
        BY <1>1, <3>2
      <4> QED
        BY <1>2, <3>1, <4>1 DEF Elems
    <3>3. CASE ~(i <= Len(q))
      <4>1. i - Len(q) \in 1 .. j - 1 /\ i - Len(q) \in 1 .. Len(r) /\ Len(q) + (i - Len(q)) = i
        BY <1>1, <3>3
      <4>2. r[i - Len(q)] = x
        BY <1>3, <3>1, <4>1
      <4> QED
        BY <4>1, <4>2 DEF Ahead
    <3> QED
      BY <3>2, <3>3
  <2>2. \A x \in Elems(q) : x \in Ahead(p, Len(q) + j)
    <3> TAKE x \in Elems(q)
    <3>1. PICK i \in 1 .. Len(q) : x = q[i]
      BY DEF Elems
    <3>2. i \in 1 .. Len(q) + j - 1 /\ p[i] = x
      BY <1>1, <1>2, <3>1
    <3> QED
      BY <3>2 DEF Ahead
  <2>3. \A x \in Ahead(r, j) : x \in Ahead(p, Len(q) + j)
    <3> TAKE x \in Ahead(r, j)
    <3>1. PICK i \in 1 .. j - 1 : x = r[i]
      BY DEF Ahead
    <3>2. Len(q) + i \in 1 .. Len(q) + j - 1 /\ i \in 1 .. Len(r)
      BY <1>1
    <3> QED
      BY <1>3, <3>1, <3>2 DEF Ahead
  <2> QED
    BY <2>1, <2>2, <2>3
<1>8. \A i \in 1 .. Len(p) : i \in 1 .. Len(q) \/
        \E j \in 1 .. Len(r) : p[i] = r[j] /\ Ahead(p, i) = Elems(q) \cup Ahead(r, j)
  <2> TAKE i \in 1 .. Len(p)
  <2>1. CASE \E j \in 1 .. Len(r) : i = Len(q) + j
    BY <1>3, <1>7, <2>1
  <2> QED
    BY <1>4, <2>1
<1> QED
  BY <1>1, <1>2, <1>5, <1>6, <1>8 DEF p

(* Steps of the flow from s: at most a note enters the queue of its peer,  *)
(* or the peer leaves the socket and the queue with it; the relay drops    *)
(* what it holds of a socket; it takes the next message in hand; it passes *)
(* the one in hand on.                                                     *)
NoteEnters(s) ==
  \/ down'[Peer(s)] = down[Peer(s)] \/ down'[Peer(s)] = <<>>
  \/ \E m \in Msg : m.kind \in NoteKind /\ down'[Peer(s)] = Append(down[Peer(s)], m)
PipeStays(s, k) == InHand(s, k)' = InHand(s, k) /\ up'[<<s, k>>] = up[<<s, k>>]
Cuts(s) ==
  /\ NoteEnters(s)
  /\ \A k \in 1 .. MaxConns :
       /\ InHand(s, k)' \subseteq InHand(s, k)
       /\ up'[<<s, k>>] = up[<<s, k>>] \/ up'[<<s, k>>] = <<>>
Takes(s, n) ==
  /\ down'[Peer(s)] = down[Peer(s)]
  /\ up[<<s, n>>] # <<>> /\ InHand(s, n) = {}
  /\ InHand(s, n)' = {Head(up[<<s, n>>])} /\ up'[<<s, n>>] = Tail(up[<<s, n>>])
  /\ \A k \in 1 .. MaxConns : k # n => PipeStays(s, k)
PassesOn(s, n) ==
  /\ \E m \in Msg : InHand(s, n) = {m} /\ down'[Peer(s)] = Append(down[Peer(s)], m)
  /\ InHand(s, n)' = {} /\ up'[<<s, n>>] = up[<<s, n>>]
  /\ \A k \in 1 .. MaxConns : k # n => PipeStays(s, k)

(* A device reads from, or writes to, its end.                             *)
TakesIn(s) ==
  /\ down[Peer(s)] # <<>> /\ down'[Peer(s)] = Tail(down[Peer(s)])
  /\ \A k \in 1 .. MaxConns : PipeStays(s, k)
PutsIn(s, frames) ==
  /\ down'[Peer(s)] = down[Peer(s)]
  /\ \A k \in 1 .. MaxConns :
       /\ InHand(s, k)' = InHand(s, k)
       /\ up'[<<s, k>>] = IF k = ws[s] /\ Connected(s) THEN up[<<s, k>>] \o frames ELSE up[<<s, k>>]

(* The queues hold messages.                                               *)
LEMMA QueuesTyped ==
  ASSUME IInv, NEW s \in Side
  PROVE  /\ Peer(s) \in Side /\ down[Peer(s)] \in Seq(Msg)
         /\ \A k \in 1 .. MaxConns : up[<<s, k>>] \in Seq(Msg) /\ InHand(s, k) \subseteq Msg
<1>1. RestTypes /\ QueueTypes
  BY Types DEF IInv
<1>2. Peer(s) \in Side
  BY DEF Peer, Side
<1>3. \A k \in 1 .. MaxConns : <<s, k>> \in Conn
  BY DEF Conn
<1> QED
  BY <1>1, <1>2, <1>3 DEF RestTypes, QueueTypes, InHand

(* Elements of a typed queue.                                              *)
LEMMA ElemsTyped ==
  ASSUME NEW q \in Seq(Msg)
  PROVE  Elems(q) \subseteq Msg
BY DEF Elems

(* All frames under way are messages.                                      *)
LEMMA FlightTyped ==
  ASSUME IInv, NEW s \in Side
  PROVE  Flight(s) \subseteq Msg
<1>1. /\ down[Peer(s)] \in Seq(Msg)
      /\ \A k \in 1 .. MaxConns : up[<<s, k>>] \in Seq(Msg) /\ InHand(s, k) \subseteq Msg
  BY QueuesTyped
<1>2. Elems(down[Peer(s)]) \subseteq Msg /\ \A k \in 1 .. MaxConns : Pipe(s, k) \subseteq Msg
  BY <1>1, ElemsTyped DEF Pipe
<1> QED
  BY <1>2 DEF Flight

(* Where a frame under way can be.                                         *)
LEMMA FlightPlaces ==
  ASSUME NEW s, NEW m
  PROVE  m \in Flight(s) <=>
           /\ m.kind \notin NoteKind
           /\ m \in Elems(down[Peer(s)]) \/ \E k \in 1 .. MaxConns : m \in Pipe(s, k)
BY DEF Flight

(* The same in the next state.                                             *)
LEMMA FlightPlacesNext ==
  ASSUME NEW s, NEW m
  PROVE  m \in Flight(s)' <=>
           /\ m.kind \notin NoteKind
           /\ m \in Elems(down'[Peer(s)]) \/ \E k \in 1 .. MaxConns : m \in Pipe(s, k)'
BY DEF Flight, Peer

(* A pipe of the next state.                                               *)
LEMMA PipeNext ==
  ASSUME NEW s, NEW k
  PROVE  Pipe(s, k)' = InHand(s, k)' \cup Elems(up'[<<s, k>>])
BY DEF Pipe, Elems

(* Nothing is in an empty queue.                                           *)
LEMMA NoElems == Elems(<<>>) = {} /\ Single(<<>>)
BY DEF Elems, Single

(* A twin has one.                                                         *)
LEMMA TwinSym ==
  ASSUME NEW X, NEW Y, Apart(X, Y)
  PROVE  Apart(Y, X)
BY DEF Apart, Twin

(* A message at the end of a queue that has no twin in it.                 *)
LEMMA SingleAppend ==
  ASSUME NEW q \in Seq(Msg), NEW m \in Msg, Single(q), Apart({m}, Elems(q))
  PROVE  Single(Append(q, m))
<1> DEFINE p == Append(q, m)
<1>1. /\ Len(p) = Len(q) + 1 /\ Len(q) \in Nat
      /\ \A i \in 1 .. Len(q) : p[i] = q[i] /\ Ahead(p, i) = Ahead(q, i)
      /\ p[Len(q) + 1] = m /\ Ahead(p, Len(q) + 1) = Elems(q)
  BY AppendElems
<1> HIDE DEF p
<1>2. \A i \in 1 .. Len(p) : Apart({p[i]}, Ahead(p, i))
  <2> TAKE i \in 1 .. Len(p)
  <2>1. i = Len(q) + 1 \/ i \in 1 .. Len(q)
    BY <1>1
  <2> QED
    BY <1>1, <2>1 DEF Single
<1> QED
  BY <1>2 DEF Single, p

(* The rest of a queue, and what was read from it.                         *)
LEMMA SingleTail ==
  ASSUME NEW q \in Seq(Msg), q # <<>>, Single(q)
  PROVE  Single(Tail(q)) /\ Apart({Head(q)}, Elems(Tail(q)))
<1> DEFINE p == Tail(q)
           h == Head(q)
<1>1. \A i \in 1 .. Len(p) : i + 1 \in 1 .. Len(q) /\ p[i] = q[i + 1] /\ Ahead(q, i + 1) = {h} \cup Ahead(p, i)
  BY TailElems
<1> HIDE DEF p, h
<1>2. \A i \in 1 .. Len(p) : Apart({p[i]}, {h} \cup Ahead(p, i))
  <2> TAKE i \in 1 .. Len(p)
  <2>1. i + 1 \in 1 .. Len(q) /\ p[i] = q[i + 1] /\ Ahead(q, i + 1) = {h} \cup Ahead(p, i)
    BY <1>1
  <2>2. Apart({q[i + 1]}, Ahead(q, i + 1))
    BY <2>1 DEF Single
  <2> QED
    BY <2>1, <2>2
<1>3. Single(p)
  BY <1>2 DEF Single, Apart
<1>4. Apart({h}, Elems(p))
  <2> SUFFICES ASSUME NEW y \in Elems(p) PROVE ~Twin(h, y)
    BY DEF Apart
  <2>1. PICK i \in 1 .. Len(p) : y = p[i]
    BY DEF Elems
  <2>2. ~Twin(y, h)
    BY <1>2, <2>1 DEF Apart
  <2> QED
    BY <2>2 DEF Twin
<1> QED
  BY <1>3, <1>4 DEF p, h

(* Several frames at the end.                                              *)
LEMMA SingleConcat ==
  ASSUME NEW q \in Seq(Msg), NEW r \in Seq(Msg), Single(q), Single(r), Apart(Elems(r), Elems(q))
  PROVE  Single(q \o r)
<1> DEFINE p == q \o r
<1>1. /\ \A i \in 1 .. Len(q) : p[i] = q[i] /\ Ahead(p, i) = Ahead(q, i)
      /\ \A i \in 1 .. Len(p) : i \in 1 .. Len(q) \/
           \E j \in 1 .. Len(r) : p[i] = r[j] /\ Ahead(p, i) = Elems(q) \cup Ahead(r, j)
  BY ConcatElems
<1> HIDE DEF p
<1>2. \A i \in 1 .. Len(p) : Apart({p[i]}, Ahead(p, i))
  <2> TAKE i \in 1 .. Len(p)
  <2>1. CASE i \in 1 .. Len(q)
    BY <1>1, <2>1 DEF Single
  <2>2. CASE i \notin 1 .. Len(q)
    <3>1. PICK j \in 1 .. Len(r) : p[i] = r[j] /\ Ahead(p, i) = Elems(q) \cup Ahead(r, j)
      BY <1>1, <2>2
    <3>2. Apart({r[j]}, Ahead(r, j)) /\ r[j] \in Elems(r)
      BY DEF Single, Elems
    <3> QED
      BY <3>1, <3>2 DEF Apart
  <2> QED
    BY <2>1, <2>2
<1> QED
  BY <1>2 DEF Single, p

(* What a step of the flow leaves under way, and that it keeps one of each *)
(* kind that is sent once.                                                 *)
LEMMA CutsFlow ==
  ASSUME IInv, NEW s \in Side, Cuts(s)
  PROVE  Flight(s)' \subseteq Flight(s) /\ (Once(s) => Once(s)')
<1> DEFINE p == Peer(s)
<1>1. /\ down[p] \in Seq(Msg)
      /\ \A k \in 1 .. MaxConns : up[<<s, k>>] \in Seq(Msg) /\ InHand(s, k) \subseteq Msg
  BY QueuesTyped
<1>2. /\ \A x \in Elems(down'[p]) : x \in Elems(down[p]) \/ x.kind \in NoteKind
      /\ Single(down[p]) => Single(down'[p])
  <2>1. CASE down'[p] = down[p]
    BY <2>1
  <2>2. CASE \E m \in Msg : m.kind \in NoteKind /\ down'[p] = Append(down[p], m)
    <3>1. PICK m \in Msg : m.kind \in NoteKind /\ down'[p] = Append(down[p], m)
      BY <2>2
    <3>2. Elems(down'[p]) = Elems(down[p]) \cup {m}
      BY <1>1, <3>1, AppendElems
    <3>3. Apart({m}, Elems(down[p]))
      BY <3>1 DEF Apart, Twin, NoteKind
    <3> QED
      BY <1>1, <3>1, <3>2, <3>3, SingleAppend
  <2>3. CASE down'[p] = <<>>
    BY <2>3, NoElems
  <2> QED
    BY <2>1, <2>2, <2>3 DEF Cuts, NoteEnters
<1>3. \A k \in 1 .. MaxConns :
        /\ InHand(s, k)' \subseteq InHand(s, k) /\ Elems(up'[<<s, k>>]) \subseteq Elems(up[<<s, k>>])
        /\ Single(up[<<s, k>>]) => Single(up'[<<s, k>>])
  BY NoElems DEF Cuts
<1>4. \A k \in 1 .. MaxConns : Pipe(s, k)' \subseteq Pipe(s, k)
  BY <1>3, PipeNext DEF Pipe
<1>5. Flight(s)' \subseteq Flight(s)
  BY <1>2, <1>4, FlightPlaces, FlightPlacesNext
<1>6. ASSUME Once(s) PROVE Once(s)'
  <2>1. Single(down'[p])
    BY <1>2, <1>6 DEF Once
  <2>2. \A k \in 1 .. MaxConns : Single(up'[<<s, k>>]) /\ Apart(InHand(s, k)', Elems(up'[<<s, k>>]))
    BY <1>3, <1>6 DEF Once, Apart
  <2>3. \A k \in 1 .. MaxConns : Apart(Elems(down'[p]), Pipe(s, k)')
    <3> SUFFICES ASSUME NEW k \in 1 .. MaxConns, NEW x \in Elems(down'[p]), NEW y \in Pipe(s, k)'
                 PROVE  ~Twin(x, y)
      BY DEF Apart
    <3>1. y \in Pipe(s, k)
      BY <1>4
    <3>2. Apart(Elems(down[p]), Pipe(s, k))
      BY <1>6 DEF Once
    <3> QED
      BY <1>2, <3>1, <3>2 DEF Apart, Twin, NoteKind
  <2>4. \A k, j \in 1 .. MaxConns : k # j => Apart(Pipe(s, k)', Pipe(s, j)')
    BY <1>4, <1>6 DEF Once, Apart
  <2> QED
    BY <2>1, <2>2, <2>3, <2>4 DEF Once, Apart, Peer, Single, Ahead, Elems
<1> QED
  BY <1>5, <1>6

(* The parts of Once, of the next state.                                   *)
LEMMA OnceNext ==
  ASSUME NEW s, Single(down'[Peer(s)]),
         \A k \in 1 .. MaxConns :
           /\ Single(up'[<<s, k>>])
           /\ Apart(InHand(s, k)', Elems(up'[<<s, k>>]))
           /\ Apart(Elems(down'[Peer(s)]), Pipe(s, k)'),
         \A k, j \in 1 .. MaxConns : k # j => Apart(Pipe(s, k)', Pipe(s, j)')
  PROVE  Once(s)'
BY DEF Once, Apart, Peer, Single, Ahead, Elems

(* The relay takes the next message in hand.                               *)
LEMMA TakesFlow ==
  ASSUME IInv, NEW s \in Side, NEW n \in 1 .. MaxConns, Takes(s, n)
  PROVE  Flight(s)' \subseteq Flight(s) /\ (Once(s) => Once(s)')
<1> DEFINE p == Peer(s)
           q == up[<<s, n>>]
<1>1. q \in Seq(Msg) /\ q # <<>>
  BY QueuesTyped DEF Takes
<1>2. /\ down'[p] = down[p]
      /\ InHand(s, n) = {} /\ InHand(s, n)' = {Head(q)} /\ up'[<<s, n>>] = Tail(q)
      /\ \A k \in 1 .. MaxConns : k # n => PipeStays(s, k)
  BY DEF Takes
<1>3. Elems(q) = {Head(q)} \cup Elems(Tail(q))
  BY <1>1, TailElems
<1>4. \A k \in 1 .. MaxConns : Pipe(s, k)' = Pipe(s, k)
  <2> TAKE k \in 1 .. MaxConns
  <2>1. CASE k = n
    BY <1>2, <1>3, <2>1, PipeNext DEF Pipe
  <2>2. CASE k # n
    BY <1>2, <2>2, PipeNext DEF Pipe, PipeStays
  <2> QED
    BY <2>1, <2>2
<1>5. Flight(s)' \subseteq Flight(s)
  BY <1>2, <1>4, FlightPlaces, FlightPlacesNext
<1>6. ASSUME Once(s) PROVE Once(s)'
  <2>1. Single(down'[p])
    BY <1>2, <1>6 DEF Once
  <2>2. \A k \in 1 .. MaxConns :
          /\ Single(up'[<<s, k>>]) /\ Apart(InHand(s, k)', Elems(up'[<<s, k>>]))
          /\ Apart(Elems(down'[p]), Pipe(s, k)')
    <3> TAKE k \in 1 .. MaxConns
    <3>1. Apart(Elems(down'[p]), Pipe(s, k)')
      BY <1>2, <1>4, <1>6 DEF Once
    <3>2. CASE k = n
      <4>1. Single(q)
        BY <1>6 DEF Once
      <4> QED
        BY <1>1, <1>2, <3>1, <3>2, <4>1, SingleTail
    <3>3. CASE k # n
      BY <1>2, <1>6, <3>1, <3>3 DEF Once, PipeStays
    <3> QED
      BY <3>2, <3>3
  <2>3. \A k, j \in 1 .. MaxConns : k # j => Apart(Pipe(s, k)', Pipe(s, j)')
    BY <1>4, <1>6 DEF Once
  <2> QED
    BY <2>1, <2>2, <2>3, OnceNext
<1> QED
  BY <1>5, <1>6

(* The relay passes it on.                                                 *)
LEMMA PassesOnFlow ==
  ASSUME IInv, NEW s \in Side, NEW n \in 1 .. MaxConns, PassesOn(s, n)
  PROVE  Flight(s)' \subseteq Flight(s) /\ (Once(s) => Once(s)')
<1> DEFINE p == Peer(s)
<1>1. down[p] \in Seq(Msg)
  BY QueuesTyped
<1>2. PICK m \in Msg : InHand(s, n) = {m} /\ down'[p] = Append(down[p], m)
  BY DEF PassesOn
<1>3. /\ InHand(s, n)' = {} /\ up'[<<s, n>>] = up[<<s, n>>]
      /\ \A k \in 1 .. MaxConns : k # n => PipeStays(s, k)
  BY DEF PassesOn
<1>4. Elems(down'[p]) = Elems(down[p]) \cup {m}
  BY <1>1, <1>2, AppendElems
<1>5. m \in Pipe(s, n) /\ Pipe(s, n)' = Elems(up[<<s, n>>])
  BY <1>2, <1>3, PipeNext DEF Pipe
<1>6. \A k \in 1 .. MaxConns : k # n => Pipe(s, k)' = Pipe(s, k)
  BY <1>3, PipeNext DEF Pipe, PipeStays
<1>7. \A k \in 1 .. MaxConns : Pipe(s, k)' \subseteq Pipe(s, k)
  BY <1>5, <1>6 DEF Pipe
<1>8. Flight(s)' \subseteq Flight(s)
  BY <1>4, <1>5, <1>7, FlightPlaces, FlightPlacesNext
<1>9. ASSUME Once(s) PROVE Once(s)'
  <2>1. Single(down'[p])
    <3>1. Apart({m}, Elems(down[p]))
      <4>1. Apart(Elems(down[p]), Pipe(s, n))
        BY <1>9 DEF Once
      <4> QED
        BY <1>5, <4>1 DEF Apart, Twin
    <3>2. Single(down[p])
      BY <1>9 DEF Once
    <3> QED
      BY <1>1, <1>2, <3>1, <3>2, SingleAppend
  <2>2. \A k \in 1 .. MaxConns : Apart({m}, Pipe(s, k)')
    <3> TAKE k \in 1 .. MaxConns
    <3>1. CASE k = n
      <4>1. Apart(InHand(s, n), Elems(up[<<s, n>>]))
        BY <1>9 DEF Once
      <4> QED
        BY <1>2, <1>5, <3>1, <4>1
    <3>2. CASE k # n
      <4>1. Apart(Pipe(s, n), Pipe(s, k))
        BY <1>9, <3>2 DEF Once
      <4> QED
        BY <1>5, <1>6, <3>2, <4>1 DEF Apart
    <3> QED
      BY <3>1, <3>2
  <2>3. \A k \in 1 .. MaxConns :
          /\ Single(up'[<<s, k>>]) /\ Apart(InHand(s, k)', Elems(up'[<<s, k>>]))
          /\ Apart(Elems(down'[p]), Pipe(s, k)')
    <3> TAKE k \in 1 .. MaxConns
    <3>1. Apart(Elems(down[p]), Pipe(s, k))
      BY <1>9 DEF Once
    <3>2. Apart(Elems(down'[p]), Pipe(s, k)')
      BY <1>4, <1>7, <2>2, <3>1 DEF Apart
    <3>3. up'[<<s, k>>] = up[<<s, k>>] /\ InHand(s, k)' \subseteq InHand(s, k)
      BY <1>3 DEF PipeStays
    <3> QED
      BY <1>9, <3>2, <3>3 DEF Once, Apart
  <2>4. \A k, j \in 1 .. MaxConns : k # j => Apart(Pipe(s, k)', Pipe(s, j)')
    BY <1>7, <1>9 DEF Once, Apart
  <2> QED
    BY <2>1, <2>3, <2>4, OnceNext
<1> QED
  BY <1>8, <1>9

(* The peer reads: what it read is no longer under way, nor is a twin.     *)
LEMMA TakesInFlow ==
  ASSUME IInv, NEW s \in Side, TakesIn(s)
  PROVE  LET m == Head(down[Peer(s)]) IN
         /\ Flight(s)' \subseteq Flight(s)
         /\ m.kind \notin NoteKind => m \in Flight(s)
         /\ Once(s) => Once(s)' /\ Apart({m}, Flight(s)')
<1> DEFINE q == down[Peer(s)]
           m == Head(q)
<1>1. q \in Seq(Msg) /\ q # <<>> /\ down'[Peer(s)] = Tail(q)
  BY QueuesTyped DEF TakesIn
<1>2. Elems(q) = {m} \cup Elems(Tail(q))
  BY <1>1, TailElems
<1>3. \A k \in 1 .. MaxConns : Pipe(s, k)' = Pipe(s, k)
  BY PipeNext DEF TakesIn, PipeStays, Pipe
<1> HIDE DEF m
<1>4. /\ Flight(s)' \subseteq Flight(s)
      /\ m.kind \notin NoteKind => m \in Flight(s)
  BY <1>1, <1>2, <1>3, FlightPlaces, FlightPlacesNext
<1>5. ASSUME Once(s) PROVE Once(s)' /\ Apart({m}, Flight(s)')
  <2>1. Single(Tail(q)) /\ Apart({m}, Elems(Tail(q)))
    BY <1>1, <1>5, SingleTail DEF Once, m
  <2>2. \A k \in 1 .. MaxConns : Apart(Elems(q), Pipe(s, k))
    BY <1>5 DEF Once
  <2>3. Apart({m}, Flight(s)')
    BY <1>1, <1>2, <1>3, <2>1, <2>2, FlightPlacesNext DEF Apart
  <2>4. \A k \in 1 .. MaxConns :
          /\ Single(up'[<<s, k>>]) /\ Apart(InHand(s, k)', Elems(up'[<<s, k>>]))
          /\ Apart(Elems(Tail(q)), Pipe(s, k)')
    BY <1>2, <1>3, <1>5 DEF Once, TakesIn, PipeStays, Apart
  <2>5. \A k, j \in 1 .. MaxConns : k # j => Apart(Pipe(s, k)', Pipe(s, j)')
    BY <1>3, <1>5 DEF Once
  <2> QED
    BY <1>1, <2>1, <2>3, <2>4, <2>5, OnceNext
<1> QED
  BY <1>4, <1>5 DEF m

(* A device writes frames of which no twin is under way.                   *)
LEMMA PutsInFlow ==
  ASSUME IInv, NEW s \in Side, NEW frames \in Seq(Msg), PutsIn(s, frames)
  PROVE  /\ Flight(s)' \subseteq Flight(s) \cup Elems(frames)
         /\ ~Connected(s) => Flight(s)' \subseteq Flight(s)
         /\ /\ Once(s) /\ Single(frames) /\ Apart(Elems(frames), Flight(s))
            /\ \A m \in Elems(frames) : m.kind \notin NoteKind
            => Once(s)'
<1> DEFINE p == Peer(s)
           w == ws[s]
           new == IF Connected(s) THEN Elems(frames) ELSE {}
<1>1. \A k \in 1 .. MaxConns : up[<<s, k>>] \in Seq(Msg)
  BY QueuesTyped
<1>2. /\ down'[p] = down[p]
      /\ \A k \in 1 .. MaxConns :
           /\ InHand(s, k)' = InHand(s, k)
           /\ up'[<<s, k>>] = IF k = w /\ Connected(s) THEN up[<<s, k>>] \o frames ELSE up[<<s, k>>]
  BY DEF PutsIn
<1>3. \A k \in 1 .. MaxConns :
        Elems(up'[<<s, k>>]) = Elems(up[<<s, k>>]) \cup (IF k = w THEN new ELSE {})
  BY <1>1, <1>2, ConcatElems
<1>4. \A k \in 1 .. MaxConns : Pipe(s, k)' = Pipe(s, k) \cup (IF k = w THEN new ELSE {})
  BY <1>2, <1>3, PipeNext DEF Pipe
<1>5. Flight(s)' \subseteq Flight(s) \cup new
  <2> SUFFICES ASSUME NEW m \in Flight(s)' PROVE m \in Flight(s) \cup new
    OBVIOUS
  <2>1. m.kind \notin NoteKind
    BY FlightPlacesNext
  <2>2. m \in Elems(down[p]) \/ \E k \in 1 .. MaxConns : m \in Pipe(s, k)'
    BY <1>2, FlightPlacesNext
  <2> HIDE DEF new
  <2> QED
    BY <1>4, <2>1, <2>2, FlightPlaces
<1>6. new \subseteq Elems(frames) /\ (~Connected(s) => new = {})
  OBVIOUS
<1>7. ASSUME Once(s), Single(frames), Apart(Elems(frames), Flight(s)),
             \A m \in Elems(frames) : m.kind \notin NoteKind
      PROVE  Once(s)'
  <2>1. Apart(new, Elems(down[p])) /\ \A k \in 1 .. MaxConns : Apart(new, Pipe(s, k))
    <3>1. \A x \in new : \A y : Twin(x, y) => y.kind \notin NoteKind
      BY DEF Twin, NoteKind
    <3> HIDE DEF new
    <3> QED
      BY <1>6, <1>7, <3>1, FlightPlaces DEF Apart
  <2>2. \A k \in 1 .. MaxConns : Single(up'[<<s, k>>])
    <3> TAKE k \in 1 .. MaxConns
    <3>1. CASE k = w /\ Connected(s)
      <4>1. Apart(Elems(frames), Elems(up[<<s, k>>]))
        BY <2>1, <3>1 DEF Apart, Pipe
      <4> QED
        BY <1>1, <1>2, <1>7, <3>1, <4>1, SingleConcat DEF Once
    <3>2. CASE ~(k = w /\ Connected(s))
      BY <1>2, <1>7, <3>2 DEF Once
    <3> QED
      BY <3>1, <3>2
  <2> HIDE DEF new
  <2>3. \A k \in 1 .. MaxConns : Apart(InHand(s, k)', Elems(up'[<<s, k>>]))
    <3> TAKE k \in 1 .. MaxConns
    <3>1. Apart(InHand(s, k), Elems(up[<<s, k>>])) /\ Apart(new, Pipe(s, k))
      BY <1>7, <2>1 DEF Once
    <3> QED
      BY <1>2, <1>3, <3>1 DEF Apart, Twin, Pipe
  <2>4. \A k \in 1 .. MaxConns : Apart(Elems(down'[p]), Pipe(s, k)')
    <3> TAKE k \in 1 .. MaxConns
    <3>1. Apart(Elems(down[p]), Pipe(s, k)) /\ Apart(new, Elems(down[p]))
      BY <1>7, <2>1 DEF Once
    <3> QED
      BY <1>2, <1>4, <3>1 DEF Apart, Twin
  <2>5. ASSUME NEW k \in 1 .. MaxConns, NEW j \in 1 .. MaxConns, k # j
        PROVE  Apart(Pipe(s, k)', Pipe(s, j)')
    <3>1. Apart(Pipe(s, k), Pipe(s, j)) /\ Apart(new, Pipe(s, j)) /\ Apart(new, Pipe(s, k))
      BY <1>7, <2>1, <2>5 DEF Once
    <3> QED
      BY <1>4, <2>5, <3>1 DEF Apart, Twin
  <2> QED
    BY <1>2, <1>7, <2>2, <2>3, <2>4, <2>5, OnceNext DEF Once
<1> QED
  BY <1>5, <1>6, <1>7

(* A socket the relay serves is the one registered, and none is served     *)
(* before it is dialed; what the relay sends of its own is a note.         *)
Registered ==
  /\ \A s \in Side :
       /\ Connected(s) => registered[s] = ws[s]
       /\ registered[s] # 0 => phase[<<s, registered[s]>>] \in Working
       /\ ws[s] \in {0, dialed[s]} /\ registered[s] \in {0, dialed[s]}
       /\ \A n \in 1 .. MaxConns : n > dialed[s] => phase[<<s, n>>] = "none"
  /\ \A c \in Conn : phase[c] \in {"greeting", "telling", "parting"} => held[c].msg.kind \in NoteKind

(* What a relay goroutine changes, it changes at its own socket.           *)
At(c) == \A d \in Conn : d # c => phase'[d] = phase[d] /\ held'[d] = held[d]

(* Then what it has in hand of any other socket stays.                     *)
LEMMA Elsewhere ==
  ASSUME IInv, NEW s \in Side, NEW n \in 1 .. MaxConns, NEW t \in Side, NEW k \in 1 .. MaxConns,
         At(<<s, n>>)
  PROVE  /\ InHand(t, k)' = InHand(t, k) \/ <<t, k>> = <<s, n>>
         /\ phase'[<<s, n>>] # "routing" => InHand(t, k)' \subseteq InHand(t, k)
<1>1. <<s, n>> \in Conn /\ <<t, k>> \in Conn
  BY DEF Conn
<1>2. CASE <<t, k>> = <<s, n>>
  BY <1>2 DEF InHand
<1>3. CASE <<t, k>> # <<s, n>>
  BY <1>1, <1>3 DEF InHand, At
<1> QED
  BY <1>2, <1>3

(* A message that is sent arrives at the end of a queue or nowhere.        *)
LEMMA SentFacts ==
  ASSUME IInv, NEW s \in Side, NEW n, NEW m, NEW t \in Side
  PROVE  /\ t # s => Sent(s, n, m)[t] = down[t]
         /\ Sent(s, n, m)[s] = down[s] \/ Sent(s, n, m)[s] = Append(down[s], m)
         /\ Holds(s, n) /\ n = ws[s] => Sent(s, n, m)[s] = Append(down[s], m)
<1>1. down \in [Side -> Seq(Msg)]
  BY Types DEF IInv, QueueTypes
<1> QED
  BY <1>1 DEF Sent

(* The messages the relay holds are typed.                                 *)
LEMMA HeldTyped ==
  ASSUME IInv, NEW s \in Side, NEW n \in 1 .. MaxConns
  PROVE  /\ <<s, n>> \in Conn /\ held[<<s, n>>].msg \in Msg
         /\ Note("lost", FALSE) \in Msg /\ Note("lost", FALSE).kind \in NoteKind
<1>1. held \in [Conn -> [msg : Msg, dest : 0 .. MaxConns]] /\ <<s, n>> \in Conn
  BY Types DEF IInv, RestTypes, Conn
<1> QED
  BY <1>1 DEF Note, Msg, Kind, NoteKind

(* The other device.                                                       *)
LEMMA Peers ==
  ASSUME NEW s \in Side, NEW t \in Side
  PROVE  Peer(s) \in Side /\ Peer(s) # s /\ Peer(Peer(s)) = s /\ (t = s \/ t = Peer(s))
BY DEF Peer, Side

(* What the relay in hand for k cannot reach the socket its peer uses.     *)
Misses(s, k) ==
  /\ phase[<<s, k>>] = "routing"
  /\ held[<<s, k>>].dest # ws[Peer(s)] \/ ~Connected(Peer(s))

(* The relay steps that add a note at most: nothing else happens at a      *)
(* socket, or it is dropped, or what is in hand is lost.                   *)
Strays(s) ==
  /\ \/ down'[Peer(s)] = down[Peer(s)]
     \/ \E m \in Msg : m.kind \in NoteKind /\ down'[Peer(s)] = Append(down[Peer(s)], m)
  /\ \A k \in 1 .. MaxConns :
       \/ PipeStays(s, k)
       \/ /\ phase'[<<s, k>>] \notin Working /\ InHand(s, k)' = {} /\ up'[<<s, k>>] = <<>>
       \/ Misses(s, k) /\ InHand(s, k)' = {} /\ up'[<<s, k>>] = up[<<s, k>>]

(* Such a step at most cuts the flow.                                      *)
LEMMA StraysCut ==
  ASSUME NEW s, Strays(s)
  PROVE  Cuts(s)
BY DEF Strays, Cuts, NoteEnters, PipeStays

(* Each step of the relay is one of three for the flow of either device.   *)
LEMMA RelayShape ==
  ASSUME IInv, Registered, RelayStep, NEW t \in Side
  PROVE  Strays(t) \/ \E n \in 1 .. MaxConns : Takes(t, n) \/ PassesOn(t, n)
<1>1. PICK s \in Side, n \in 1 .. MaxConns :
        Greet(s, n) \/ Announce(s, n) \/ Tell(s, n) \/ Route(s, n) \/ Forward(s, n) \/ Drop(s, n)
  BY DEF RelayStep
<1> DEFINE c == <<s, n>>
           m == held[c].msg
<1>2. /\ c \in Conn /\ m \in Msg /\ Note("lost", FALSE) \in Msg /\ Note("lost", FALSE).kind \in NoteKind
      /\ phase[c] \in {"greeting", "telling", "parting"} => m.kind \in NoteKind
      /\ Peer(s) \in Side /\ Peer(s) # s /\ Peer(Peer(s)) = s /\ (t = s \/ t = Peer(s))
  BY HeldTyped, Peers DEF Registered
<1>3. /\ up \in [Conn -> Seq(Msg)] /\ \A k \in 1 .. MaxConns : <<t, k>> \in Conn
      /\ phase \in [Conn -> Phase] /\ held \in [Conn -> [msg : Msg, dest : 0 .. MaxConns]]
  BY Types DEF IInv, QueueTypes, RestTypes, Conn
<1>4. \A k \in 1 .. MaxConns : <<t, k>> = c <=> t = s /\ k = n
  OBVIOUS
<1>5. ASSUME At(c), up' = up \/ up' = [up EXCEPT ![c] = up'[c]]
      PROVE  \A k \in 1 .. MaxConns : <<t, k>> # c => PipeStays(t, k)
  <2> TAKE k \in 1 .. MaxConns
  <2> HAVE <<t, k>> # c
  <2>1. up'[<<t, k>>] = up[<<t, k>>]
    BY <1>3, <1>5
  <2>2. InHand(t, k)' = InHand(t, k)
    BY <1>5, Elsewhere
  <2> QED
    BY <2>1, <2>2 DEF PipeStays
<1>6. ASSUME At(c), up' = up, phase[c] # "routing", phase'[c] # "routing"
      PROVE  \A k \in 1 .. MaxConns : PipeStays(t, k)
  <2> TAKE k \in 1 .. MaxConns
  <2>1. CASE <<t, k>> = c
    BY <1>6, <2>1 DEF PipeStays, InHand
  <2>2. CASE <<t, k>> # c
    BY <1>5, <1>6, <2>2
  <2> QED
    BY <2>1, <2>2
<1> HIDE DEF c, m
<1>7. CASE Greet(s, n)
  <2>1. down' = Sent(s, n, m) /\ up' = up /\ phase[c] = "greeting"
    BY <1>7 DEF Greet, c, m
  <2>2. PICK x, y : /\ phase' = [phase EXCEPT ![c] = x] /\ held' = [held EXCEPT ![c] = y]
                    /\ x # "routing"
    <3>1. CASE s = "host"
      BY <1>7, <3>1 DEF Greet, c
    <3>2. CASE s # "host"
      BY <1>7, <3>2 DEF Greet, c
    <3> QED
      BY <3>1, <3>2
  <2>3. At(c) /\ phase'[c] # "routing"
    BY <1>2, <1>3, <2>2 DEF At
  <2>4. down'[Peer(t)] = down[Peer(t)] \/ down'[Peer(t)] = Append(down[Peer(t)], m)
    BY <1>2, <2>1, SentFacts
  <2> QED
    BY <1>2, <1>6, <2>1, <2>3, <2>4 DEF Strays
<1>8. CASE Announce(s, n)
  <2>1. down' = down /\ up' = up /\ phase[c] = "leaving"
    BY <1>8 DEF Announce, c
  <2>2. PICK y : phase' = [phase EXCEPT ![c] = "parting"] /\ held' = [held EXCEPT ![c] = y]
    BY <1>8 DEF Announce, c
  <2>3. At(c) /\ phase'[c] # "routing"
    BY <1>2, <1>3, <2>2 DEF At
  <2> QED
    BY <1>6, <2>1, <2>3 DEF Strays
<1>9. CASE Tell(s, n)
  <2>1. down' = Sent(Peer(s), held[c].dest, m) /\ up' = up /\ phase[c] \in {"telling", "parting"}
    BY <1>9 DEF Tell, c, m
  <2>2. PICK x : /\ phase' = [phase EXCEPT ![c] = x] /\ held' = [held EXCEPT ![c] = NoMsg]
                 /\ x # "routing"
    BY <1>9 DEF Tell, c
  <2>3. At(c) /\ phase'[c] # "routing"
    BY <1>2, <1>3, <2>2 DEF At
  <2>4. down'[Peer(t)] = down[Peer(t)] \/ down'[Peer(t)] = Append(down[Peer(t)], m)
    BY <1>2, <2>1, SentFacts
  <2> QED
    BY <1>2, <1>6, <2>1, <2>3, <2>4 DEF Strays
<1>10. CASE Route(s, n)
  <2>1. /\ phase[c] = "serving" /\ up[c] # <<>> /\ down' = down /\ up' = [up EXCEPT ![c] = Tail(@)]
        /\ phase' = [phase EXCEPT ![c] = "routing"]
        /\ held' = [held EXCEPT ![c] = [msg |-> Head(up[c]), dest |-> registered[Peer(s)]]]
    BY <1>10 DEF Route, c
  <2>2. /\ phase'[c] = "routing" /\ held'[c].msg = Head(up[c]) /\ up'[c] = Tail(up[c])
        /\ At(c) /\ up' = [up EXCEPT ![c] = up'[c]]
    BY <1>2, <1>3, <2>1 DEF At
  <2>3. \A k \in 1 .. MaxConns : <<t, k>> # c => PipeStays(t, k)
    BY <1>5, <2>2
  <2>4. InHand(s, n) = {} /\ InHand(s, n)' = {Head(up[c])}
    BY <2>1, <2>2 DEF c, InHand
  <2>5. CASE t = s
    BY <1>4, <2>1, <2>2, <2>3, <2>4, <2>5 DEF Takes, c
  <2>6. CASE t # s
    BY <1>4, <2>1, <2>3, <2>6 DEF Strays
  <2> QED
    BY <2>5, <2>6
<1>11. CASE Forward(s, n)
  <2>1. /\ phase[c] = "routing" /\ up' = up
        /\ phase' = [phase EXCEPT ![c] = "serving"] /\ held' = [held EXCEPT ![c] = NoMsg]
    BY <1>11 DEF Forward, c
  <2>2. PICK failed \in SendErr(Peer(s), held[c].dest) :
          down' = IF failed THEN Sent(s, n, Note("lost", FALSE)) ELSE Sent(Peer(s), held[c].dest, m)
    BY <1>11 DEF Forward, c, m
  <2>3. At(c) /\ phase'[c] = "serving"
    BY <1>2, <1>3, <2>1 DEF At
  <2>4. \A k \in 1 .. MaxConns : <<t, k>> # c => PipeStays(t, k)
    BY <1>5, <2>1, <2>3
  <2>5. InHand(s, n) = {m} /\ InHand(s, n)' = {}
    BY <2>1, <2>3 DEF c, m, InHand
  <2>6. \/ down'[Peer(t)] = down[Peer(t)] /\ (t = s => Misses(s, n))
        \/ t = s /\ down'[Peer(t)] = Append(down[Peer(t)], m)
        \/ t # s /\ down'[Peer(t)] = Append(down[Peer(t)], Note("lost", FALSE))
    <3>1. Misses(s, n) \/ (held[c].dest = ws[Peer(s)] /\ Holds(Peer(s), held[c].dest))
      BY <2>1 DEF Misses, Connected, c
    <3>2. CASE failed
      <4> DEFINE lost == Note("lost", FALSE)
      <4>1. down' = Sent(s, n, lost)
        BY <2>2, <3>2
      <4> HIDE DEF lost
      <4>2. down'[Peer(s)] = down[Peer(s)] /\ (down'[s] = down[s] \/ down'[s] = Append(down[s], lost))
        BY <1>2, <4>1, SentFacts
      <4>3. Misses(s, n)
        BY <2>2, <3>1, <3>2 DEF SendErr
      <4> QED
        BY <1>2, <4>2, <4>3 DEF lost
    <3>3. CASE ~failed
      <4>1. down' = Sent(Peer(s), held[c].dest, m)
        BY <2>2, <3>3
      <4>2. down'[s] = down[s]
        BY <1>2, <4>1, SentFacts
      <4>3. CASE held[c].dest = ws[Peer(s)] /\ Holds(Peer(s), held[c].dest)
        <5>1. down'[Peer(s)] = Append(down[Peer(s)], m)
          BY <1>2, <4>1, <4>3, SentFacts
        <5> QED
          BY <1>2, <4>2, <5>1
      <4>4. CASE ~(held[c].dest = ws[Peer(s)] /\ Holds(Peer(s), held[c].dest))
        <5>1. down' = down
          BY <4>1, <4>4 DEF Sent
        <5> QED
          BY <3>1, <4>4, <5>1
      <4> QED
        BY <4>3, <4>4
    <3> QED
      BY <3>2, <3>3
  <2>7. CASE t = s /\ down'[Peer(t)] = Append(down[Peer(t)], m)
    <3>1. PassesOn(t, n)
      BY <1>2, <1>4, <2>1, <2>4, <2>5, <2>7 DEF PassesOn, c
    <3> QED
      BY <3>1
  <2>8. CASE t = s /\ down'[Peer(t)] = down[Peer(t)] /\ Misses(s, n)
    BY <1>4, <2>1, <2>4, <2>5, <2>8 DEF Strays, c
  <2>9. CASE t # s
    BY <1>2, <1>4, <2>4, <2>6, <2>9 DEF Strays
  <2> QED
    BY <2>6, <2>7, <2>8, <2>9
<1>12. CASE Drop(s, n)
  <2>1. down' = down /\ up' = [up EXCEPT ![c] = <<>>] /\ held' = [held EXCEPT ![c] = NoMsg]
    BY <1>12 DEF Drop, c
  <2>2. PICK x : phase' = [phase EXCEPT ![c] = x] /\ x \in {"leaving", "gone"}
    BY <1>12 DEF Drop, c
  <2>3. /\ At(c) /\ phase'[c] \in {"leaving", "gone"} /\ up'[c] = <<>>
        /\ up' = [up EXCEPT ![c] = up'[c]]
    BY <1>2, <1>3, <2>1, <2>2 DEF At
  <2>4. \A k \in 1 .. MaxConns : <<t, k>> # c => PipeStays(t, k)
    BY <1>5, <2>3
  <2>5. InHand(s, n)' = {} /\ phase'[c] \notin Working
    BY <2>3 DEF InHand, c, Working
  <2> QED
    BY <1>4, <2>1, <2>3, <2>4, <2>5 DEF Strays, c
<1> QED
  BY <1>1, <1>7, <1>8, <1>9, <1>10, <1>11, <1>12

(* No relay step brings a frame of its own into the flow.                  *)
Shrinks(t) == Flight(t)' \subseteq Flight(t) /\ (Once(t) => Once(t)')

(* So says the relay of each of its steps.                                 *)
LEMMA RelayFlow ==
  ASSUME IInv, Registered, RelayStep, NEW t \in Side
  PROVE  Shrinks(t)
<1>1. CASE Strays(t)
  BY <1>1, StraysCut, CutsFlow DEF Shrinks
<1>2. CASE \E n \in 1 .. MaxConns : Takes(t, n)
  BY <1>2, TakesFlow DEF Shrinks
<1>3. CASE \E n \in 1 .. MaxConns : PassesOn(t, n)
  BY <1>3, PassesOnFlow DEF Shrinks
<1> QED
  BY <1>1, <1>2, <1>3, RelayShape

(* Nor does a device that dials or hangs up.                               *)
LEMMA DialShape ==
  ASSUME IInv, NEW s \in Side, Dial(s), NEW t \in Side
  PROVE  Cuts(t) /\ Shrinks(t)
<1> DEFINE n == dialed[s] + 1
<1>1. RestTypes
  BY Types DEF IInv
<1>2. n \in 1 .. MaxConns /\ <<s, n>> \in Conn
  BY <1>1, ConnsAssumption DEF Dial, RestTypes, Conn
<1>3. PICK y : /\ phase' = [phase EXCEPT ![<<s, n>>] = "greeting"]
               /\ held' = [held EXCEPT ![<<s, n>>] = y]
               /\ up' = up /\ down' = down
  BY DEF Dial
<1> HIDE DEF n
<1>4. At(<<s, n>>) /\ phase'[<<s, n>>] # "routing"
  BY <1>1, <1>2, <1>3 DEF At, RestTypes
<1>5. \A k \in 1 .. MaxConns : InHand(t, k)' \subseteq InHand(t, k)
  BY <1>2, <1>4, Elsewhere
<1>6. Cuts(t)
  BY <1>3, <1>5 DEF Cuts, NoteEnters
<1> QED
  BY <1>6, CutsFlow DEF Shrinks

(* One that hangs up.                                                      *)
LEMMA HangUpShape ==
  ASSUME IInv, NEW s \in Side, HangUp(s), NEW t \in Side
  PROVE  Cuts(t) /\ Shrinks(t)
<1>1. down \in [Side -> Seq(Msg)] /\ Peer(t) \in Side
  BY Types, Peers DEF IInv, QueueTypes
<1>2. down' = [down EXCEPT ![s] = <<>>] /\ phase' = phase /\ held' = held /\ up' = up
  BY DEF HangUp
<1>3. NoteEnters(t)
  BY <1>1, <1>2 DEF NoteEnters
<1>4. \A k \in 1 .. MaxConns : InHand(t, k)' = InHand(t, k)
  BY <1>2 DEF InHand
<1>5. Cuts(t)
  BY <1>2, <1>3, <1>4 DEF Cuts
<1> QED
  BY <1>5, CutsFlow DEF Shrinks

(* A read is a step of the flow from the peer, and what is written with it *)
(* one of its own.                                                         *)
LEMMA ReadShape ==
  ASSUME IInv, NEW s \in Side, UNCHANGED relayVars,
         down[s] # <<>>, down' = [down EXCEPT ![s] = Tail(@)]
  PROVE  /\ up' = up => TakesIn(Peer(s)) /\ Cuts(s)
         /\ \A frames \in Seq(Msg) : up' = Written(s, frames) => TakesIn(Peer(s)) /\ PutsIn(s, frames)
<1> DEFINE p == Peer(s)
<1>1. /\ down \in [Side -> Seq(Msg)] /\ up \in [Conn -> Seq(Msg)]
      /\ ws \in [Side -> 0 .. MaxConns]
      /\ p \in Side /\ p # s /\ Peer(p) = s
  BY Types, Peers DEF IInv, QueueTypes, RestTypes
<1>2. /\ \A t, k : InHand(t, k)' = InHand(t, k)
      /\ down'[s] = Tail(down[s]) /\ down'[p] = down[p]
  BY <1>1 DEF InHand, relayVars
<1>3. \A t \in Side, k \in 1 .. MaxConns : <<t, k>> \in Conn
  BY DEF Conn
<1> HIDE DEF p
<1>4. ASSUME up' = up PROVE TakesIn(p) /\ Cuts(s)
  BY <1>1, <1>2, <1>4 DEF TakesIn, Cuts, NoteEnters, PipeStays, p
<1>5. ASSUME NEW frames \in Seq(Msg), up' = Written(s, frames) PROVE TakesIn(p) /\ PutsIn(s, frames)
  <2>1. \A t \in Side, k \in 1 .. MaxConns :
          up'[<<t, k>>] = IF t = s /\ k = ws[s] /\ Connected(s) THEN up[<<t, k>>] \o frames ELSE up[<<t, k>>]
    <3> TAKE t \in Side, k \in 1 .. MaxConns
    <3>1. CASE Connected(s)
      BY <1>1, <1>3, <1>5, <3>1 DEF Written
    <3>2. CASE ~Connected(s)
      BY <1>5, <3>2 DEF Written
    <3> QED
      BY <3>1, <3>2
  <2>2. PutsIn(s, frames)
    BY <1>1, <1>2, <2>1 DEF PutsIn, p
  <2>3. TakesIn(p)
    BY <1>1, <1>2, <2>1 DEF TakesIn, PipeStays
  <2> QED
    BY <2>2, <2>3
<1> QED
  BY <1>4, <1>5 DEF p

(* A write alone leaves the other direction as it was.                     *)
LEMMA WriteShape ==
  ASSUME IInv, NEW s \in Side, UNCHANGED <<relayVars, down>>, NEW frames \in Seq(Msg),
         up' = Written(s, frames)
  PROVE  PutsIn(s, frames) /\ Cuts(Peer(s))
<1>1. up \in [Conn -> Seq(Msg)] /\ Peer(s) \in Side /\ Peer(s) # s
  BY Types, Peers DEF IInv, QueueTypes
<1>2. /\ \A t, k : InHand(t, k)' = InHand(t, k)
      /\ down' = down
  BY DEF InHand, relayVars
<1>3. \A t \in Side, k \in 1 .. MaxConns : <<t, k>> \in Conn
  BY DEF Conn
<1>4. \A t \in Side, k \in 1 .. MaxConns :
        up'[<<t, k>>] = IF t = s /\ k = ws[s] /\ Connected(s) THEN up[<<t, k>>] \o frames ELSE up[<<t, k>>]
  <2> TAKE t \in Side, k \in 1 .. MaxConns
  <2>1. CASE Connected(s)
    BY <1>1, <1>3, <2>1 DEF Written
  <2>2. CASE ~Connected(s)
    BY <2>2 DEF Written
  <2> QED
    BY <2>1, <2>2
<1>5. PutsIn(s, frames)
  BY <1>2, <1>4 DEF PutsIn
<1>6. Cuts(Peer(s))
  BY <1>1, <1>2, <1>4 DEF Cuts, NoteEnters
<1> QED
  BY <1>5, <1>6

(* What changes at one socket, in words of its phase.                      *)
PhaseAt(c, x) == phase' = [phase EXCEPT ![c] = x]

(* A step of one goroutine at its own socket.                              *)
LEMMA RegisteredAt ==
  ASSUME IInv, Registered, NEW c \in Conn, NEW x, PhaseAt(c, x), phase[c] # "none",
         UNCHANGED <<dialed, ws>>, registered' = registered,
         phase[c] \in Working => x \in Working,
         phase[c] \notin Working => x \notin Working,
         held' = [held EXCEPT ![c] = held'[c]],
         x \in {"greeting", "telling", "parting"} => held'[c].msg.kind \in NoteKind
  PROVE  Registered'
<1>1. /\ phase \in [Conn -> Phase] /\ held \in [Conn -> [msg : Msg, dest : 0 .. MaxConns]]
      /\ registered \in [Side -> 0 .. MaxConns] /\ ws \in [Side -> 0 .. MaxConns]
  BY Types DEF IInv, RestTypes
<1>2. \A d \in Conn : phase'[d] \in Working <=> phase[d] \in Working
  BY <1>1 DEF PhaseAt
<1>3. \A s \in Side, n \in 1 .. MaxConns : <<s, n>> \in Conn
  BY DEF Conn
<1>4. \A s \in Side : registered[s] # 0 => registered[s] \in 1 .. MaxConns
  BY <1>1, ConnsAssumption
<1>5. \A s \in Side : ws[s] # 0 => ws[s] \in 1 .. MaxConns
  BY <1>1, ConnsAssumption
<1>6. \A s \in Side : Connected(s)' <=> Connected(s)
  BY <1>2, <1>3, <1>5 DEF Connected, Holds
<1>7. \A s \in Side : registered[s] # 0 => phase'[<<s, registered[s]>>] \in Working
  BY <1>2, <1>3, <1>4 DEF Registered
<1>8. \A d \in Conn : phase'[d] \in {"greeting", "telling", "parting"} => held'[d].msg.kind \in NoteKind
  BY <1>1 DEF PhaseAt, Registered
<1>9. \A s \in Side, n \in 1 .. MaxConns : n > dialed'[s] => phase'[<<s, n>>] = "none"
  <2> TAKE s \in Side, n \in 1 .. MaxConns
  <2>1. n > dialed[s] => phase[<<s, n>>] = "none"
    BY DEF Registered
  <2> QED
    BY <1>1, <1>3, <2>1 DEF PhaseAt
<1> QED
  BY <1>6, <1>7, <1>8, <1>9 DEF Registered

(* The relay serves the socket that is registered.                         *)
LEMMA RelayRegisters == IInv /\ Registered /\ RelayStep => Registered'
<1> SUFFICES ASSUME IInv, Registered, RelayStep PROVE Registered'
  OBVIOUS
<1>1. PICK s \in Side, n \in 1 .. MaxConns :
        Greet(s, n) \/ Announce(s, n) \/ Tell(s, n) \/ Route(s, n) \/ Forward(s, n) \/ Drop(s, n)
  BY DEF RelayStep
<1> DEFINE c == <<s, n>>
<1>2. /\ phase \in [Conn -> Phase] /\ held \in [Conn -> [msg : Msg, dest : 0 .. MaxConns]]
      /\ registered \in [Side -> 0 .. MaxConns] /\ ws \in [Side -> 0 .. MaxConns]
      /\ c \in Conn
  BY Types, HeldTyped DEF IInv, RestTypes
<1>3. \A yes \in BOOLEAN : Note("up", yes).kind = "up" /\ Note("down", yes).kind = "down"
  BY DEF Note
<1> HIDE DEF c
<1>4. CASE Greet(s, n)
  <2>1. /\ phase[c] = "greeting" /\ UNCHANGED <<dialed, ws>> /\ registered' = registered
    BY <1>4 DEF Greet, c
  <2>2. PICK x : PhaseAt(c, x) /\ x \in {"telling", "serving"}
                 /\ held' = [held EXCEPT ![c] = held'[c]]
                 /\ (x = "telling" => held'[c].msg.kind \in NoteKind)
    <3>1. CASE s = "host"
      <4>1. /\ PhaseAt(c, "telling")
            /\ held' = [held EXCEPT ![c] = [msg |-> Note("up", FALSE), dest |-> registered["phone"]]]
        BY <1>4, <3>1 DEF Greet, c, PhaseAt
      <4>2. held'[c].msg = Note("up", FALSE) /\ held' = [held EXCEPT ![c] = held'[c]]
        BY <1>2, <4>1
      <4> QED
        BY <1>3, <4>1, <4>2 DEF NoteKind
    <3>2. CASE s # "host"
      <4>1. PhaseAt(c, "serving") /\ held' = [held EXCEPT ![c] = NoMsg]
        BY <1>4, <3>2 DEF Greet, c, PhaseAt
      <4>2. held' = [held EXCEPT ![c] = held'[c]]
        BY <1>2, <4>1
      <4> QED
        BY <4>1, <4>2
    <3> QED
      BY <3>1, <3>2
  <2> QED
    BY <1>2, <2>1, <2>2, RegisteredAt DEF Working
<1>5. CASE Announce(s, n)
  <2>1. /\ phase[c] = "leaving" /\ UNCHANGED <<dialed, ws>> /\ registered' = registered
        /\ PhaseAt(c, "parting")
        /\ held' = [held EXCEPT ![c] = [msg |-> Note("down", FALSE), dest |-> registered[Peer(s)]]]
    BY <1>5 DEF Announce, c, PhaseAt
  <2>2. held'[c].msg = Note("down", FALSE) /\ held' = [held EXCEPT ![c] = held'[c]]
    BY <1>2, <2>1
  <2>3. held'[c].msg.kind \in NoteKind
    BY <1>3, <2>2 DEF NoteKind
  <2> QED
    BY <1>2, <2>1, <2>2, <2>3, RegisteredAt DEF Working
<1>6. CASE Tell(s, n)
  <2>1. /\ phase[c] \in {"telling", "parting"} /\ UNCHANGED <<dialed, ws>> /\ registered' = registered
        /\ phase' = [phase EXCEPT ![c] = IF @ = "telling" THEN "serving" ELSE "gone"]
        /\ held' = [held EXCEPT ![c] = NoMsg]
    BY <1>6 DEF Tell, c
  <2>2. PICK x : PhaseAt(c, x) /\ x = IF phase[c] = "telling" THEN "serving" ELSE "gone"
    BY <2>1 DEF PhaseAt
  <2>3. held' = [held EXCEPT ![c] = held'[c]]
    BY <1>2, <2>1
  <2> QED
    BY <1>2, <2>1, <2>2, <2>3, RegisteredAt DEF Working
<1>7. CASE Route(s, n)
  <2>1. /\ phase[c] = "serving" /\ UNCHANGED <<dialed, ws>> /\ registered' = registered
        /\ PhaseAt(c, "routing")
        /\ held' = [held EXCEPT ![c] = [msg |-> Head(up[c]), dest |-> registered[Peer(s)]]]
    BY <1>7 DEF Route, c, PhaseAt
  <2>2. held' = [held EXCEPT ![c] = held'[c]]
    BY <1>2, <2>1
  <2> QED
    BY <1>2, <2>1, <2>2, RegisteredAt DEF Working
<1>8. CASE Forward(s, n)
  <2>1. /\ phase[c] = "routing" /\ UNCHANGED <<dialed, ws>> /\ registered' = registered
        /\ PhaseAt(c, "serving") /\ held' = [held EXCEPT ![c] = NoMsg]
    BY <1>8 DEF Forward, c, PhaseAt
  <2>2. held' = [held EXCEPT ![c] = held'[c]]
    BY <1>2, <2>1
  <2> QED
    BY <1>2, <2>1, <2>2, RegisteredAt DEF Working
<1>9. CASE Drop(s, n)
  <2>1. /\ phase[c] \in {"greeting", "serving"} /\ UNCHANGED <<dialed, ws>>
        /\ held' = [held EXCEPT ![c] = NoMsg]
        /\ registered[s] = n => registered' = [registered EXCEPT ![s] = 0] /\ PhaseAt(c, "leaving")
        /\ registered[s] # n => registered' = registered /\ PhaseAt(c, "gone")
    BY <1>9 DEF Drop, c, PhaseAt
  <2>2. /\ phase'[c] \in {"leaving", "gone"} /\ \A d \in Conn : d # c => phase'[d] = phase[d]
        /\ \A d \in Conn : d # c => held'[d] = held[d]
    BY <1>2, <2>1 DEF PhaseAt
  <2>3. \A t \in Side : registered'[t] = (IF t = s /\ registered[s] = n THEN 0 ELSE registered[t])
    BY <1>2, <2>1
  <2>4. /\ \A t \in Side, k \in 1 .. MaxConns : <<t, k>> \in Conn /\ (<<t, k>> = c <=> t = s /\ k = n)
        /\ \A t \in Side : ws[t] # 0 => ws[t] \in 1 .. MaxConns
        /\ \A t \in Side : registered[t] # 0 => registered[t] \in 1 .. MaxConns
    BY <1>2, ConnsAssumption DEF Conn, c
  <2>5. \A t \in Side : Connected(t)' => Connected(t) /\ ~(t = s /\ ws[t] = n)
    <3> SUFFICES ASSUME NEW t \in Side, ws[t] # 0, phase'[<<t, ws[t]>>] \in Working
                 PROVE  phase[<<t, ws[t]>>] \in Working /\ ~(t = s /\ ws[t] = n)
      BY <2>1 DEF Connected, Holds
    <3>1. <<t, ws[t]>> # c
      BY <2>2 DEF Working
    <3> QED
      BY <2>2, <2>4, <3>1
  <2>6. \A t \in Side : Connected(t)' => registered'[t] = ws'[t]
    <3> TAKE t \in Side
    <3> HAVE Connected(t)'
    <3>1. registered[t] = ws[t] /\ ~(t = s /\ ws[t] = n)
      BY <2>5 DEF Registered
    <3> QED
      BY <2>1, <2>3, <3>1
  <2>7. \A t \in Side : registered'[t] # 0 => phase'[<<t, registered'[t]>>] \in Working
    BY <2>2, <2>3, <2>4 DEF Registered
  <2>8. \A d \in Conn : phase'[d] \in {"greeting", "telling", "parting"} => held'[d].msg.kind \in NoteKind
    BY <2>2 DEF Registered
  <2>9. \A t \in Side : registered'[t] \in {0, dialed[t]} /\ ws[t] \in {0, dialed[t]}
    BY <2>3 DEF Registered
  <2>10. \A t \in Side, k \in 1 .. MaxConns : k > dialed'[t] => phase'[<<t, k>>] = "none"
    BY ZenonT(40), <2>1, <2>2, <2>4 DEF Registered
  <2> QED
    BY <2>1, <2>6, <2>7, <2>8, <2>9, <2>10 DEF Registered
<1> QED
  BY <1>1, <1>4, <1>5, <1>6, <1>7, <1>8, <1>9

(* A socket that is dialed takes over.                                     *)
LEMMA DialRegisters ==
  ASSUME IInv, Registered, NEW s \in Side, Dial(s)
  PROVE  Registered'
<1> DEFINE n == dialed[s] + 1
           c == <<s, n>>
<1>1. /\ phase \in [Conn -> Phase] /\ held \in [Conn -> [msg : Msg, dest : 0 .. MaxConns]]
      /\ registered \in [Side -> 0 .. MaxConns] /\ ws \in [Side -> 0 .. MaxConns]
      /\ dialed \in [Side -> 0 .. MaxConns]
  BY Types DEF IInv, RestTypes
<1>2. n \in 1 .. MaxConns /\ c \in Conn
  BY <1>1, ConnsAssumption DEF Dial, Conn
<1>3. PICK y : /\ phase' = [phase EXCEPT ![c] = "greeting"] /\ held' = [held EXCEPT ![c] = y]
               /\ y.msg.kind \in NoteKind
               /\ ws[s] = 0 /\ ws' = [ws EXCEPT ![s] = n] /\ dialed' = [dialed EXCEPT ![s] = n]
               /\ registered' = [registered EXCEPT ![s] = n]
  <2> DEFINE y == [msg |-> Note("ok", s = "phone" /\ registered["host"] # 0), dest |-> 0]
  <2>1. y.msg.kind \in NoteKind
    BY DEF Note, NoteKind
  <2> QED
    BY <2>1 DEF Dial
<1> HIDE DEF n, c
<1>4. /\ phase'[c] = "greeting" /\ held'[c].msg.kind \in NoteKind
      /\ \A d \in Conn : d # c => phase'[d] = phase[d] /\ held'[d] = held[d]
      /\ ws'[s] = n /\ registered'[s] = n /\ dialed'[s] = n
      /\ \A t \in Side : t # s => ws'[t] = ws[t] /\ registered'[t] = registered[t] /\ dialed'[t] = dialed[t]
  BY <1>1, <1>2, <1>3
<1>5. \A t \in Side, k \in 1 .. MaxConns : <<t, k>> \in Conn /\ (t # s => <<t, k>> # c)
  BY DEF Conn, c
<1>6. /\ \A t \in Side : ws[t] # 0 => ws[t] \in 1 .. MaxConns
      /\ \A t \in Side : registered[t] # 0 => registered[t] \in 1 .. MaxConns
  BY <1>1, ConnsAssumption
<1>7. \A t \in Side : Connected(t)' => registered'[t] = ws'[t]
  <2> TAKE t \in Side
  <2>1. CASE t = s
    BY <1>4, <2>1
  <2>2. CASE t # s
    <3>1. Connected(t) => registered[t] = ws[t]
      BY DEF Registered
    <3> QED
      BY <1>4, <1>5, <1>6, <2>2, <3>1 DEF Connected, Holds
  <2> QED
    BY <2>1, <2>2
<1>8. \A t \in Side : registered'[t] # 0 => phase'[<<t, registered'[t]>>] \in Working
  <2> TAKE t \in Side
  <2>1. CASE t = s
    BY <1>4, <2>1 DEF Working, c
  <2>2. CASE t # s
    <3>1. registered[t] # 0 => phase[<<t, registered[t]>>] \in Working
      BY DEF Registered
    <3> QED
      BY <1>4, <1>5, <1>6, <2>2, <3>1
  <2> QED
    BY <2>1, <2>2
<1>9. \A d \in Conn : phase'[d] \in {"greeting", "telling", "parting"} => held'[d].msg.kind \in NoteKind
  BY <1>4 DEF Registered
<1>10. \A t \in Side : ws'[t] \in {0, dialed'[t]} /\ registered'[t] \in {0, dialed'[t]}
  BY <1>4 DEF Registered
<1>11. ASSUME NEW t \in Side, NEW k \in 1 .. MaxConns, k > dialed'[t]
       PROVE  phase'[<<t, k>>] = "none"
  <2>1. k > dialed[t] /\ <<t, k>> # c
    <3>1. CASE t = s
      <4>1. k > n /\ n = dialed[s] + 1 /\ dialed[s] \in Nat /\ n \in Nat /\ k \in Nat
        BY <1>1, <1>4, <1>11, <3>1, ConnsAssumption DEF n
      <4> QED
        BY <3>1, <4>1 DEF c
    <3>2. CASE t # s
      BY <1>4, <1>5, <1>11, <3>2
    <3> QED
      BY <3>1, <3>2
  <2> QED
    BY <1>4, <1>5, <2>1 DEF Registered
<1> QED
  BY <1>7, <1>8, <1>9, <1>10, <1>11 DEF Registered

(* Devices that hang up, read or write leave it at that.                   *)
LEMMA RegisteredStays ==
  ASSUME IInv, Registered, UNCHANGED <<dialed, relayVars>>,
         ws' = ws \/ \E s \in Side : ws' = [ws EXCEPT ![s] = 0]
  PROVE  Registered'
<1>1. ws \in [Side -> 0 .. MaxConns]
  BY Types DEF IInv, RestTypes
<1>2. \A t \in Side : ws'[t] = ws[t] \/ ws'[t] = 0
  BY <1>1
<1>3. \A t \in Side : Connected(t)' => registered'[t] = ws'[t]
  BY <1>2 DEF Registered, Connected, Holds, relayVars
<1> QED
  BY <1>2, <1>3 DEF Registered, relayVars

(***************************************************************************)
(* What the ends and the frames between them agree on.                     *)
(***************************************************************************)
Kinds ==
  /\ \A m \in ToHost : m.kind \in {"hs1", "attach", "ack", "ask"}
  /\ \A m \in ToPhone : m.kind \in {"hs2", "attached", "rpc"}

(* Nothing names a handshake, a session or a line there has not been.      *)
Bounds ==
  /\ pending <= shakes /\ phoneChan <= shakes /\ hostChan <= shakes
  /\ contID <= started
  /\ contID = 0 => lastRecv = 0
  /\ contID # 0 => lastRecv <= emitted[contID]
  /\ \A m \in ToHost : m.chan \in 1 .. shakes /\ m.sess <= started
  /\ \A m \in ToHost : IF m.sess = 0 THEN m.n = 0 ELSE m.n <= emitted[m.sess]
  /\ \A m \in ToPhone : m.chan \in 1 .. shakes /\ m.sess <= started
  /\ \A m \in ToPhone : m.kind = "rpc" => m.sess # 0 /\ m.n <= emitted[m.sess]

(* While a handshake is pending there is but the handshake; a phone that   *)
(* is attached shares channel and session with the host, if they still     *)
(* share the channel.                                                      *)
Ends ==
  /\ phoneAtt => phoneChan # 0 /\ contID # 0
  /\ hostAtt => hostChan # 0 /\ app # 0
  /\ phoneAtt /\ hostChan = phoneChan => hostAtt /\ app = contID
  /\ pending # 0 =>
       /\ phoneChan = 0
       /\ hostChan = pending => ~hostAtt
       /\ \A m \in ToHost : m.chan = pending => m.kind = "hs1"
       /\ \A m \in ToPhone : m.chan = pending => m.kind = "hs2"

(* The stages of a handshake follow each other.                            *)
Opened ==
  \A m \in ToHost : m.kind = "hs1" =>
    /\ phoneChan # m.chan /\ hostChan # m.chan
    /\ \A x \in ToHost : x.chan = m.chan => x.kind = "hs1"
    /\ \A x \in ToPhone : x.chan # m.chan
Attaching ==
  \A m \in ToHost : m.kind = "attach" =>
    /\ hostChan = m.chan => ~hostAtt
    /\ phoneChan = m.chan => ~phoneAtt /\ m.sess = contID /\ m.n = lastRecv
    /\ \A x \in ToHost : x.chan = m.chan => x.kind \notin {"ack", "ask"}
    /\ \A x \in ToPhone : x.chan = m.chan => x.kind = "hs2"
Answered ==
  \A m \in ToPhone : m.kind = "attached" /\ m.chan = phoneChan =>
    /\ ~phoneAtt /\ m.sess # 0
    /\ hostChan = m.chan => hostAtt /\ app = m.sess
    /\ \A x \in ToHost : x.chan = m.chan => x.kind \notin {"ack", "ask"}
    /\ \A x \in ToPhone : x.kind = "rpc" /\ x.chan = m.chan => x.sess = m.sess
    /\ m.yes => m.sess = contID
    /\ ~m.yes => /\ contID < m.sess /\ (app = m.sess => spool.base <= 1)
                 /\ \A x \in ToHost : x.sess < m.sess

(* A frame the host would take is for its session, one the phone would     *)
(* take for the phone's; no ack quotes a line not applied.                 *)
Addressed ==
  /\ \A m \in ToHost :
       /\ m.kind \in {"ack", "ask"} /\ m.chan = hostChan => hostAtt /\ app = m.sess
       /\ m.kind \in {"ack", "attach"} /\ m.sess = contID => m.n <= lastRecv
  /\ \A m \in ToPhone : m.kind = "rpc" /\ m.chan = phoneChan /\ phoneAtt => m.sess = contID
Unreceived == app # 0 /\ contID = app => spool.base <= lastRecv + 1

Talk == Kinds /\ Bounds /\ Ends /\ Opened /\ Attaching /\ Answered /\ Addressed /\ Unreceived
Sane == IInv /\ (\A s \in Side : Once(s)) /\ Talk

(* The fields of frames under way.                                         *)
LEMMA FrameFields ==
  ASSUME IInv
  PROVE  /\ \A m \in ToHost : m \in Msg /\ m.chan \in Nat /\ m.sess \in Nat /\ m.n \in Nat
         /\ \A m \in ToPhone : m \in Msg /\ m.chan \in Nat /\ m.sess \in Nat /\ m.n \in Nat
         /\ HostTypes /\ PhoneTypes
<1>1. ToHost \subseteq Msg /\ ToPhone \subseteq Msg
  BY FlightTyped DEF ToHost, ToPhone, Side
<1> QED
  BY <1>1, Types DEF Msg, IInv

(* The fields of a new frame.                                              *)
LEMMA NewFrame ==
  ASSUME NEW kind, NEW chan, NEW sess, NEW n, NEW yes
  PROVE  LET f == Frame(kind, chan, sess, n, yes) IN
         f.kind = kind /\ f.chan = chan /\ f.sess = sess /\ f.n = n /\ f.yes = yes
BY DEF Frame

(* The flag of a new frame.                                                *)
LEMMA NewFlag ==
  ASSUME NEW kind, NEW chan, NEW sess, NEW n, NEW f
  PROVE  /\ f = Frame(kind, chan, sess, n, TRUE) => f.yes
         /\ f = Frame(kind, chan, sess, n, FALSE) => ~f.yes
<1>1. [kind |-> kind, chan |-> chan, sess |-> sess, n |-> n, yes |-> TRUE].yes = TRUE
  BY Zenon
<1>2. [kind |-> kind, chan |-> chan, sess |-> sess, n |-> n, yes |-> FALSE].yes = FALSE
  BY Zenon
<1>3. Frame(kind, chan, sess, n, TRUE) = [kind |-> kind, chan |-> chan, sess |-> sess, n |-> n, yes |-> TRUE]
  BY Zenon DEF Frame
<1>4. Frame(kind, chan, sess, n, FALSE) = [kind |-> kind, chan |-> chan, sess |-> sess, n |-> n, yes |-> FALSE]
  BY Zenon DEF Frame
<1>5. ASSUME f = Frame(kind, chan, sess, n, TRUE) PROVE f.yes
  <2>1. f.yes = TRUE
    BY <1>1, <1>3, <1>5, Zenon
  <2> QED
    BY <2>1, Zenon
<1>6. ASSUME f = Frame(kind, chan, sess, n, FALSE) PROVE ~f.yes
  <2>1. f.yes = FALSE
    BY <1>2, <1>4, <1>6, Zenon
  <2> QED
    BY <2>1, Zenon
<1> QED
  BY <1>5, <1>6, Zenon

(* A step that adds no frame and changes no end keeps all of it.           *)
LEMMA TalkStays ==
  ASSUME IInv, Talk, ToHost' \subseteq ToHost, ToPhone' \subseteq ToPhone,
         UNCHANGED hostVars, UNCHANGED <<phoneChan, phoneAtt, contID, lastRecv, shakes>>,
         pending' \in {0, pending}
  PROVE  Talk'
<1>1. UNCHANGED <<hostChan, hostAtt, app, emitted, spool, started>>
  BY DEF hostVars
<1>2. Kinds'
  BY DEF Talk, Kinds
<1>3. Bounds'
  BY <1>1, Types DEF Talk, Bounds, IInv, PhoneTypes
<1>4. Ends'
  BY <1>1 DEF Talk, Ends
<1>5. Opened'
  BY <1>1 DEF Talk, Opened
<1>6. Attaching'
  BY <1>1 DEF Talk, Attaching
<1>7. Answered'
  BY <1>1 DEF Talk, Answered
<1>8. Addressed'
  BY <1>1 DEF Talk, Addressed
<1>9. Unreceived'
  BY <1>1 DEF Talk, Unreceived
<1> QED
  BY <1>2, <1>3, <1>4, <1>5, <1>6, <1>7, <1>8, <1>9 DEF Talk

(* The host drops its channel, and its session when it restarts.           *)
LEMMA TalkHostGone ==
  ASSUME IInv, Talk, ToHost' \subseteq ToHost, ToPhone' \subseteq ToPhone,
         hostChan' = 0, hostAtt' = FALSE, app' = 0 \/ UNCHANGED <<app, spool>>,
         UNCHANGED <<emitted, started, pending, phoneChan, phoneAtt, contID, lastRecv, shakes>>
  PROVE  Talk'
<1>0. /\ \A m \in ToHost : m.chan \in Nat /\ m.chan # 0
      /\ \A m \in ToPhone : m.chan \in Nat /\ m.chan # 0 
      /\ phoneAtt => phoneChan # 0
      /\ HostTypes /\ PhoneTypes
  BY FrameFields DEF Talk, Bounds, Ends
<1>2. Kinds'
  BY DEF Talk, Kinds
<1>3. Bounds'
  BY <1>0 DEF Talk, Bounds, PhoneTypes
<1>4. Ends'
  BY <1>0 DEF Talk, Ends
<1>5. Opened'
  BY <1>0 DEF Talk, Opened
<1>6. Attaching'
  BY <1>0 DEF Talk, Attaching
<1>7. Answered'
  BY <1>0 DEF Talk, Answered
<1>8. Addressed'
  BY <1>0 DEF Talk, Addressed
<1>9. Unreceived'
  BY DEF Talk, Unreceived
<1> QED
  BY <1>2, <1>3, <1>4, <1>5, <1>6, <1>7, <1>8, <1>9 DEF Talk

(* The phone drops its channel, and its session when it restarts.          *)
LEMMA TalkPhoneGone ==
  ASSUME IInv, Talk, ToHost' \subseteq ToHost, ToPhone' \subseteq ToPhone,
         phoneChan' = 0, phoneAtt' = FALSE, pending' \in {0, pending},
         (contID' = 0 /\ lastRecv' = 0) \/ UNCHANGED <<contID, lastRecv>>,
         UNCHANGED hostVars, UNCHANGED shakes
  PROVE  Talk'
<1>0. /\ \A m \in ToHost : m.chan \in Nat /\ m.chan # 0 /\ m.n \in Nat /\ m.sess \in Nat
      /\ \A m \in ToPhone : m.chan \in Nat /\ m.chan # 0
      /\ HostTypes /\ PhoneTypes
  BY FrameFields DEF Talk, Bounds
<1>1. UNCHANGED <<hostChan, hostAtt, app, emitted, spool, started>>
  BY DEF hostVars
<1>2. Kinds'
  BY DEF Talk, Kinds
<1>3. Bounds'
  BY <1>0, <1>1 DEF Talk, Bounds, PhoneTypes, HostTypes
<1>4. Ends'
  BY <1>0, <1>1 DEF Talk, Ends
<1>5. Opened'
  BY <1>0, <1>1 DEF Talk, Opened
<1>6. Attaching'
  BY <1>0, <1>1 DEF Talk, Attaching
<1>7. Answered'
  BY <1>0 DEF Answered
<1>8. Addressed'
  BY <1>0, <1>1 DEF Talk, Addressed, Bounds
<1>9. Unreceived'
  BY <1>1 DEF Talk, Unreceived
<1> QED
  BY <1>2, <1>3, <1>4, <1>5, <1>6, <1>7, <1>8, <1>9 DEF Talk

(* The host answers a handshake.                                            *)
LEMMA TalkHostShakes ==
  ASSUME IInv,
         Talk,
         NEW m \in ToHost,
         m.kind = "hs1",
         ToHost' \subseteq ToHost,
         Apart({m}, ToHost'),
         ToPhone' \subseteq ToPhone \cup {Frame("hs2", m.chan, 0, 0, FALSE)},
         hostChan' \in {m.chan, 0},
         hostAtt' = FALSE,
         UNCHANGED <<app, emitted, spool, started>>,
         UNCHANGED <<pending, phoneChan, phoneAtt, contID, lastRecv, shakes>>
  PROVE  Talk'
<1>a. /\ \A x \in ToHost : x.chan \in Nat /\ x.chan # 0 /\ x.n \in Nat /\ x.sess \in Nat
      /\ \A x \in ToPhone : x.chan \in Nat /\ x.chan # 0 /\ x.n \in Nat /\ x.sess \in Nat
      /\ HostTypes /\ PhoneTypes
  BY FrameFields DEF Talk, Bounds
<1>b. \A x \in ToPhone' : x \in ToPhone \/
        (x.kind = "hs2" /\ x.chan = m.chan /\ x.sess = 0 /\ x.n = 0)
  BY DEF Frame
<1>c. /\ phoneChan # m.chan /\ hostChan # m.chan
      /\ \A x \in ToHost : x.chan = m.chan => x.kind = "hs1"
      /\ \A x \in ToPhone : x.chan # m.chan
      /\ \A x \in ToHost' : x.chan = m.chan => x.kind # "hs1"
  BY DEF Talk, Opened, Apart, Twin
<1>1. Kinds'
  BY <1>a, <1>b, <1>c DEF Talk, Kinds
<1>2. Bounds'
  BY <1>a, <1>b, <1>c DEF Talk, Bounds, PhoneTypes, HostTypes
<1>3. Ends'
  BY <1>a, <1>b, <1>c DEF Talk, Ends
<1>4. Opened'
  BY <1>a, <1>b, <1>c DEF Talk, Opened
<1>5. Attaching'
  BY <1>a, <1>b, <1>c DEF Talk, Attaching
<1>6. Answered'
  BY <1>a, <1>b, <1>c DEF Talk, Answered
<1>7. Addressed'
  BY <1>a, <1>b, <1>c DEF Talk, Addressed
<1>8. Unreceived'
  BY <1>a, <1>b, <1>c DEF Talk, Unreceived
<1> QED
  BY <1>1, <1>2, <1>3, <1>4, <1>5, <1>6, <1>7, <1>8 DEF Talk

(* A line goes out.                                                        *)
LEMMA TalkHostEmits ==
  ASSUME IInv,
         Talk,
         app # 0,
         ToHost' \subseteq ToHost,
         \A x \in ToPhone' : x \in ToPhone \/ (hostAtt /\ x = Frame("rpc", hostChan, app, emitted[app] + 1, FALSE)),
         (hostChan' = hostChan /\ hostAtt' = hostAtt) \/ (hostChan' = 0 /\ hostAtt' = FALSE),
         emitted' = [emitted EXCEPT ![app] = @ + 1],
         spool'.base = spool.base,
         UNCHANGED <<app, started>>,
         UNCHANGED <<pending, phoneChan, phoneAtt, contID, lastRecv, shakes>>
  PROVE  Talk'
<1>a. /\ \A x \in ToHost : x.chan \in Nat /\ x.chan # 0 /\ x.n \in Nat /\ x.sess \in Nat
      /\ \A x \in ToPhone : x.chan \in Nat /\ x.chan # 0 /\ x.n \in Nat /\ x.sess \in Nat
      /\ HostTypes /\ PhoneTypes
  BY FrameFields DEF Talk, Bounds
<1>b. \A x \in ToPhone' : x \in ToPhone \/
        (/\ hostAtt /\ x.kind = "rpc" /\ x.chan = hostChan /\ x.sess = app
         /\ x.n = emitted[app] + 1)
  BY DEF Frame
<1>c. /\ app \in Session /\ emitted'[app] = emitted[app] + 1 /\ emitted[app] \in Nat
      /\ \A s \in Session : emitted[s] \in Nat /\ emitted'[s] \in Nat /\ emitted[s] <= emitted'[s]
      /\ app <= started /\ MaxSessions \in Nat
  BY <1>a, LinkAssumption DEF HostTypes, Session, IInv, Sessions
<1>1. Kinds'
  BY <1>a, <1>b, <1>c DEF Talk, Kinds
<1>2. Bounds'
  BY <1>a, <1>b, <1>c DEF Talk, Bounds, PhoneTypes, HostTypes, Ends, Session
<1>3. Ends'
  BY <1>a, <1>b, <1>c DEF Talk, Ends
<1>4. Opened'
  BY <1>a, <1>b, <1>c DEF Talk, Opened
<1>5. Attaching'
  BY <1>a, <1>b, <1>c DEF Talk, Attaching
<1>6. Answered'
  BY <1>a, <1>b, <1>c DEF Talk, Answered, Ends
<1>7. Addressed'
  BY <1>a, <1>b, <1>c DEF Talk, Addressed, Ends
<1>8. Unreceived'
  BY <1>a, <1>b, <1>c DEF Talk, Unreceived
<1> QED
  BY <1>1, <1>2, <1>3, <1>4, <1>5, <1>6, <1>7, <1>8 DEF Talk

(* The phone comes back to the session it was in.                          *)
LEMMA TalkHostResumes ==
  ASSUME IInv,
         Talk,
         NEW m \in ToHost,
         m.kind = "attach",
         m.chan = hostChan,
         app # 0,
         m.sess = app,
         ToHost' \subseteq ToHost,
         Apart({m}, ToHost'),
         \A x \in ToPhone' : x \in ToPhone \/
           /\ x.chan = hostChan /\ x.sess = app
           /\ (x.kind = "attached" /\ x.yes) \/ (x.kind = "rpc" /\ x.n \in 1 .. emitted[app]),
         (hostChan' = hostChan /\ hostAtt' = TRUE) \/ (hostChan' = 0 /\ hostAtt' = FALSE),
         spool'.base = m.n + 1,
         UNCHANGED <<app, emitted, started>>,
         UNCHANGED <<pending, phoneChan, phoneAtt, contID, lastRecv, shakes>>
  PROVE  Talk'
<1>a. /\ \A x \in ToHost : x.chan \in Nat /\ x.chan # 0 /\ x.n \in Nat /\ x.sess \in Nat
      /\ \A x \in ToPhone : x.chan \in Nat /\ x.chan # 0 /\ x.n \in Nat /\ x.sess \in Nat
      /\ HostTypes /\ PhoneTypes
  BY FrameFields DEF Talk, Bounds
<1>b. /\ hostChan # 0 /\ app \in Session /\ emitted[app] \in Nat /\ app <= started /\ MaxSessions \in Nat
      /\ hostChan \in 1 .. shakes
  BY <1>a, LinkAssumption DEF HostTypes, Session, IInv, Sessions, Talk, Bounds
<1>c. /\ phoneChan = hostChan => ~phoneAtt /\ app = contID /\ m.n = lastRecv
      /\ contID = app => m.n <= lastRecv
      /\ \A x \in ToHost' : x.kind = "attach" => x.chan # hostChan
      /\ \A x \in ToHost : x.chan = hostChan => x.kind \notin {"ack", "ask", "hs1"}
      /\ \A x \in ToPhone : x.chan = hostChan => x.kind = "hs2"
  BY DEF Talk, Attaching, Addressed, Opened, Apart, Twin
<1>1. Kinds'
  BY <1>a, <1>b, <1>c DEF Talk, Kinds
<1>2. Bounds'
  BY <1>a, <1>b, <1>c DEF Talk, Bounds, PhoneTypes, HostTypes, Session
<1>3. Ends'
  BY <1>a, <1>b, <1>c DEF Talk, Ends
<1>4. Opened'
  BY <1>a, <1>b, <1>c DEF Talk, Opened
<1>5. Attaching'
  BY <1>a, <1>b, <1>c DEF Talk, Attaching
<1>6. Answered'
  BY <1>a, <1>b, <1>c DEF Talk, Answered
<1>7. Addressed'
  BY <1>a, <1>b, <1>c DEF Talk, Addressed
<1>8. Unreceived'
  BY <1>a, <1>b, <1>c DEF Talk, Unreceived, PhoneTypes
<1> QED
  BY <1>1, <1>2, <1>3, <1>4, <1>5, <1>6, <1>7, <1>8 DEF Talk

(* The phone gets a fresh session.                                        *)
LEMMA TalkHostRenews ==
  ASSUME IInv,
         Talk,
         NEW m \in ToHost,
         m.kind = "attach",
         m.chan = hostChan,
         started < MaxSessions,
         ToHost' \subseteq ToHost,
         Apart({m}, ToHost'),
         \A x \in ToPhone' : x \in ToPhone \/
           (x.chan = hostChan /\ x.sess = started + 1 /\ x.kind = "attached" /\ ~x.yes),
         (hostChan' = hostChan /\ hostAtt' = TRUE) \/ (hostChan' = 0 /\ hostAtt' = FALSE),
         spool'.base = 1,
         started' = started + 1,
         app' = started + 1,
         UNCHANGED <<emitted>>,
         UNCHANGED <<pending, phoneChan, phoneAtt, contID, lastRecv, shakes>>
  PROVE  Talk'
<1>a. /\ \A x \in ToHost : x.chan \in Nat /\ x.chan # 0 /\ x.n \in Nat /\ x.sess \in Nat
      /\ \A x \in ToPhone : x.chan \in Nat /\ x.chan # 0 /\ x.n \in Nat /\ x.sess \in Nat
      /\ HostTypes /\ PhoneTypes
  BY FrameFields DEF Talk, Bounds
<1>b. /\ hostChan # 0 /\ started \in Nat /\ app <= started /\ MaxSessions \in Nat
      /\ hostChan \in 1 .. shakes /\ started + 1 # 0 /\ started + 1 > started
  BY <1>a, LinkAssumption DEF HostTypes, Session, IInv, Sessions, Talk, Bounds
<1>c. /\ contID < started + 1
      /\ \A x \in ToHost : x.sess < started + 1
      /\ \A x \in ToPhone : x.sess # started + 1
  <2>1. started \in Nat /\ contID \in Nat /\ contID <= started
    BY <1>a, <1>b DEF PhoneTypes, Talk, Bounds
  <2>2. \A x \in ToHost : x.sess \in Nat /\ x.sess <= started
    BY <1>a DEF Talk, Bounds
  <2>3. \A x \in ToPhone : x.sess \in Nat /\ x.sess <= started
    BY <1>a DEF Talk, Bounds
  <2>4. \A x \in ToPhone : x.sess # started + 1
    BY <2>1, <2>3
  <2> QED
    BY <2>1, <2>2, <2>4
<1>d. /\ phoneChan = hostChan => ~phoneAtt
      /\ hostAtt = FALSE
      /\ \A x \in ToHost' : x.kind = "attach" => x.chan # hostChan
      /\ \A x \in ToHost : x.chan = hostChan => x.kind \notin {"ack", "ask", "hs1"}
      /\ \A x \in ToPhone : x.chan = hostChan => x.kind = "hs2"
  BY <1>a DEF Talk, Attaching, Addressed, Opened, HostTypes, Apart, Twin
<1>1. Kinds'
  BY <1>a, <1>b, <1>c, <1>d DEF Talk, Kinds
<1>2. Bounds'
  BY <1>a, <1>b, <1>c, <1>d DEF Talk, Bounds, PhoneTypes, HostTypes, Session
<1>3. Ends'
  BY <1>a, <1>b, <1>c, <1>d DEF Talk, Ends
<1>4. Opened'
  BY <1>a, <1>b, <1>c, <1>d DEF Talk, Opened
<1>5. Attaching'
  BY <1>a, <1>b, <1>c, <1>d DEF Talk, Attaching
<1>6. Answered'
  <2> SUFFICES ASSUME NEW x \in ToPhone', x.kind = "attached", x.chan = phoneChan
               PROVE  /\ ~phoneAtt /\ x.sess # 0
                      /\ hostChan' = x.chan => hostAtt' /\ app' = x.sess
                      /\ \A y \in ToHost' : y.chan = x.chan => y.kind \notin {"ack", "ask"}
                      /\ \A y \in ToPhone' : y.kind = "rpc" /\ y.chan = x.chan => y.sess = x.sess
                      /\ x.yes => x.sess = contID
                      /\ ~x.yes => /\ contID < x.sess /\ (app' = x.sess => spool'.base <= 1)
                                    /\ \A y \in ToHost' : y.sess < x.sess
    BY DEF Answered
  <2>1. CASE x \in ToPhone
    <3>1. x.chan # hostChan
      BY <1>d, <2>1
    <3> QED
      BY <1>a, <1>b, <1>c, <2>1, <3>1 DEF Talk, Answered
  <2>2. CASE x \notin ToPhone
    BY <1>a, <1>b, <1>c, <1>d, <2>2
  <2> QED
    BY <2>1, <2>2
<1>7. Addressed'
  BY <1>a, <1>b, <1>c, <1>d DEF Talk, Addressed
<1>8. Unreceived'
  BY <1>a, <1>b, <1>c, <1>d DEF Talk, Unreceived, Bounds, PhoneTypes
<1> QED
  BY <1>1, <1>2, <1>3, <1>4, <1>5, <1>6, <1>7, <1>8 DEF Talk

(* An ack reaches the session it is for.                                  *)
LEMMA TalkHostTrims ==
  ASSUME IInv,
         Talk,
         NEW m \in ToHost,
         m.kind = "ack",
         m.chan = hostChan,
         ToHost' \subseteq ToHost,
         ToPhone' \subseteq ToPhone,
         spool'.base = IF m.n + 1 > spool.base THEN m.n + 1 ELSE spool.base,
         UNCHANGED <<hostChan, hostAtt, app, emitted, started>>,
         UNCHANGED <<pending, phoneChan, phoneAtt, contID, lastRecv, shakes>>
  PROVE  Talk'
<1>a. /\ \A x \in ToHost : x.chan \in Nat /\ x.chan # 0 /\ x.n \in Nat /\ x.sess \in Nat
      /\ \A x \in ToPhone : x.chan \in Nat /\ x.chan # 0 /\ x.n \in Nat /\ x.sess \in Nat
      /\ HostTypes /\ PhoneTypes
  BY FrameFields DEF Talk, Bounds
<1>b. hostAtt /\ app = m.sess /\ (m.sess = contID => m.n <= lastRecv) /\ spool.base \in Nat
  BY <1>a DEF Talk, Addressed, HostTypes, Spool
<1>1. Kinds'
  BY <1>a, <1>b DEF Talk, Kinds
<1>2. Bounds'
  BY <1>a, <1>b DEF Talk, Bounds
<1>3. Ends'
  BY <1>a, <1>b DEF Talk, Ends
<1>4. Opened'
  BY <1>a, <1>b DEF Talk, Opened
<1>5. Attaching'
  BY <1>a, <1>b DEF Talk, Attaching
<1>6. Answered'
  BY <1>a, <1>b DEF Talk, Answered
<1>7. Addressed'
  BY <1>a, <1>b DEF Talk, Addressed
<1>8. Unreceived'
  BY <1>a, <1>b DEF Talk, Unreceived, PhoneTypes
<1> QED
  BY <1>1, <1>2, <1>3, <1>4, <1>5, <1>6, <1>7, <1>8 DEF Talk

(* The phone starts a handshake.                                           *)
LEMMA TalkPhoneShakes ==
  ASSUME IInv,
         Talk,
         ToPhone' \subseteq ToPhone,
         \A x \in ToHost' : x \in ToHost \/
           (x.kind = "hs1" /\ x.chan = shakes + 1 /\ x.sess = 0 /\ x.n = 0),
         shakes' = shakes + 1,
         pending' = shakes + 1,
         phoneChan' = 0,
         phoneAtt' = FALSE,
         UNCHANGED hostVars,
         UNCHANGED <<contID, lastRecv>>
  PROVE  Talk'
<1>a. /\ \A x \in ToHost : x.chan \in Nat /\ x.chan # 0 /\ x.n \in Nat /\ x.sess \in Nat
      /\ \A x \in ToPhone : x.chan \in Nat /\ x.chan # 0 /\ x.n \in Nat /\ x.sess \in Nat
      /\ HostTypes /\ PhoneTypes
  BY FrameFields DEF Talk, Bounds
<1>b. UNCHANGED <<hostChan, hostAtt, app, emitted, spool, started>>
  BY DEF hostVars
<1>c. /\ shakes \in Nat /\ hostChan # shakes + 1
      /\ \A x \in ToHost : x.chan # shakes + 1
      /\ \A x \in ToPhone : x.chan # shakes + 1
  BY <1>a DEF Talk, Bounds, PhoneTypes, HostTypes
<1>1. Kinds'
  BY <1>a, <1>b, <1>c DEF Talk, Kinds
<1>2. Bounds'
  BY <1>a, <1>b, <1>c DEF Talk, Bounds, PhoneTypes, HostTypes
<1>3. Ends'
  BY <1>a, <1>b, <1>c DEF Talk, Ends
<1>4. Opened'
  BY <1>a, <1>b, <1>c DEF Talk, Opened
<1>5. Attaching'
  BY <1>a, <1>b, <1>c DEF Talk, Attaching
<1>6. Answered'
  BY <1>a, <1>b, <1>c DEF Talk, Answered
<1>7. Addressed'
  BY <1>a, <1>b, <1>c DEF Talk, Addressed
<1>8. Unreceived'
  BY <1>a, <1>b, <1>c DEF Talk, Unreceived
<1> QED
  BY <1>1, <1>2, <1>3, <1>4, <1>5, <1>6, <1>7, <1>8 DEF Talk

(* The phone completes it.                                                 *)
LEMMA TalkPhoneCompletes ==
  ASSUME IInv,
         Talk,
         NEW m \in ToPhone,
         m.kind = "hs2",
         pending # 0,
         pending = m.chan,
         ToPhone' \subseteq ToPhone,
         \A x \in ToHost' : x \in ToHost \/
           (x.kind = "attach" /\ x.chan = pending /\ x.sess = contID /\ x.n = lastRecv),
         pending' = 0,
         phoneChan' \in {m.chan, 0},
         phoneAtt' = FALSE,
         UNCHANGED hostVars,
         UNCHANGED <<contID, lastRecv, shakes>>
  PROVE  Talk'
<1>a. /\ \A x \in ToHost : x.chan \in Nat /\ x.chan # 0 /\ x.n \in Nat /\ x.sess \in Nat
      /\ \A x \in ToPhone : x.chan \in Nat /\ x.chan # 0 /\ x.n \in Nat /\ x.sess \in Nat
      /\ HostTypes /\ PhoneTypes
  BY FrameFields DEF Talk, Bounds
<1>b. UNCHANGED <<hostChan, hostAtt, app, emitted, spool, started>>
  BY DEF hostVars
<1>c. /\ phoneChan = 0 /\ ~phoneAtt
      /\ hostChan = pending => ~hostAtt
      /\ \A x \in ToHost : x.chan # pending
      /\ \A x \in ToPhone : x.chan = pending => x.kind = "hs2"
      /\ pending \in 1 .. shakes /\ contID \in Nat /\ lastRecv \in Nat
  BY <1>a DEF Talk, Ends, Opened, Bounds, PhoneTypes
<1>1. Kinds'
  BY <1>a, <1>b, <1>c DEF Talk, Kinds
<1>2. Bounds'
  BY <1>a, <1>b, <1>c DEF Talk, Bounds, PhoneTypes, HostTypes
<1>3. Ends'
  BY <1>a, <1>b, <1>c DEF Talk, Ends
<1>4. Opened'
  BY <1>a, <1>b, <1>c DEF Talk, Opened
<1>5. Attaching'
  BY <1>a, <1>b, <1>c DEF Talk, Attaching
<1>6. Answered'
  BY <1>a, <1>b, <1>c DEF Talk, Answered
<1>7. Addressed'
  BY <1>a, <1>b, <1>c DEF Talk, Addressed
<1>8. Unreceived'
  BY <1>a, <1>b, <1>c DEF Talk, Unreceived
<1> QED
  BY <1>1, <1>2, <1>3, <1>4, <1>5, <1>6, <1>7, <1>8 DEF Talk

(* The phone learns which session it has.                                  *)
LEMMA TalkPhoneAttaches ==
  ASSUME IInv,
         Talk,
         NEW m \in ToPhone,
         m.kind = "attached",
         m.chan = phoneChan,
         Apart({m}, ToPhone'),
         ToHost' \subseteq ToHost,
         ToPhone' \subseteq ToPhone,
         contID' = m.sess,
         lastRecv' = IF ~m.yes \/ contID = 0 \/ m.sess # contID THEN 0 ELSE lastRecv,
         phoneAtt' = TRUE,
         UNCHANGED hostVars,
         UNCHANGED <<pending, phoneChan, shakes>>
  PROVE  Talk'
<1>a. /\ \A x \in ToHost : x.chan \in Nat /\ x.chan # 0 /\ x.n \in Nat /\ x.sess \in Nat
      /\ \A x \in ToPhone : x.chan \in Nat /\ x.chan # 0 /\ x.n \in Nat /\ x.sess \in Nat
      /\ HostTypes /\ PhoneTypes
  BY FrameFields DEF Talk, Bounds
<1>b. UNCHANGED <<hostChan, hostAtt, app, emitted, spool, started>>
  BY DEF hostVars
<1>c. \A x \in ToPhone' : x.kind = "attached" => x.chan # phoneChan
  BY DEF Apart, Twin
<1>d. /\ ~phoneAtt /\ m.sess # 0 /\ phoneChan # 0
      /\ hostChan = phoneChan => hostAtt /\ app = m.sess
      /\ \A x \in ToHost : x.chan = phoneChan => x.kind \notin {"ack", "ask"}
      /\ \A x \in ToPhone : x.kind = "rpc" /\ x.chan = phoneChan => x.sess = m.sess
      /\ m.yes => m.sess = contID /\ lastRecv' = lastRecv
      /\ ~m.yes => /\ contID < m.sess /\ (app = m.sess => spool.base <= 1)
                   /\ lastRecv' = 0 /\ \A x \in ToHost : x.sess < m.sess
  BY <1>a DEF Talk, Answered
<1>e. /\ \A x \in ToHost : x.kind \in {"hs1", "attach"} => x.chan # phoneChan
      /\ pending = 0 /\ m.sess \in Nat /\ m.sess <= started /\ started \in 0 .. MaxSessions /\ MaxSessions \in Nat
      /\ m.sess \in Session /\ lastRecv \in Nat
  BY <1>a, <1>d, LinkAssumption DEF Talk, Bounds, Opened, Attaching, Ends, HostTypes, PhoneTypes, Session
<1>1. Kinds'
  BY <1>a, <1>b, <1>c, <1>d, <1>e DEF Talk, Kinds
<1>2. Bounds'
  BY <1>a, <1>b, <1>c, <1>d, <1>e DEF Talk, Bounds, PhoneTypes, HostTypes, Session
<1>3. Ends'
  BY <1>a, <1>b, <1>c, <1>d, <1>e DEF Talk, Ends
<1>4. Opened'
  BY <1>a, <1>b, <1>c, <1>d, <1>e DEF Talk, Opened
<1>5. Attaching'
  BY <1>a, <1>b, <1>c, <1>d, <1>e DEF Talk, Attaching
<1>6. Answered'
  BY <1>a, <1>b, <1>c, <1>d, <1>e DEF Talk, Answered
<1>7. Addressed'
  BY <1>a, <1>b, <1>c, <1>d, <1>e DEF Talk, Addressed
<1>8. Unreceived'
  BY <1>a, <1>b, <1>c, <1>d, <1>e DEF Talk, Unreceived, HostTypes, Spool
<1> QED
  BY <1>1, <1>2, <1>3, <1>4, <1>5, <1>6, <1>7, <1>8 DEF Talk

(* The phone applies a line, or skips it.                                  *)
LEMMA TalkPhoneApplies ==
  ASSUME IInv,
         Talk,
         NEW m \in ToPhone,
         m.kind = "rpc",
         m.chan = phoneChan,
         ToHost' \subseteq ToHost,
         ToPhone' \subseteq ToPhone,
         (phoneAtt /\ m.n > lastRecv /\ lastRecv' = m.n) \/ lastRecv' = lastRecv,
         UNCHANGED hostVars,
         UNCHANGED <<pending, phoneChan, phoneAtt, contID, shakes>>
  PROVE  Talk'
<1>a. /\ \A x \in ToHost : x.chan \in Nat /\ x.chan # 0 /\ x.n \in Nat /\ x.sess \in Nat
      /\ \A x \in ToPhone : x.chan \in Nat /\ x.chan # 0 /\ x.n \in Nat /\ x.sess \in Nat
      /\ HostTypes /\ PhoneTypes
  BY FrameFields DEF Talk, Bounds
<1>b. UNCHANGED <<hostChan, hostAtt, app, emitted, spool, started>>
  BY DEF hostVars
<1>c. /\ lastRecv \in Nat /\ lastRecv' \in Nat /\ lastRecv <= lastRecv'
      /\ lastRecv' # lastRecv => phoneAtt /\ contID # 0 /\ lastRecv' <= emitted[contID]
  BY <1>a DEF Talk, Bounds, Addressed, Ends, PhoneTypes
<1>1. Kinds'
  BY <1>a, <1>b, <1>c DEF Talk, Kinds
<1>2. Bounds'
  BY <1>a, <1>b, <1>c DEF Talk, Bounds, PhoneTypes, HostTypes
<1>3. Ends'
  BY <1>a, <1>b, <1>c DEF Talk, Ends
<1>4. Opened'
  BY <1>a, <1>b, <1>c DEF Talk, Opened
<1>5. Attaching'
  BY <1>a, <1>b, <1>c DEF Talk, Attaching
<1>6. Answered'
  BY <1>a, <1>b, <1>c DEF Talk, Answered
<1>7. Addressed'
  BY <1>a, <1>b, <1>c DEF Talk, Addressed
<1>8. Unreceived'
  BY <1>a, <1>b, <1>c DEF Talk, Unreceived, HostTypes, Spool
<1> QED
  BY <1>1, <1>2, <1>3, <1>4, <1>5, <1>6, <1>7, <1>8 DEF Talk

(* The phone sends an ack or a request.                                    *)
LEMMA TalkPhoneSends ==
  ASSUME IInv,
         Talk,
         phoneAtt,
         phoneChan # 0,
         ToPhone' \subseteq ToPhone,
         \A x \in ToHost' : x \in ToHost \/
           (x.kind \in {"ack", "ask"} /\ x.chan = phoneChan /\ x.sess = contID /\ x.n \in {0, lastRecv}),
         (phoneChan' = phoneChan /\ phoneAtt' = phoneAtt) \/ (phoneChan' = 0 /\ phoneAtt' = FALSE),
         UNCHANGED hostVars,
         UNCHANGED <<pending, contID, lastRecv, shakes>>
  PROVE  Talk'
<1>a. /\ \A x \in ToHost : x.chan \in Nat /\ x.chan # 0 /\ x.n \in Nat /\ x.sess \in Nat
      /\ \A x \in ToPhone : x.chan \in Nat /\ x.chan # 0 /\ x.n \in Nat /\ x.sess \in Nat
      /\ HostTypes /\ PhoneTypes
  BY FrameFields DEF Talk, Bounds
<1>b. UNCHANGED <<hostChan, hostAtt, app, emitted, spool, started>>
  BY DEF hostVars
<1>c. /\ contID # 0 /\ lastRecv <= emitted[contID] /\ emitted[contID] \in Nat /\ phoneChan \in 1 .. shakes /\ contID <= started /\ pending = 0
      /\ hostChan = phoneChan => hostAtt /\ app = contID
      /\ \A x \in ToHost : x.chan = phoneChan => x.kind \notin {"hs1", "attach"}
      /\ \A x \in ToPhone : x.chan = phoneChan => x.kind # "attached"
      /\ contID \in Nat /\ lastRecv \in Nat
  BY <1>a, LinkAssumption DEF Talk, Bounds, Ends, Opened, Attaching, Answered, PhoneTypes, HostTypes, Session
<1>1. Kinds'
  BY <1>a, <1>b, <1>c DEF Talk, Kinds
<1>2. Bounds'
  <2>1. \A x \in ToHost' : /\ x.chan \in 1 .. shakes /\ x.sess <= started
                            /\ IF x.sess = 0 THEN x.n = 0 ELSE x.n <= emitted[x.sess]
    <3> TAKE x \in ToHost'
    <3>1. CASE x \in ToHost
      BY <3>1 DEF Talk, Bounds
    <3>2. CASE x \notin ToHost
      <4>1. x.chan = phoneChan /\ x.sess = contID /\ x.n \in {0, lastRecv}
        BY <3>2
      <4> QED
        BY <1>c, <4>1
    <3> QED
      BY <3>1, <3>2
  <2>2. phoneChan' \in {0, phoneChan}
    OBVIOUS
  <2> QED
    BY <1>a, <1>b, <1>c, <2>1, <2>2 DEF Talk, Bounds
<1>3. Ends'
  BY <1>a, <1>b, <1>c DEF Talk, Ends
<1>4. Opened'
  BY <1>a, <1>b, <1>c DEF Talk, Opened
<1>5. Attaching'
  BY <1>a, <1>b, <1>c DEF Talk, Attaching
<1>6. Answered'
  BY <1>a, <1>b, <1>c DEF Talk, Answered
<1>7. Addressed'
  <2>1. ASSUME NEW x \in ToHost', x.kind \in {"ack", "ask"}, x.chan = hostChan
        PROVE  hostAtt /\ app = x.sess
    BY <1>c, <2>1 DEF Talk, Addressed
  <2>2. ASSUME NEW x \in ToHost', x.kind \in {"ack", "attach"}, x.sess = contID
        PROVE  x.n <= lastRecv
    <3>1. CASE x \in ToHost
      BY <2>2, <3>1 DEF Talk, Addressed
    <3>2. CASE x \notin ToHost
      BY <1>c, <3>2
    <3> QED
      BY <3>1, <3>2
  <2>3. ASSUME NEW x \in ToPhone', x.kind = "rpc", x.chan = phoneChan', phoneAtt'
        PROVE  x.sess = contID
    BY <2>3 DEF Talk, Addressed
  <2> QED
    BY <1>b, <2>1, <2>2, <2>3 DEF Addressed
<1>8. Unreceived'
  BY <1>a, <1>b, <1>c DEF Talk, Unreceived
<1> QED
  BY <1>1, <1>2, <1>3, <1>4, <1>5, <1>6, <1>7, <1>8 DEF Talk

(***************************************************************************)
(* The steps.                                                              *)
(***************************************************************************)
(* A read, with what is written at once.                                   *)
LEMMA DeviceReads ==
  ASSUME Sane, NEW s \in Side, NEW kind,
         Reads(s, kind) \/ (ReadsOk(s) /\ kind = "ok"), UNCHANGED relayVars,
         NEW frames \in Seq(Msg), up' = Written(s, frames) \/ (up' = up /\ frames = <<>>)
  PROVE  /\ Head(down[s]) \in Msg /\ Head(down[s]).kind = kind
         /\ kind \notin NoteKind => Head(down[s]) \in Flight(Peer(s))
         /\ Apart({Head(down[s])}, Flight(Peer(s))') /\ Flight(Peer(s))' \subseteq Flight(Peer(s))
         /\ Once(Peer(s))'
         /\ Flight(s)' \subseteq Flight(s) \cup Elems(frames)
         /\ /\ Single(frames) /\ Apart(Elems(frames), Flight(s))
            /\ \A m \in Elems(frames) : m.kind \notin NoteKind
            => Once(s)'
<1> DEFINE m == Head(down[s])
<1>1. /\ down[s] # <<>> /\ m.kind = kind /\ down' = [down EXCEPT ![s] = Tail(@)]
      /\ Peer(s) \in Side /\ Peer(Peer(s)) = s
  BY Peers DEF Reads, ReadsOk
<1>2. m \in Msg
  <2>1. down[s] \in Seq(Msg)
    BY Types DEF Sane, IInv, QueueTypes
  <2> QED
    BY <1>1, <2>1, HeadTailProperties
<1> HIDE DEF m
<1>3. /\ TakesIn(Peer(s)) /\ (PutsIn(s, frames) \/ (Cuts(s) /\ frames = <<>>))
  BY <1>1, ReadShape DEF Sane
<1>4. /\ Flight(Peer(s))' \subseteq Flight(Peer(s))
      /\ m.kind \notin NoteKind => m \in Flight(Peer(s))
      /\ Once(Peer(s))' /\ Apart({m}, Flight(Peer(s))')
  BY <1>1, <1>3, TakesInFlow DEF Sane, m
<1>5. CASE PutsIn(s, frames)
  BY <1>1, <1>2, <1>4, <1>5, PutsInFlow DEF Sane, m
<1>6. CASE Cuts(s) /\ frames = <<>>
  BY <1>1, <1>2, <1>4, <1>6, CutsFlow DEF Sane, m
<1> QED
  BY <1>3, <1>5, <1>6

(* A write without a read.                                                 *)
LEMMA DeviceWrites ==
  ASSUME Sane, NEW s \in Side, UNCHANGED <<relayVars, down>>,
         NEW frames \in Seq(Msg), up' = Written(s, frames) \/ (up' = up /\ frames = <<>>)
  PROVE  /\ Flight(Peer(s))' \subseteq Flight(Peer(s)) /\ Once(Peer(s))'
         /\ Flight(s)' \subseteq Flight(s) \cup Elems(frames)
         /\ /\ Single(frames) /\ Apart(Elems(frames), Flight(s))
            /\ \A m \in Elems(frames) : m.kind \notin NoteKind
            => Once(s)'
<1>1. Peer(s) \in Side
  BY Peers
<1>2. CASE up' = Written(s, frames)
  <2>1. PutsIn(s, frames) /\ Cuts(Peer(s))
    BY <1>2, WriteShape DEF Sane
  <2> QED
    BY <1>1, <2>1, PutsInFlow, CutsFlow DEF Sane
<1>3. CASE up' = up /\ frames = <<>>
  <2>1. \A t \in Side : Cuts(t)
    BY <1>3 DEF Cuts, NoteEnters, InHand, relayVars
  <2> QED
    BY <1>1, <2>1, CutsFlow DEF Sane
<1> QED
  BY <1>2, <1>3

(* One frame.                                                              *)
LEMMA OneFrame ==
  ASSUME NEW f \in Msg
  PROVE  <<f>> \in Seq(Msg) /\ Elems(<<f>>) = {f} /\ Single(<<f>>)
<1>1. Len(<<f>>) = 1 /\ <<f>>[1] = f /\ <<f>> \in Seq(Msg)
  OBVIOUS
<1>2. Ahead(<<f>>, 1) = {}
  BY DEF Ahead
<1>3. \A i \in 1 .. Len(<<f>>) : i = 1
  BY <1>1
<1>4. Elems(<<f>>) = {f}
  BY <1>1, <1>3 DEF Elems
<1>5. Single(<<f>>)
  BY <1>1, <1>2, <1>3 DEF Single, Apart
<1> QED
  BY <1>1, <1>4, <1>5

(* The two directions of the flow.                                         *)
LEMMA Directions ==
  /\ Peer("host") = "phone" /\ Peer("phone") = "host" /\ "host" \in Side /\ "phone" \in Side
  /\ Flight("phone") = ToHost /\ Flight("host") = ToPhone
  /\ Flight("phone")' = ToHost' /\ Flight("host")' = ToPhone'
BY DEF Peer, Side, ToHost, ToPhone

TalkNext == Talk' /\ Once("host")' /\ Once("phone")'

(* Nothing is added where a device only reads.                             *)
LEMMA JustReads ==
  ASSUME Sane, NEW s \in Side, NEW kind,
         Reads(s, kind) \/ (ReadsOk(s) /\ kind = "ok"), UNCHANGED <<relayVars, up>>
  PROVE  /\ ToHost' \subseteq ToHost /\ ToPhone' \subseteq ToPhone
         /\ Once("host")' /\ Once("phone")'
         /\ Head(down[s]).kind = kind
         /\ kind \notin NoteKind => Head(down[s]) \in Flight(Peer(s))
         /\ Apart({Head(down[s])}, Flight(Peer(s))')
<1>1. <<>> \in Seq(Msg) /\ Elems(<<>>) = {} /\ Single(<<>>) /\ Apart(Elems(<<>>), Flight(s)) /\ up' = up
  BY NoElems DEF Apart
<1>2. /\ Head(down[s]).kind = kind
      /\ kind \notin NoteKind => Head(down[s]) \in Flight(Peer(s))
      /\ Flight(Peer(s))' \subseteq Flight(Peer(s)) /\ Flight(s)' \subseteq Flight(s)
      /\ Once(Peer(s))' /\ Once(s)' /\ Apart({Head(down[s])}, Flight(Peer(s))')
  BY <1>1, DeviceReads
<1>3. s = "host" \/ s = "phone"
  BY DEF Side
<1> QED
  BY <1>2, <1>3, Directions

(* Steps that only read, and the host that drops its channel.              *)
LEMMA HostListensTalk == Sane /\ (HostIgnores \/ HostForwards) => TalkNext
<1> SUFFICES ASSUME Sane, HostIgnores \/ HostForwards PROVE TalkNext
  OBVIOUS
<1>1. PICK kind : Reads("host", kind)
  BY DEF HostIgnores, HostForwards, HostOpens
<1>2. UNCHANGED <<relayVars, up>> /\ UNCHANGED hostVars /\ UNCHANGED phoneVars
  BY DEF HostIgnores, HostForwards
<1>3. ToHost' \subseteq ToHost /\ ToPhone' \subseteq ToPhone /\ Once("host")' /\ Once("phone")'
  BY <1>1, <1>2, JustReads, Directions
<1> QED
  BY <1>2, <1>3, TalkStays DEF TalkNext, Sane, phoneVars

(* The host is told that the phone is gone.                                *)
LEMMA HostDetachesTalk == Sane /\ HostDetaches => TalkNext
<1> SUFFICES ASSUME Sane, HostDetaches PROVE TalkNext
  OBVIOUS
<1>1. PICK kind : Reads("host", kind)
  BY DEF HostDetaches
<1>2. UNCHANGED <<relayVars, up>>
  BY DEF HostDetaches
<1>3. ToHost' \subseteq ToHost /\ ToPhone' \subseteq ToPhone /\ Once("host")' /\ Once("phone")'
  BY <1>1, <1>2, JustReads, Directions
<1> QED
  BY <1>3, TalkHostGone DEF TalkNext, Sane, HostDetaches, phoneVars

(* The phone reads what another channel sealed.                            *)
LEMMA PhoneListensTalk == Sane /\ PhoneIgnores => TalkNext
<1> SUFFICES ASSUME Sane, PhoneIgnores PROVE TalkNext
  OBVIOUS
<1>1. PICK kind : Reads("phone", kind)
  BY DEF PhoneIgnores
<1>2. UNCHANGED <<relayVars, up>> /\ UNCHANGED hostVars /\ UNCHANGED phoneVars
  BY DEF PhoneIgnores
<1>3. ToHost' \subseteq ToHost /\ ToPhone' \subseteq ToPhone /\ Once("host")' /\ Once("phone")'
  BY <1>1, <1>2, JustReads, Directions
<1> QED
  BY <1>2, <1>3, TalkStays DEF TalkNext, Sane, phoneVars

(* The phone is told that the host is gone.                                *)
LEMMA PhoneDetachesTalk == Sane /\ PhoneDetaches => TalkNext
<1> SUFFICES ASSUME Sane, PhoneDetaches PROVE TalkNext
  OBVIOUS
<1>1. PICK kind : Reads("phone", kind)
  BY DEF PhoneDetaches
<1>2. UNCHANGED <<relayVars, up>> /\ UNCHANGED hostVars
  BY DEF PhoneDetaches
<1>3. ToHost' \subseteq ToHost /\ ToPhone' \subseteq ToPhone /\ Once("host")' /\ Once("phone")'
  BY <1>1, <1>2, JustReads, Directions
<1> QED
  BY <1>2, <1>3, TalkPhoneGone DEF TalkNext, Sane, PhoneDetaches

(* A device that dials or hangs up.                                        *)
LEMMA SocketFlow ==
  ASSUME Sane, NEW s \in Side, Dial(s) \/ HangUp(s)
  PROVE  ToHost' \subseteq ToHost /\ ToPhone' \subseteq ToPhone /\ Once("host")' /\ Once("phone")'
<1>1. \A t \in Side : Shrinks(t)
  BY DialShape, HangUpShape DEF Sane
<1> QED
  BY <1>1, Directions DEF Shrinks, Sane

(* The host loses its socket, or starts anew.                              *)
LEMMA HostHangsUpTalk == Sane /\ (HostHangsUp \/ HostRestarts) => TalkNext
<1> SUFFICES ASSUME Sane, HostHangsUp \/ HostRestarts PROVE TalkNext
  OBVIOUS
<1>1. ToHost' \subseteq ToHost /\ ToPhone' \subseteq ToPhone /\ Once("host")' /\ Once("phone")'
  BY SocketFlow DEF HostHangsUp, HostRestarts, Side
<1>2. /\ hostChan' = 0 /\ hostAtt' = FALSE /\ (app' = 0 \/ UNCHANGED <<app, spool>>)
      /\ UNCHANGED <<emitted, started, pending, phoneChan, phoneAtt, contID, lastRecv, shakes>>
  BY DEF HostHangsUp, HostRestarts, phoneVars
<1> QED
  BY <1>1, <1>2, TalkHostGone DEF TalkNext, Sane

(* The phone loses its socket, or starts anew.                             *)
LEMMA PhoneHangsUpTalk == Sane /\ (PhoneHangsUp \/ PhoneRestarts) => TalkNext
<1> SUFFICES ASSUME Sane, PhoneHangsUp \/ PhoneRestarts PROVE TalkNext
  OBVIOUS
<1>1. ToHost' \subseteq ToHost /\ ToPhone' \subseteq ToPhone /\ Once("host")' /\ Once("phone")'
  BY SocketFlow DEF PhoneHangsUp, PhoneRestarts, Side
<1>2. /\ phoneChan' = 0 /\ phoneAtt' = FALSE /\ pending' = 0 /\ UNCHANGED hostVars /\ shakes' = shakes
      /\ (contID' = 0 /\ lastRecv' = 0) \/ UNCHANGED <<contID, lastRecv>>
  BY DEF PhoneHangsUp, PhoneRestarts
<1> QED
  BY <1>1, <1>2, TalkPhoneGone DEF TalkNext, Sane

(* The host dials, or hears that it is registered.                         *)
LEMMA HostConnectsTalk == Sane /\ HostConnects => TalkNext
<1> SUFFICES ASSUME Sane, HostConnects PROVE TalkNext
  OBVIOUS
<1>1. UNCHANGED hostVars /\ UNCHANGED phoneVars
  BY DEF HostConnects
<1>2. ToHost' \subseteq ToHost /\ ToPhone' \subseteq ToPhone /\ Once("host")' /\ Once("phone")'
  <2>1. CASE Dial("host")
    BY <2>1, SocketFlow DEF Side
  <2>2. CASE ~Dial("host")
    <3>1. ReadsOk("host") /\ UNCHANGED <<relayVars, up>>
      BY <2>2 DEF HostConnects
    <3> QED
      BY <3>1, JustReads, Directions
  <2> QED
    BY <2>1, <2>2
<1> QED
  BY <1>1, <1>2, TalkStays DEF TalkNext, Sane, phoneVars

(* The relay moves a message, or drops one.                                *)
LEMMA RelayTalk == Sane /\ Registered /\ RelayNext => TalkNext
<1> SUFFICES ASSUME Sane, Registered, RelayNext PROVE TalkNext
  OBVIOUS
<1>1. RelayStep /\ UNCHANGED hostVars /\ UNCHANGED phoneVars
  BY DEF RelayNext
<1>2. \A t \in Side : Shrinks(t)
  BY <1>1, RelayFlow DEF Sane
<1>3. ToHost' \subseteq ToHost /\ ToPhone' \subseteq ToPhone /\ Once("host")' /\ Once("phone")'
  BY <1>2, Directions DEF Shrinks, Sane
<1> QED
  BY <1>1, <1>3, TalkStays DEF TalkNext, Sane, phoneVars

(* What a write of the host leaves of its channel.                         *)
LEMMA HostChannel ==
  ASSUME NEW chan, NEW att \in BOOLEAN, NEW frames, HostSends(chan, att, frames)
  PROVE  /\ up' = Written("host", frames)
         /\ (hostChan' = chan /\ hostAtt' = att) \/ (hostChan' = 0 /\ hostAtt' = FALSE)
<1>1. PICK failed \in WriteErr("host") :
        /\ up' = Written("host", frames)
        /\ hostChan' = IF failed THEN 0 ELSE chan
        /\ hostAtt' = (att /\ ~failed)
  BY DEF HostSends
<1>2. failed \in BOOLEAN
  BY WriteErrs
<1>3. CASE failed
  BY <1>1, <1>3
<1>4. CASE ~failed
  BY <1>1, <1>4
<1> QED
  BY <1>2, <1>3, <1>4

(* An attach has no answer yet.                                            *)
LEMMA HostShakesTalk == Sane /\ HostShakes => TalkNext
<1> SUFFICES ASSUME Sane, HostShakes PROVE TalkNext
  OBVIOUS
<1> DEFINE m == Head(down["host"])
           f == Frame("hs2", m.chan, 0, 0, FALSE)
<1>1. /\ Reads("host", "hs1") /\ HostSends(m.chan, FALSE, <<f>>)
      /\ UNCHANGED <<app, emitted, spool, started, relayVars>> /\ UNCHANGED phoneVars
  BY DEF HostShakes
<1>2. m.chan \in Nat
  BY <1>1, HostMessage DEF Sane, IInv
<1>3. f \in Msg /\ f.kind = "hs2"
  BY <1>2 DEF Frame, Msg, Kind
<1> HIDE DEF m, f
<1>4. <<f>> \in Seq(Msg) /\ Elems(<<f>>) = {f} /\ Single(<<f>>)
  BY <1>3, OneFrame
<1>5. up' = Written("host", <<f>>) /\ hostChan' \in {m.chan, 0} /\ hostAtt' = FALSE
  BY <1>1, HostChannel
<1>6. /\ m \in ToHost /\ m.kind = "hs1" /\ Apart({m}, ToHost') /\ ToHost' \subseteq ToHost
      /\ Once("phone")' /\ ToPhone' \subseteq ToPhone \cup {f}
      /\ Apart({f}, ToPhone) /\ f.kind \notin NoteKind => Once("host")'
  <2>1. "hs1" \notin NoteKind
    BY DEF NoteKind
  <2> QED
    BY <1>1, <1>4, <1>5, <2>1, DeviceReads, Directions DEF m
<1>7. Apart({f}, ToPhone) /\ f.kind \notin NoteKind
  BY <1>3 DEF Apart, Twin, NoteKind
<1>8. Talk'
  BY <1>1, <1>5, <1>6, TalkHostShakes DEF Sane, phoneVars, f
<1> QED
  BY <1>6, <1>7, <1>8 DEF TalkNext

(* A line goes out to a phone that is attached, or only to the spool.      *)
LEMMA HostEmitsTalk == Sane /\ HostEmits => TalkNext
<1> SUFFICES ASSUME Sane, HostEmits PROVE TalkNext
  OBVIOUS
<1> DEFINE f == Frame("rpc", hostChan, app, emitted[app] + 1, FALSE)
<1>1. /\ app # 0 /\ emitted' = [emitted EXCEPT ![app] = @ + 1] /\ spool' = Kept(spool, emitted[app] + 1)
      /\ IF hostAtt /\ hostChan # 0 THEN HostSends(hostChan, hostAtt, <<f>>)
         ELSE UNCHANGED <<up, hostChan, hostAtt>>
      /\ UNCHANGED <<app, started, relayVars, down>> /\ UNCHANGED phoneVars
  BY DEF HostEmits
<1>2. HostTypes /\ app \in Session /\ emitted[app] \in Nat /\ app \in Nat /\ hostChan \in Nat /\ hostAtt \in BOOLEAN
  BY <1>1, Types, LinkAssumption DEF Sane, IInv, HostTypes, Session
<1>3. f \in Msg /\ f.kind = "rpc"
  BY <1>2 DEF Frame, Msg, Kind
<1>4. spool'.base = spool.base
  BY <1>1, <1>2 DEF HostTypes, Spool, Kept
<1> HIDE DEF f
<1>5. <<f>> \in Seq(Msg) /\ Elems(<<f>>) = {f} /\ Single(<<f>>)
  BY <1>3, OneFrame
<1>6. Apart({f}, ToPhone) /\ f.kind \notin NoteKind
  BY <1>3 DEF Apart, Twin, NoteKind
<1>7. CASE hostAtt /\ hostChan # 0
  <2>1. /\ up' = Written("host", <<f>>)
        /\ (hostChan' = hostChan /\ hostAtt' = hostAtt) \/ (hostChan' = 0 /\ hostAtt' = FALSE)
    BY <1>1, <1>2, <1>7, HostChannel
  <2>2. /\ ToHost' \subseteq ToHost /\ Once("phone")' /\ ToPhone' \subseteq ToPhone \cup {f} /\ Once("host")'
    BY <1>1, <1>5, <1>6, <2>1, DeviceWrites, Directions
  <2>3. Talk'
    BY <1>1, <1>4, <1>7, <2>1, <2>2, TalkHostEmits DEF Sane, phoneVars, f
  <2> QED
    BY <2>2, <2>3 DEF TalkNext
<1>8. CASE ~(hostAtt /\ hostChan # 0)
  <2>1. up' = up /\ hostChan' = hostChan /\ hostAtt' = hostAtt
    BY <1>1, <1>8
  <2>2. <<>> \in Seq(Msg) /\ Elems(<<>>) = {} /\ Single(<<>>) /\ Apart(Elems(<<>>), ToPhone)
    BY NoElems DEF Apart
  <2>3. /\ ToHost' \subseteq ToHost /\ Once("phone")' /\ ToPhone' \subseteq ToPhone /\ Once("host")'
    BY <1>1, <2>1, <2>2, DeviceWrites, Directions
  <2>4. Talk'
    BY <1>1, <1>4, <2>1, <2>3, TalkHostEmits DEF Sane, phoneVars
  <2> QED
    BY <2>3, <2>4 DEF TalkNext
<1> QED
  BY <1>7, <1>8

(* The frames of a resumption: the answer, and lines that were emitted.    *)
Resumption(chan, sess, replay) ==
  <<Frame("attached", chan, sess, 0, TRUE)>> \o
  [i \in 1 .. Len(replay) |-> Frame("rpc", chan, sess, replay[i], FALSE)]
OfResumption(f, chan, sess, replay) ==
  /\ f.chan = chan /\ f.sess = sess
  /\ (f.kind = "attached" /\ f.yes) \/ (f.kind = "rpc" /\ \E i \in 1 .. Len(replay) : f.n = replay[i])

(* They are typed, single, and all of the session.                         *)
LEMMA ResumptionFrames ==
  ASSUME NEW chan \in Nat, NEW sess \in Nat, NEW replay \in Seq(Nat)
  PROVE  LET frames == Resumption(chan, sess, replay) IN
         /\ frames \in Seq(Msg) /\ Single(frames) /\ Len(frames) = Len(replay) + 1
         /\ frames[1] = Frame("attached", chan, sess, 0, TRUE)
         /\ \A i \in 2 .. Len(frames) : frames[i] = Frame("rpc", chan, sess, replay[i - 1], FALSE)
         /\ \A f \in Elems(frames) : OfResumption(f, chan, sess, replay)
<1> DEFINE a == Frame("attached", chan, sess, 0, TRUE)
           r == [i \in 1 .. Len(replay) |-> Frame("rpc", chan, sess, replay[i], FALSE)]
           frames == <<a>> \o r
<1>1. a \in Msg /\ a.kind = "attached" /\ a.chan = chan /\ a.sess = sess /\ a.yes
  <2>1. a \in Msg /\ a.kind = "attached" /\ a.chan = chan /\ a.sess = sess
    BY DEF Frame, Msg, Kind
  <2>2. a.yes
    BY NewFlag, Zenon
  <2> QED
    BY <2>1, <2>2
<1>2. \A i \in 1 .. Len(replay) : r[i] = Frame("rpc", chan, sess, replay[i], FALSE)
  OBVIOUS
<1>3. \A i \in 1 .. Len(replay) :
        r[i] \in Msg /\ r[i].kind = "rpc" /\ r[i].chan = chan /\ r[i].sess = sess /\ r[i].n = replay[i]
  <2> TAKE i \in 1 .. Len(replay)
  <2>1. replay[i] \in Nat
    OBVIOUS
  <2> DEFINE f == Frame("rpc", chan, sess, replay[i], FALSE)
  <2>2. f \in Msg /\ f.kind = "rpc" /\ f.chan = chan /\ f.sess = sess /\ f.n = replay[i]
    BY <2>1 DEF Frame, Msg, Kind
  <2>3. r[i] = f
    BY <1>2
  <2> HIDE DEF r, f
  <2> QED
    BY <2>2, <2>3
<1>4. Len(replay) \in Nat /\ r = [i \in 1 .. Len(replay) |-> r[i]]
  OBVIOUS
<1>5. r \in Seq(Msg) /\ Len(r) = Len(replay)
  <2>1. r \in [1 .. Len(replay) -> Msg]
    BY <1>3, <1>4
  <2> HIDE DEF r
  <2> QED
    BY <1>4, <2>1, MessageSeq
<1> HIDE DEF a, r
<1>6. <<a>> \in Seq(Msg) /\ Elems(<<a>>) = {a} /\ Single(<<a>>)
  BY <1>1, OneFrame
<1>7. frames \in Seq(Msg) /\ Elems(frames) = {a} \cup Elems(r)
  BY <1>5, <1>6, ConcatElems
<1>8. Single(r) /\ Apart(Elems(r), {a})
  BY <1>1, <1>3, <1>5 DEF Single, Apart, Twin, Elems
<1>9. Single(frames)
  BY <1>5, <1>6, <1>8, SingleConcat
<1>10. /\ Len(frames) = Len(replay) + 1 /\ frames[1] = a
       /\ \A i \in 2 .. Len(frames) : frames[i] = r[i - 1] /\ i - 1 \in 1 .. Len(replay)
  <2>1. /\ Len(frames) = 1 + Len(r)
        /\ \A i \in 1 .. 1 + Len(r) : frames[i] = IF i <= 1 THEN <<a>>[i] ELSE r[i - 1]
    BY <1>5, <1>6, ConcatProperties
  <2> HIDE DEF frames
  <2>2. frames[1] = a /\ Len(frames) = Len(replay) + 1
    <3>1. 1 \in 1 .. 1 + Len(r) /\ Len(r) + 1 = 1 + Len(r)
      BY <1>4, <1>5
    <3>2. frames[1] = <<a>>[1]
      BY <2>1, <3>1
    <3> QED
      BY <1>4, <1>5, <2>1, <3>1, <3>2
  <2>3. \A i \in 2 .. Len(frames) : i \in 1 .. 1 + Len(r) /\ ~(i <= 1) /\ i - 1 \in 1 .. Len(replay)
    BY <1>4, <1>5, <2>1
  <2> QED
    BY <2>1, <2>2, <2>3
<1>11. \A f \in Elems(frames) : OfResumption(f, chan, sess, replay)
  <2> TAKE f \in Elems(frames)
  <2>1. CASE f = a
    BY <1>1, <2>1 DEF OfResumption
  <2>2. CASE f # a
    <3>1. PICK i \in 1 .. Len(r) : f = r[i]
      BY <1>7, <2>2 DEF Elems
    <3> QED
      BY <1>3, <1>5, <3>1 DEF OfResumption
  <2> QED
    BY <2>1, <2>2
<1>12. frames = Resumption(chan, sess, replay)
  BY DEF Resumption, a, r
<1> HIDE DEF frames
<1>13. \A i \in 2 .. Len(frames) : frames[i] = Frame("rpc", chan, sess, replay[i - 1], FALSE)
  BY <1>2, <1>10
<1> QED
  BY <1>7, <1>9, <1>10, <1>11, <1>12, <1>13 DEF a

(* What the host does on an attach of a phone it resumes.                  *)
LEMMA HostResumesShape ==
  ASSUME Sane, HostResumes
  PROVE  LET m == Head(down["host"])
             replay == After(spool.entries, m.n)
             frames == Resumption(hostChan, app, replay) IN
         /\ Reads("host", "attach") /\ m.chan = hostChan /\ m.sess = app /\ m \in ToHost /\ m.kind = "attach"
         /\ app # 0 /\ app \in Session /\ app \in Nat /\ hostChan \in Nat /\ emitted[app] \in Nat
         /\ m.n \in 0 .. emitted[app] /\ replay = [i \in 1 .. emitted[app] - m.n |-> m.n + i]
         /\ replay \in Seq(Nat) /\ Len(replay) = emitted[app] - m.n
         /\ HostSends(hostChan, TRUE, frames) /\ spool'.base = m.n + 1
         /\ UNCHANGED <<app, emitted, started, relayVars>> /\ UNCHANGED phoneVars
         /\ Apart({m}, ToHost')
<1> DEFINE m == Head(down["host"])
           replay == After(spool.entries, m.n)
           frames == Resumption(hostChan, app, replay)
<1>1. /\ Reads("host", "attach") /\ m.chan = hostChan /\ app # 0 /\ m.sess = app /\ Bridges(spool, m.n)
      /\ spool' = AckTo(spool, m.n) /\ HostSends(hostChan, TRUE, frames)
      /\ UNCHANGED <<app, emitted, started, relayVars>> /\ UNCHANGED phoneVars
  BY DEF HostResumes, HostOpens, Resumption
<1>2. /\ HostTypes /\ app \in Session /\ app \in Nat /\ emitted[app] \in Nat /\ hostChan \in Nat /\ spool \in Spool
      /\ Retained(spool, emitted[app])
  BY <1>1, Types, LinkAssumption DEF Sane, IInv, HostTypes, Session, Sessions
<1> HIDE DEF frames, m
<1>3. up' = Written("host", frames)
  BY <1>1, HostChannel
<1>4. m \in ToHost /\ m.kind = "attach"
  <2>1. /\ down["host"] # <<>> /\ m.kind = "attach" /\ down' = [down EXCEPT !["host"] = Tail(@)]
    BY <1>1 DEF Reads, m
  <2>2. down["host"] \in Seq(Msg) /\ "attach" \notin NoteKind
    BY Types DEF Sane, IInv, QueueTypes, Side, NoteKind
  <2>3. m \in Elems(down["host"])
    BY <2>1, <2>2, TailElems DEF m
  <2> QED
    BY <2>1, <2>2, <2>3, FlightPlaces, Directions
<1>5. m.n \in Nat /\ m.n <= emitted[app]
  <2>1. m.n \in Nat
    BY <1>4, FrameFields DEF Sane
  <2>2. IF m.sess = 0 THEN m.n = 0 ELSE m.n <= emitted[m.sess]
    BY <1>4 DEF Sane, Talk, Bounds
  <2> QED
    BY <1>1, <2>1, <2>2
<1>6. replay = [i \in 1 .. emitted[app] - m.n |-> m.n + i]
  <2>1. m.n \in 0 .. emitted[app]
    BY <1>2, <1>5
  <2> QED
    BY <1>1, <1>2, <2>1, ReplayFacts
<1>7. replay \in Seq(Nat) /\ Len(replay) = emitted[app] - m.n
  <2> DEFINE d == emitted[app] - m.n
  <2>1. d \in Nat
    BY <1>2, <1>5
  <2>2. \A i \in 1 .. d : m.n + i \in Nat
    BY <1>5, <2>1
  <2> HIDE DEF d, replay
  <2>3. replay = [i \in 1 .. d |-> m.n + i]
    BY <1>6 DEF replay, d
  <2>4. replay \in [1 .. d -> Nat] /\ DOMAIN replay = 1 .. d
    BY <2>2, <2>3
  <2>5. replay \in Seq(Nat)
    BY <2>1, <2>4
  <2>6. Len(replay) = d
    BY <2>1, <2>4, <2>5
  <2> QED
    BY <2>5, <2>6 DEF d
<1>8. spool'.base = m.n + 1
  <2>1. spool'.base = IF m.n + 1 > spool.base THEN m.n + 1 ELSE spool.base
    BY <1>1, <1>2 DEF AckTo, Spool
  <2>2. m.n + 1 >= spool.base /\ spool.base \in Nat
    BY <1>1, <1>2 DEF Bridges, Spool
  <2> QED
    BY <1>5, <2>1, <2>2
<1>9. Apart({m}, ToHost')
  <2>1. frames \in Seq(Msg)
    BY <1>2, <1>7, ResumptionFrames DEF frames
  <2> QED
    BY <1>1, <1>3, <2>1, DeviceReads, Directions DEF m
<1>10. m.n \in 0 .. emitted[app]
  BY <1>2, <1>5
<1> QED
  BY <1>1, <1>2, <1>4, <1>6, <1>7, <1>8, <1>9, <1>10 DEF m, frames

(* No answer to an attach is under way while the attach is.                *)
LEMMA NoAnswerYet ==
  ASSUME Sane, NEW m \in ToHost, m.kind = "attach", m.chan = hostChan,
         NEW X, \A x \in X : x.kind = "attached" => x.chan = hostChan
  PROVE  Apart(X, ToPhone)
BY DEF Sane, Talk, Kinds, Attaching, Apart, Twin

(* The host resumes the session of the phone.                              *)
LEMMA HostResumesTalk == Sane /\ HostResumes => TalkNext
<1> SUFFICES ASSUME Sane, HostResumes PROVE TalkNext
  OBVIOUS
<1> DEFINE m == Head(down["host"])
           replay == After(spool.entries, m.n)
           frames == Resumption(hostChan, app, replay)
<1>1. /\ Reads("host", "attach") /\ m.chan = hostChan /\ m.sess = app /\ m \in ToHost /\ m.kind = "attach"
      /\ app # 0 /\ app \in Session /\ app \in Nat /\ hostChan \in Nat /\ emitted[app] \in Nat
      /\ m.n \in 0 .. emitted[app] /\ replay = [i \in 1 .. emitted[app] - m.n |-> m.n + i]
      /\ replay \in Seq(Nat) /\ Len(replay) = emitted[app] - m.n
      /\ HostSends(hostChan, TRUE, frames) /\ spool'.base = m.n + 1
      /\ UNCHANGED <<app, emitted, started, relayVars>> /\ UNCHANGED phoneVars
      /\ Apart({m}, ToHost')
  BY HostResumesShape
<1> HIDE DEF m, replay
<1>2. /\ frames \in Seq(Msg) /\ Single(frames)
      /\ \A f \in Elems(frames) : OfResumption(f, hostChan, app, replay)
  <2>1. hostChan \in Nat /\ app \in Nat /\ replay \in Seq(Nat)
    BY <1>1
  <2> QED
    BY <2>1, ResumptionFrames
<1> HIDE DEF frames
<1>3. \A f \in Elems(frames) :
        /\ f.chan = hostChan /\ f.sess = app
        /\ (f.kind = "attached" /\ f.yes) \/ (f.kind = "rpc" /\ f.n \in 1 .. emitted[app])
  <2>1. \A i \in 1 .. Len(replay) : replay[i] \in 1 .. emitted[app]
    BY <1>1
  <2> QED
    BY <1>2, <2>1 DEF OfResumption
<1>4. /\ up' = Written("host", frames)
      /\ (hostChan' = hostChan /\ hostAtt' = TRUE) \/ (hostChan' = 0 /\ hostAtt' = FALSE)
  BY <1>1, HostChannel
<1>5. Apart(Elems(frames), ToPhone) /\ \A f \in Elems(frames) : f.kind \notin NoteKind
  BY <1>1, <1>3, NoAnswerYet DEF NoteKind
<1>6. /\ ToHost' \subseteq ToHost /\ Once("phone")' /\ ToPhone' \subseteq ToPhone \cup Elems(frames)
      /\ Once("host")'
  BY <1>1, <1>2, <1>4, <1>5, DeviceReads, Directions
<1>7. Talk'
  <2>1. \A x \in ToPhone' : x \in ToPhone \/
           /\ x.chan = hostChan /\ x.sess = app
           /\ (x.kind = "attached" /\ x.yes) \/ (x.kind = "rpc" /\ x.n \in 1 .. emitted[app])
    BY <1>3, <1>6
  <2> QED
    BY <1>1, <1>4, <1>6, <2>1, TalkHostResumes DEF Sane, phoneVars
<1> QED
  BY <1>6, <1>7 DEF TalkNext

(* The host gives the phone a fresh session.                               *)
LEMMA HostRenewsTalk == Sane /\ HostRenews => TalkNext
<1> SUFFICES ASSUME Sane, HostRenews PROVE TalkNext
  OBVIOUS
<1> DEFINE m == Head(down["host"])
           f == Frame("attached", hostChan, started + 1, 0, FALSE)
<1>1. /\ Reads("host", "attach") /\ m.chan = hostChan /\ started < MaxSessions
      /\ started' = started + 1 /\ app' = started + 1 /\ spool' = NewSpool
      /\ HostSends(hostChan, TRUE, <<f>>)
      /\ UNCHANGED <<emitted, relayVars>> /\ UNCHANGED phoneVars
  BY DEF HostRenews, HostOpens
<1>2. hostChan \in Nat /\ started \in Nat /\ started + 1 \in Nat
  BY Types, LinkAssumption DEF Sane, IInv, HostTypes
<1>3. f \in Msg /\ f.kind = "attached" /\ f.chan = hostChan /\ f.sess = started + 1
  BY <1>2 DEF Frame, Msg, Kind
<1>4. ~f.yes
  BY NewFlag, Zenon
<1>5. spool'.base = 1
  BY <1>1 DEF NewSpool
<1> HIDE DEF m, f
<1>6. <<f>> \in Seq(Msg) /\ Elems(<<f>>) = {f} /\ Single(<<f>>)
  BY <1>3, OneFrame
<1>7. /\ up' = Written("host", <<f>>)
      /\ (hostChan' = hostChan /\ hostAtt' = TRUE) \/ (hostChan' = 0 /\ hostAtt' = FALSE)
  BY <1>1, HostChannel
<1>8. /\ m \in ToHost /\ m.kind = "attach" /\ Apart({m}, ToHost') /\ ToHost' \subseteq ToHost
      /\ Once("phone")' /\ ToPhone' \subseteq ToPhone \cup {f}
      /\ Apart({f}, ToPhone) /\ f.kind \notin NoteKind => Once("host")'
  <2>1. "attach" \notin NoteKind
    BY DEF NoteKind
  <2> QED
    BY <1>1, <1>6, <1>7, <2>1, DeviceReads, Directions DEF m
<1>9. Apart({f}, ToPhone) /\ f.kind \notin NoteKind
  BY <1>1, <1>3, <1>8, NoAnswerYet DEF NoteKind
<1>10. Talk'
  <2>1. \A x \in ToPhone' : x \in ToPhone \/
           (x.chan = hostChan /\ x.sess = started + 1 /\ x.kind = "attached" /\ ~x.yes)
    BY <1>3, <1>4, <1>8
  <2> QED
    BY <1>1, <1>5, <1>7, <1>8, <2>1, TalkHostRenews DEF Sane, phoneVars
<1> QED
  BY <1>8, <1>9, <1>10 DEF TalkNext

(* The host takes an ack.                                                  *)
LEMMA HostTrimsTalk == Sane /\ HostTrims => TalkNext
<1> SUFFICES ASSUME Sane, HostTrims PROVE TalkNext
  OBVIOUS
<1> DEFINE m == Head(down["host"])
<1>1. /\ Reads("host", "ack") /\ m.chan = hostChan
      /\ spool' = IF app # 0 THEN AckTo(spool, m.n) ELSE spool
      /\ UNCHANGED <<hostChan, hostAtt, app, emitted, started, relayVars, up>> /\ UNCHANGED phoneVars
  BY DEF HostTrims, HostOpens
<1>2. /\ ToHost' \subseteq ToHost /\ ToPhone' \subseteq ToPhone /\ Once("host")' /\ Once("phone")'
      /\ m.kind = "ack" /\ m \in ToHost
  <2>1. "ack" \notin NoteKind
    BY DEF NoteKind
  <2> QED
    BY <1>1, <2>1, JustReads, Directions
<1>3. spool \in Spool /\ app \in Nat
  BY Types, LinkAssumption DEF Sane, IInv, HostTypes
<1> HIDE DEF m
<1>4. app # 0
  BY <1>1, <1>2 DEF Sane, Talk, Addressed, Ends
<1>5. spool'.base = IF m.n + 1 > spool.base THEN m.n + 1 ELSE spool.base
  BY <1>1, <1>3, <1>4 DEF AckTo, Spool
<1>6. Talk'
  BY <1>1, <1>2, <1>5, TalkHostTrims DEF Sane, phoneVars
<1> QED
  BY <1>2, <1>6 DEF TalkNext

(* The phone starts a handshake, with what it reads.                       *)
LEMMA PhoneShakesTalk ==
  ASSUME Sane, NEW kind, Reads("phone", kind) \/ (ReadsOk("phone") /\ kind = "ok"),
         PhoneShakes, UNCHANGED relayVars, UNCHANGED hostVars, UNCHANGED <<contID, lastRecv>>
  PROVE  TalkNext
<1> DEFINE f == Frame("hs1", shakes + 1, 0, 0, FALSE)
<1>1. /\ shakes' = shakes + 1 /\ pending' = shakes + 1 /\ phoneChan' = 0 /\ phoneAtt' = FALSE
      /\ up' = Written("phone", <<f>>)
  BY DEF PhoneShakes
<1>2. shakes \in Nat /\ shakes + 1 \in Nat
  BY Types DEF Sane, IInv, PhoneTypes
<1>3. f \in Msg /\ f.kind = "hs1" /\ f.chan = shakes + 1 /\ f.sess = 0 /\ f.n = 0
  BY <1>2 DEF Frame, Msg, Kind
<1> HIDE DEF f
<1>4. <<f>> \in Seq(Msg) /\ Elems(<<f>>) = {f} /\ Single(<<f>>)
  BY <1>3, OneFrame
<1>5. /\ ToPhone' \subseteq ToPhone /\ Once("host")' /\ ToHost' \subseteq ToHost \cup {f}
      /\ Apart({f}, ToHost) /\ f.kind \notin NoteKind => Once("phone")'
  BY <1>1, <1>4, DeviceReads, Directions
<1>6. Apart({f}, ToHost) /\ f.kind \notin NoteKind
  <2>1. \A x \in ToHost : x.chan \in 1 .. shakes
    BY DEF Sane, Talk, Bounds
  <2>2. \A x \in ToHost : x.chan # f.chan
    BY <1>2, <1>3, <2>1
  <2> QED
    BY <1>3, <2>2 DEF Apart, Twin, NoteKind
<1>7. Talk'
  <2>1. \A x \in ToHost' : x \in ToHost \/
           (x.kind = "hs1" /\ x.chan = shakes + 1 /\ x.sess = 0 /\ x.n = 0)
    BY <1>3, <1>5
  <2> QED
    BY <1>1, <1>5, <2>1, TalkPhoneShakes DEF Sane
<1> QED
  BY <1>5, <1>6, <1>7 DEF TalkNext

(* The phone dials, hears that it is registered, or that the host is.      *)
LEMMA PhoneConnectsTalk == Sane /\ (PhoneConnects \/ PhoneReshakes) => TalkNext
<1> SUFFICES ASSUME Sane, PhoneConnects \/ PhoneReshakes PROVE TalkNext
  OBVIOUS
<1>1. CASE Dial("phone") /\ UNCHANGED hostVars /\ UNCHANGED phoneVars
  <2>1. ToHost' \subseteq ToHost /\ ToPhone' \subseteq ToPhone /\ Once("host")' /\ Once("phone")'
    BY <1>1, SocketFlow, Directions
  <2> QED
    BY <1>1, <2>1, TalkStays DEF TalkNext, Sane, phoneVars
<1>2. CASE ReadsOk("phone") /\ PhoneShakes /\ UNCHANGED relayVars /\ UNCHANGED hostVars /\ UNCHANGED <<contID, lastRecv>>
  BY <1>2, PhoneShakesTalk
<1>3. CASE /\ ReadsOk("phone") /\ UNCHANGED <<relayVars, up>> /\ UNCHANGED hostVars
           /\ UNCHANGED <<pending, phoneChan, phoneAtt, shakes, contID, lastRecv>>
  <2>1. ToHost' \subseteq ToHost /\ ToPhone' \subseteq ToPhone /\ Once("host")' /\ Once("phone")'
    BY <1>3, JustReads, Directions
  <2> QED
    BY <1>3, <2>1, TalkStays DEF TalkNext, Sane
<1>4. CASE PhoneReshakes
  BY <1>4, PhoneShakesTalk DEF PhoneReshakes
<1>5. CASE PhoneConnects
  <2>1. CASE Dial("phone") /\ UNCHANGED <<hostVars, phoneVars, restarts>>
    BY <1>1, <2>1
  <2>2. CASE /\ ReadsOk("phone")
             /\ IF Head(down["phone"]).yes
                THEN PhoneShakes ELSE UNCHANGED <<pending, phoneChan, phoneAtt, shakes, up>>
             /\ UNCHANGED <<hostVars, contID, lastRecv, dirty, asks, restarts, dialed, ws, relayVars>>
    <3>1. CASE Head(down["phone"]).yes
      BY <1>2, <2>2, <3>1
    <3>2. CASE ~Head(down["phone"]).yes
      BY <1>3, <2>2, <3>2
    <3> QED
      BY <3>1, <3>2
  <2> QED
    BY <1>5, <2>1, <2>2 DEF PhoneConnects
<1> QED
  BY <1>4, <1>5

(* The phone has its channel, and asks for its session.                    *)
LEMMA PhoneCompletesTalk == Sane /\ PhoneCompletes => TalkNext
<1> SUFFICES ASSUME Sane, PhoneCompletes PROVE TalkNext
  OBVIOUS
<1> DEFINE m == Head(down["phone"])
           f == Frame("attach", m.chan, contID, lastRecv, FALSE)
<1>1. /\ Reads("phone", "hs2") /\ pending' = 0
      /\ UNCHANGED relayVars /\ UNCHANGED hostVars /\ UNCHANGED <<contID, lastRecv, shakes>>
  BY DEF PhoneCompletes
<1>2. /\ m.chan \in Nat /\ contID \in Nat /\ lastRecv \in Nat /\ phoneAtt \in BOOLEAN
      /\ "hs2" \notin NoteKind
  BY <1>1, PhoneMessage, Types DEF Sane, IInv, PhoneTypes, NoteKind
<1>3. f \in Msg /\ f.kind = "attach" /\ f.chan = m.chan /\ f.sess = contID /\ f.n = lastRecv
  BY <1>2 DEF Frame, Msg, Kind
<1>4. CASE pending # 0 /\ pending = m.chan
  <2>1. PICK failed \in WriteErr("phone") :
          /\ phoneChan' = (IF failed THEN 0 ELSE m.chan) /\ phoneAtt' = (phoneAtt /\ ~failed)
          /\ up' = Written("phone", <<f>>)
    BY <1>4 DEF PhoneCompletes
  <2>2. phoneChan = 0 /\ ~phoneAtt
    BY <1>4 DEF Sane, Talk, Ends
  <2>3. phoneChan' \in {m.chan, 0} /\ phoneAtt' = FALSE
    BY <2>1, <2>2
  <2> HIDE DEF m, f
  <2>4. <<f>> \in Seq(Msg) /\ Elems(<<f>>) = {f} /\ Single(<<f>>)
    BY <1>3, OneFrame
  <2>5. /\ ToPhone' \subseteq ToPhone /\ Once("host")' /\ ToHost' \subseteq ToHost \cup {f}
        /\ m \in ToPhone /\ m.kind = "hs2"
        /\ Apart({f}, ToHost) /\ f.kind \notin NoteKind => Once("phone")'
    BY <1>1, <1>2, <2>1, <2>4, DeviceReads, Directions DEF m
  <2>6. Apart({f}, ToHost) /\ f.kind \notin NoteKind
    <3>1. \A x \in ToHost : x.chan = f.chan => x.kind = "hs1"
      BY <1>3, <1>4 DEF Sane, Talk, Ends
    <3> QED
      BY <1>3, <3>1 DEF Apart, Twin, NoteKind
  <2>7. Talk'
    <3>1. \A x \in ToHost' : x \in ToHost \/
             (x.kind = "attach" /\ x.chan = pending /\ x.sess = contID /\ x.n = lastRecv)
      BY <1>3, <1>4, <2>5
    <3> QED
      BY <1>1, <1>4, <2>3, <2>5, <3>1, TalkPhoneCompletes DEF Sane
  <2> QED
    BY <2>5, <2>6, <2>7 DEF TalkNext
<1>5. CASE ~(pending # 0 /\ pending = m.chan)
  <2>1. UNCHANGED <<phoneChan, phoneAtt, up>>
    BY <1>5 DEF PhoneCompletes
  <2>2. ToHost' \subseteq ToHost /\ ToPhone' \subseteq ToPhone /\ Once("host")' /\ Once("phone")'
    BY <1>1, <2>1, JustReads, Directions
  <2> QED
    BY <1>1, <2>1, <2>2, TalkStays DEF TalkNext, Sane
<1> QED
  BY <1>4, <1>5

(* The phone learns which session it has.                                  *)
LEMMA PhoneAttachesTalk == Sane /\ PhoneAttaches => TalkNext
<1> SUFFICES ASSUME Sane, PhoneAttaches PROVE TalkNext
  OBVIOUS
<1> DEFINE m == Head(down["phone"])
<1>1. /\ Reads("phone", "attached") /\ m.chan = phoneChan /\ contID' = m.sess
      /\ lastRecv' = IF ~m.yes \/ contID = 0 \/ m.sess # contID THEN 0 ELSE lastRecv
      /\ phoneAtt' = TRUE
      /\ UNCHANGED <<relayVars, up, pending, phoneChan, shakes>> /\ UNCHANGED hostVars
  BY DEF PhoneAttaches, PhoneOpens
<1>2. /\ ToHost' \subseteq ToHost /\ ToPhone' \subseteq ToPhone /\ Once("host")' /\ Once("phone")'
      /\ m.kind = "attached" /\ m \in ToPhone /\ Apart({m}, ToPhone')
  <2>1. "attached" \notin NoteKind
    BY DEF NoteKind
  <2> QED
    BY <1>1, <2>1, JustReads, Directions
<1> HIDE DEF m
<1>3. Talk'
  BY <1>1, <1>2, TalkPhoneAttaches DEF Sane
<1> QED
  BY <1>2, <1>3 DEF TalkNext

(* The phone applies a line, or skips it.                                  *)
LEMMA PhoneAppliesTalk == Sane /\ PhoneApplies => TalkNext
<1> SUFFICES ASSUME Sane, PhoneApplies PROVE TalkNext
  OBVIOUS
<1> DEFINE m == Head(down["phone"])
<1>1. /\ Reads("phone", "rpc") /\ m.chan = phoneChan
      /\ (phoneAtt /\ m.n > lastRecv /\ lastRecv' = m.n) \/ lastRecv' = lastRecv
      /\ UNCHANGED <<relayVars, up, pending, phoneChan, phoneAtt, contID, shakes>> /\ UNCHANGED hostVars
  BY DEF PhoneApplies, PhoneOpens
<1>2. /\ ToHost' \subseteq ToHost /\ ToPhone' \subseteq ToPhone /\ Once("host")' /\ Once("phone")'
      /\ m.kind = "rpc" /\ m \in ToPhone
  <2>1. "rpc" \notin NoteKind
    BY DEF NoteKind
  <2> QED
    BY <1>1, <2>1, JustReads, Directions
<1> HIDE DEF m
<1>3. Talk'
  BY <1>1, <1>2, TalkPhoneApplies DEF Sane
<1> QED
  BY <1>2, <1>3 DEF TalkNext

(* An ack or a request.                                                    *)
LEMMA PhoneWritesTalk == Sane /\ (PhoneAcks \/ PhoneAsks) => TalkNext
<1> SUFFICES ASSUME Sane, PhoneAcks \/ PhoneAsks PROVE TalkNext
  OBVIOUS
<1>0. phoneChan \in Nat /\ contID \in Nat /\ lastRecv \in Nat /\ phoneAtt \in BOOLEAN
  BY Types DEF Sane, IInv, PhoneTypes
<1>1. PICK f \in Msg :
        /\ PhoneSends(f)
        /\ f.kind \in {"ack", "ask"} /\ f.chan = phoneChan /\ f.sess = contID /\ f.n \in {0, lastRecv}
  <2>1. CASE PhoneAcks
    <3> DEFINE f == Frame("ack", phoneChan, contID, lastRecv, FALSE)
    <3>1. f \in Msg /\ f.kind = "ack" /\ f.chan = phoneChan /\ f.sess = contID /\ f.n = lastRecv
      BY <1>0 DEF Frame, Msg, Kind
    <3>2. PhoneSends(f)
      BY <2>1 DEF PhoneAcks
    <3> QED
      BY <3>1, <3>2
  <2>2. CASE PhoneAsks
    <3> DEFINE f == Frame("ask", phoneChan, contID, 0, FALSE)
    <3>1. f \in Msg /\ f.kind = "ask" /\ f.chan = phoneChan /\ f.sess = contID /\ f.n = 0
      BY <1>0 DEF Frame, Msg, Kind
    <3>2. PhoneSends(f)
      BY <2>2 DEF PhoneAsks
    <3> QED
      BY <3>1, <3>2
  <2> QED
    BY <2>1, <2>2
<1>2. /\ phoneAtt /\ phoneChan # 0 /\ UNCHANGED hostVars
      /\ UNCHANGED <<relayVars, down, pending, contID, lastRecv, shakes>>
  BY DEF PhoneAcks, PhoneAsks
<1>3. PICK failed \in WriteErr("phone") :
        /\ up' = Written("phone", <<f>>)
        /\ phoneChan' = (IF failed THEN 0 ELSE phoneChan) /\ phoneAtt' = (phoneAtt /\ ~failed)
  BY <1>1 DEF PhoneSends
<1>4. (phoneChan' = phoneChan /\ phoneAtt' = phoneAtt) \/ (phoneChan' = 0 /\ phoneAtt' = FALSE)
  BY <1>0, <1>3, WriteErrs
<1>5. <<f>> \in Seq(Msg) /\ Elems(<<f>>) = {f} /\ Single(<<f>>)
  BY OneFrame
<1>6. Apart({f}, ToHost) /\ f.kind \notin NoteKind
  BY <1>1 DEF Apart, Twin, NoteKind
<1>7. /\ ToPhone' \subseteq ToPhone /\ Once("host")' /\ ToHost' \subseteq ToHost \cup {f} /\ Once("phone")'
  BY <1>2, <1>3, <1>5, <1>6, DeviceWrites, Directions
<1>8. Talk'
  <2>1. \A x \in ToHost' : x \in ToHost \/
           (x.kind \in {"ack", "ask"} /\ x.chan = phoneChan /\ x.sess = contID /\ x.n \in {0, lastRecv})
    BY <1>1, <1>7
  <2> QED
    BY <1>2, <1>4, <1>7, <2>1, TalkPhoneSends DEF Sane
<1> QED
  BY <1>7, <1>8 DEF TalkNext

(* The frames that matter are the ones a device writes.                    *)
LEMMA NextRegisters == IInv /\ Registered /\ [Next]_vars => Registered'
<1> SUFFICES ASSUME IInv, Registered, [Next]_vars PROVE Registered'
  OBVIOUS
<1>1. CASE RelayNext
  BY <1>1, RelayRegisters DEF RelayNext
<1>2. CASE Dial("host") \/ Dial("phone")
  BY <1>2, DialRegisters DEF Side
<1>3. CASE UNCHANGED <<dialed, relayVars>> /\ (ws' = ws \/ \E s \in Side : ws' = [ws EXCEPT ![s] = 0])
  BY <1>3, RegisteredStays
<1>4. CASE HostNext \/ HostEmits \/ HostRestarts
  <2>1. \/ UNCHANGED <<dialed, relayVars>> /\ (ws' = ws \/ ws' = [ws EXCEPT !["host"] = 0])
        \/ Dial("host")
    BY <1>4 DEF HostNext, HostConnects, HostShakes, HostIgnores, HostResumes, HostRenews, HostTrims, HostForwards,
                HostDetaches, HostHangsUp, HostEmits, HostRestarts, HangUp, relayVars
  <2> QED
    BY <1>2, <1>3, <2>1 DEF Side
<1>5. CASE PhoneNext \/ PhoneAcks \/ PhoneAsks \/ PhoneRestarts
  <2>1. \/ UNCHANGED <<dialed, relayVars>> /\ (ws' = ws \/ ws' = [ws EXCEPT !["phone"] = 0])
        \/ Dial("phone")
    BY <1>5 DEF PhoneNext, PhoneConnects, PhoneReshakes, PhoneDetaches, PhoneCompletes, PhoneIgnores, PhoneAttaches,
                PhoneApplies, PhoneHangsUp, PhoneAcks, PhoneAsks, PhoneRestarts, HangUp, relayVars
  <2> QED
    BY <1>2, <1>3, <2>1 DEF Side
<1>6. CASE UNCHANGED vars
  <2>1. UNCHANGED <<dialed, ws, relayVars>>
    BY <1>6 DEF vars, netVars
  <2> QED
    BY <1>3, <2>1
<1> QED
  BY <1>1, <1>4, <1>5, <1>6 DEF Next

(* Nothing is under way before anyone has dialed.                          *)
LEMMA TalkInitially == Init => Sane /\ Registered
<1> SUFFICES ASSUME Init PROVE Sane /\ Registered
  OBVIOUS
<1> USE ConnsAssumption, LinkAssumption
<1>1. IInv
  BY Initially
<1>2. /\ \A s \in Side : ws[s] = 0 /\ registered[s] = 0 /\ down[s] = <<>>
      /\ \A c \in Conn : phase[c] = "none" /\ up[c] = <<>>
  BY DEF Init, RelayInit
<1>3. \A s \in Side, k \in 1 .. MaxConns : <<s, k>> \in Conn /\ Peer(s) \in Side
  BY Peers DEF Conn
<1>4. Registered
  <2>1. \A c \in Conn : phase[c] \notin {"greeting", "telling", "parting"}
    BY <1>2
  <2>2. \A s \in Side, n \in 1 .. MaxConns : phase[<<s, n>>] = "none"
    BY <1>2, <1>3
  <2> QED
    BY <1>2, <2>1, <2>2 DEF Registered, Connected, Holds
<1>5. \A s \in Side, k \in 1 .. MaxConns :
        InHand(s, k) = {} /\ Elems(up[<<s, k>>]) = {} /\ Pipe(s, k) = {} /\ Elems(down[Peer(s)]) = {}
  BY <1>2, <1>3, NoElems DEF InHand, Pipe
<1>6. ASSUME NEW s \in Side PROVE Once(s) /\ Flight(s) = {}
  <2>0. down[Peer(s)] = <<>>
    BY <1>2, Peers
  <2>1. Single(down[Peer(s)]) /\ \A k \in 1 .. MaxConns : Single(up[<<s, k>>])
    <3>2. ASSUME NEW k \in 1 .. MaxConns PROVE up[<<s, k>>] = <<>>
      BY <1>2, <1>3
    <3> QED
      BY <2>0, <3>2, NoElems
  <2>2. \A X : Apart({}, X) /\ Apart(X, {})
    BY DEF Apart
  <2>3. Once(s)
    BY <1>5, <2>1, <2>2 DEF Once
  <2>4. Flight(s) = {}
    <3>1. UNION {Pipe(s, k) : k \in 1 .. MaxConns} = {}
      BY <1>5
    <3>2. Elems(down[Peer(s)]) = {}
      BY <2>0, NoElems
    <3> QED
      BY <3>1, <3>2 DEF Flight
  <2> QED
    BY <2>3, <2>4
<1>7. ToHost = {} /\ ToPhone = {}
  BY <1>6, Directions
<1>8. Talk
  <2>1. /\ hostChan = 0 /\ hostAtt = FALSE /\ app = 0 /\ started = 0
        /\ pending = 0 /\ phoneChan = 0 /\ phoneAtt = FALSE /\ contID = 0 /\ lastRecv = 0 /\ shakes = 0
    BY DEF Init
  <2>2. Kinds /\ Opened /\ Attaching /\ Answered /\ Addressed /\ Unreceived
    BY <1>7, <2>1 DEF Kinds, Opened, Attaching, Answered, Addressed, Unreceived
  <2>3. Bounds /\ Ends
    BY <1>7, <2>1 DEF Bounds, Ends
  <2> QED
    BY <2>2, <2>3 DEF Talk
<1> QED
  BY <1>1, <1>4, <1>6, <1>8 DEF Sane

(* Every step keeps what the ends and the frames agree on.                 *)
LEMMA TalkKept == Sane /\ Registered /\ [Next]_vars => Talk' /\ \A s \in Side : Once(s)'
<1> SUFFICES ASSUME Sane, Registered, [Next]_vars PROVE TalkNext
  BY DEF TalkNext, Side
<1>1. CASE HostNext
  BY <1>1, HostConnectsTalk, HostShakesTalk, HostListensTalk, HostResumesTalk, HostRenewsTalk, HostTrimsTalk,
     HostDetachesTalk, HostHangsUpTalk DEF HostNext
<1>2. CASE HostEmits \/ HostRestarts
  BY <1>2, HostEmitsTalk, HostHangsUpTalk
<1>3. CASE PhoneNext
  BY <1>3, PhoneConnectsTalk, PhoneDetachesTalk, PhoneCompletesTalk, PhoneListensTalk, PhoneAttachesTalk,
     PhoneAppliesTalk, PhoneHangsUpTalk DEF PhoneNext
<1>4. CASE PhoneAcks \/ PhoneAsks \/ PhoneRestarts
  BY <1>4, PhoneWritesTalk, PhoneHangsUpTalk
<1>5. CASE RelayNext
  BY <1>5, RelayTalk
<1>6. CASE UNCHANGED vars
  <2>1. UNCHANGED netVars /\ UNCHANGED hostVars /\ UNCHANGED phoneVars
    BY <1>6 DEF vars
  <2>2. \A t \in Side : Cuts(t)
    BY <2>1 DEF Cuts, NoteEnters, InHand, netVars, relayVars
  <2>3. ToHost' \subseteq ToHost /\ ToPhone' \subseteq ToPhone /\ Once("host")' /\ Once("phone")'
    BY <2>2, CutsFlow, Directions DEF Sane
  <2> QED
    BY <2>1, <2>3, TalkStays DEF TalkNext, Sane, phoneVars
<1> QED
  BY <1>1, <1>2, <1>3, <1>4, <1>5, <1>6 DEF Next

(* The relay, the frames under way and the two ends agree at all times:    *)
(* the invariant that the next three theorems rest on.                     *)
THEOREM LinkTalks == Spec => [](Sane /\ Registered)
<1>1. Init => Sane /\ Registered
  BY TalkInitially
<1>2. IInv /\ Sane /\ Registered /\ [Next]_vars /\ IInv' => (Sane /\ Registered)'
  <2> SUFFICES ASSUME Sane, Registered, [Next]_vars, IInv' PROVE (Sane /\ Registered)'
    OBVIOUS
  <2>1. Registered'
    BY NextRegisters DEF Sane
  <2>2. Talk' /\ \A s \in Side : Once(s)'
    BY TalkKept
  <2> QED
    BY <2>1, <2>2 DEF Sane
<1> QED
  BY <1>1, <1>2, LinkInvariant, PTL DEF Spec

(* As long as host and phone hold the same session, no ack or attach that  *)
(* the host got, however late, was for a line the phone has yet to apply   *)
(* (ackTo, handleSealed, handleAttachLocked).                              *)
THEOREM SpoolsKeepUnreceived == Spec => []SpoolKeepsUnreceived
<1>1. Sane => SpoolKeepsUnreceived
  BY DEF Sane, Talk, Unreceived, SpoolKeepsUnreceived
<1> QED
  BY <1>1, LinkTalks, PTL

(* A request reaches the app-server connection the phone sent it to, and a *)
(* line is applied in the session it was emitted in, whatever crossed on   *)
(* the way (handleSealed of both ends).                                    *)
THEOREM FramesReachSessions == Spec => FramesReachTheirSession
<1> DEFINE A == /\ HostForwards /\ hostAtt => Head(down["host"]).sess = app
                /\ PhoneApplies /\ lastRecv' # lastRecv => Head(down["phone"]).sess = contID
<1>1. Sane => [A]_vars
  <2> SUFFICES ASSUME Sane PROVE A
    OBVIOUS
  <2>1. ASSUME HostForwards, hostAtt PROVE Head(down["host"]).sess = app
    <3>1. Reads("host", "ask") /\ Head(down["host"]).chan = hostChan /\ UNCHANGED <<relayVars, up>>
      BY <2>1 DEF HostForwards, HostOpens
    <3>2. Head(down["host"]).kind = "ask" /\ Head(down["host"]) \in ToHost
      <4>1. "ask" \notin NoteKind
        BY DEF NoteKind
      <4> QED
        BY <3>1, <4>1, JustReads, Directions
    <3> QED
      BY <3>1, <3>2 DEF Sane, Talk, Addressed
  <2>2. ASSUME PhoneApplies, lastRecv' # lastRecv PROVE Head(down["phone"]).sess = contID
    <3>1. /\ Reads("phone", "rpc") /\ Head(down["phone"]).chan = phoneChan /\ UNCHANGED <<relayVars, up>>
          /\ phoneAtt
      BY <2>2 DEF PhoneApplies, PhoneOpens
    <3>2. Head(down["phone"]).kind = "rpc" /\ Head(down["phone"]) \in ToPhone
      <4>1. "rpc" \notin NoteKind
        BY DEF NoteKind
      <4> QED
        BY <3>1, <4>1, JustReads, Directions
    <3> QED
      BY <3>1, <3>2 DEF Sane, Talk, Addressed
  <2> QED
    BY <2>1, <2>2
<1>2. [][A]_vars => FramesReachTheirSession
  BY DEF FramesReachTheirSession
<1> QED
  BY <1>1, <1>2, LinkTalks, PTL

(***************************************************************************)
(* The lines reach the phone in order.                                     *)
(***************************************************************************)
(* Without a socket an end has no channel; what the host sent to the phone *)
(* on its channel goes to the socket the phone uses.                       *)
Sockets ==
  /\ ws["host"] = 0 => hostChan = 0
  /\ ws["phone"] = 0 => phoneChan = 0
  /\ Connected("phone") => \A k \in 1 .. MaxConns :
       (\E m \in InHand("host", k) : m.kind \in {"attached", "rpc"} /\ m.chan = phoneChan)
         => held[<<"host", k>>].dest = ws["phone"]

(* The answer to an attach on a channel, and a line on it.                 *)
Opening(m, chan) == m.kind = "attached" /\ m.chan = chan
Line(m, chan) == m.kind = "rpc" /\ m.chan = chan

(* The line from which the phone will count once it has read the answer.   *)
Base == IF \E a \in ToPhone : Opening(a, phoneChan) /\ ~a.yes THEN 0 ELSE lastRecv

(* The frames X bring the phone every line up to n, and the answer to its  *)
(* attach if it has yet to read it; a line is ready when what is ahead of  *)
(* it brings all the lines before it.                                      *)
Complete(X, n, chan, att, base) ==
  /\ att \/ \E x \in X : Opening(x, chan)
  /\ \A i \in base + 1 .. n : \E x \in X : Line(x, chan) /\ x.n = i
Ready(m, X, chan, att, base) == Line(m, chan) => Complete(X, m.n - 1, chan, att, base)
QueueReady(q, X, chan, att, base) ==
  \A i \in 1 .. Len(q) : Ready(q[i], X \cup Ahead(q, i), chan, att, base)

(* The lines under way on the phone's channel come in order; when host and *)
(* phone share it, those still to come are all under way.                  *)
InQueue == QueueReady(down["phone"], {}, phoneChan, phoneAtt, Base)
PipeReady(k) ==
  /\ \A m \in InHand("host", k) : Ready(m, Elems(down["phone"]), phoneChan, phoneAtt, Base)
  /\ QueueReady(up[<<"host", k>>], Elems(down["phone"]) \cup InHand("host", k), phoneChan, phoneAtt, Base)
InPipes == Connected("phone") => \A k \in 1 .. MaxConns : PipeReady(k)
Sharing == Connected("phone") /\ Connected("host") /\ hostAtt /\ hostChan = phoneChan
InFull ==
  Sharing =>
    Complete(Elems(down["phone"]) \cup Pipe("host", ws["host"]), emitted[app], phoneChan, phoneAtt, Base)
Order == phoneChan # 0 => InQueue /\ InPipes /\ InFull

(* What of X matters to a phone that counts from base is in Y as well.     *)
Covers(X, Y, chan, att, base) ==
  /\ att \/ \A x \in X : Opening(x, chan) => x \in Y
  /\ \A x \in X : Line(x, chan) /\ x.n > base => x \in Y

(* Then Y brings what X brought.                                           *)
LEMMA CompleteKept ==
  ASSUME NEW X, NEW Y, NEW n \in Int, NEW chan, NEW att, NEW att2, NEW base \in Nat, NEW base2 \in Nat,
         Complete(X, n, chan, att, base), Covers(X, Y, chan, att2, base2), att => att2, base <= base2
  PROVE  Complete(Y, n, chan, att2, base2)
<1>1. att2 \/ \E x \in Y : Opening(x, chan)
  BY DEF Complete, Covers
<1>2. \A i \in base2 + 1 .. n : i \in base + 1 .. n /\ i > base2
  OBVIOUS
<1>3. \A i \in base2 + 1 .. n : \E x \in Y : Line(x, chan) /\ x.n = i
  BY <1>2 DEF Complete, Covers
<1> QED
  BY <1>1, <1>3 DEF Complete

(* A line stays ready.                                                     *)
LEMMA ReadyKept ==
  ASSUME NEW m \in Msg, NEW X, NEW Y, NEW chan, NEW att, NEW att2, NEW base \in Nat, NEW base2 \in Nat,
         Ready(m, X, chan, att, base), Covers(X, Y, chan, att2, base2), att => att2, base <= base2
  PROVE  Ready(m, Y, chan, att2, base2)
<1>1. m.n - 1 \in Int
  BY DEF Msg
<1> QED
  BY <1>1, CompleteKept DEF Ready

(* So does a queue.                                                        *)
LEMMA QueueReadyKept ==
  ASSUME NEW q \in Seq(Msg), NEW X, NEW Y, NEW chan, NEW att, NEW att2, NEW base \in Nat, NEW base2 \in Nat,
         QueueReady(q, X, chan, att, base), Covers(X, Y, chan, att2, base2), att => att2, base <= base2
  PROVE  QueueReady(q, Y, chan, att2, base2)
<1> SUFFICES ASSUME NEW i \in 1 .. Len(q) PROVE Ready(q[i], Y \cup Ahead(q, i), chan, att2, base2)
  BY DEF QueueReady
<1>1. q[i] \in Msg /\ Ready(q[i], X \cup Ahead(q, i), chan, att, base)
  <2>1. q[i] \in Msg
    OBVIOUS
  <2> QED
    BY <2>1, Zenon DEF QueueReady
<1>2. Covers(X \cup Ahead(q, i), Y \cup Ahead(q, i), chan, att2, base2)
  BY DEF Covers
<1> QED
  BY <1>1, <1>2, ReadyKept

(* A message more.                                                         *)
LEMMA QueueReadyAppend ==
  ASSUME NEW q \in Seq(Msg), NEW m \in Msg, NEW X, NEW chan, NEW att, NEW base,
         QueueReady(q, X, chan, att, base), Ready(m, X \cup Elems(q), chan, att, base)
  PROVE  QueueReady(Append(q, m), X, chan, att, base)
<1> DEFINE p == Append(q, m)
<1>1. /\ Len(p) = Len(q) + 1 /\ Len(q) \in Nat
      /\ \A i \in 1 .. Len(q) : p[i] = q[i] /\ Ahead(p, i) = Ahead(q, i)
      /\ p[Len(q) + 1] = m /\ Ahead(p, Len(q) + 1) = Elems(q)
  BY AppendElems
<1> HIDE DEF p
<1>2. \A i \in 1 .. Len(p) : Ready(p[i], X \cup Ahead(p, i), chan, att, base)
  <2> TAKE i \in 1 .. Len(p)
  <2>1. i = Len(q) + 1 \/ i \in 1 .. Len(q)
    BY <1>1
  <2>2. CASE i = Len(q) + 1
    BY <1>1, <2>2
  <2>3. CASE i \in 1 .. Len(q)
    BY <1>1, <2>3 DEF QueueReady
  <2> QED
    BY <2>1, <2>2, <2>3
<1> QED
  BY <1>2 DEF QueueReady, p

(* The first message read or taken.                                        *)
LEMMA QueueReadyTail ==
  ASSUME NEW q \in Seq(Msg), q # <<>>, NEW X, NEW chan, NEW att, NEW base,
         QueueReady(q, X, chan, att, base)
  PROVE  /\ Ready(Head(q), X, chan, att, base)
         /\ QueueReady(Tail(q), X \cup {Head(q)}, chan, att, base)
<1> DEFINE p == Tail(q)
           h == Head(q)
<1>1. /\ \A i \in 1 .. Len(p) : i + 1 \in 1 .. Len(q) /\ p[i] = q[i + 1] /\ Ahead(q, i + 1) = {h} \cup Ahead(p, i)
      /\ q[1] = h /\ Ahead(q, 1) = {} /\ Len(q) \in Nat \ {0}
  BY TailElems
<1> HIDE DEF p, h
<1>2. Ready(h, X, chan, att, base)
  <2>1. Ready(q[1], X \cup Ahead(q, 1), chan, att, base)
    <3>1. 1 \in 1 .. Len(q)
      BY <1>1
    <3> QED
      BY <3>1, Zenon DEF QueueReady
  <2>2. X \cup Ahead(q, 1) = X
    BY <1>1
  <2> QED
    BY <1>1, <2>1, <2>2
<1>3. \A i \in 1 .. Len(p) : Ready(p[i], (X \cup {h}) \cup Ahead(p, i), chan, att, base)
  <2> TAKE i \in 1 .. Len(p)
  <2>1. Ready(q[i + 1], X \cup Ahead(q, i + 1), chan, att, base)
    BY <1>1 DEF QueueReady
  <2>2. X \cup Ahead(q, i + 1) = (X \cup {h}) \cup Ahead(p, i)
    BY <1>1
  <2> QED
    BY <1>1, <2>1, <2>2
<1> QED
  BY <1>2, <1>3 DEF QueueReady, p, h

(* Several messages more.                                                  *)
LEMMA QueueReadyConcat ==
  ASSUME NEW q \in Seq(Msg), NEW r \in Seq(Msg), NEW X, NEW chan, NEW att, NEW base,
         QueueReady(q, X, chan, att, base), QueueReady(r, X \cup Elems(q), chan, att, base)
  PROVE  QueueReady(q \o r, X, chan, att, base)
<1> DEFINE p == q \o r
<1>1. /\ \A i \in 1 .. Len(q) : p[i] = q[i] /\ Ahead(p, i) = Ahead(q, i)
      /\ \A i \in 1 .. Len(p) : i \in 1 .. Len(q) \/
           \E j \in 1 .. Len(r) : p[i] = r[j] /\ Ahead(p, i) = Elems(q) \cup Ahead(r, j)
  BY ConcatElems
<1> HIDE DEF p
<1>2. \A i \in 1 .. Len(p) : Ready(p[i], X \cup Ahead(p, i), chan, att, base)
  <2> TAKE i \in 1 .. Len(p)
  <2>1. CASE i \in 1 .. Len(q)
    BY <1>1, <2>1 DEF QueueReady
  <2>2. CASE i \notin 1 .. Len(q)
    <3>1. PICK j \in 1 .. Len(r) : p[i] = r[j] /\ Ahead(p, i) = Elems(q) \cup Ahead(r, j)
      BY <1>1, <2>2
    <3>2. Ready(r[j], (X \cup Elems(q)) \cup Ahead(r, j), chan, att, base)
      BY DEF QueueReady
    <3>3. (X \cup Elems(q)) \cup Ahead(r, j) = X \cup Ahead(p, i)
      BY <3>1
    <3> QED
      BY <3>1, <3>2, <3>3
  <2> QED
    BY <2>1, <2>2
<1> QED
  BY <1>2 DEF QueueReady, p

(* A queue without lines on the channel.                                   *)
LEMMA NoLines ==
  ASSUME NEW q, NEW X, NEW chan, NEW att, NEW base, \A m \in Elems(q) : ~Line(m, chan)
  PROVE  QueueReady(q, X, chan, att, base)
BY DEF QueueReady, Ready, Elems

(* The parts of Order, of the next state.                                  *)
LEMMA OrderNext ==
  ASSUME phoneChan' # 0 =>
           /\ QueueReady(down'["phone"], {}, phoneChan', phoneAtt', Base')
           /\ Connected("phone")' => \A k \in 1 .. MaxConns : PipeReady(k)'
           /\ Sharing' => Complete(Elems(down'["phone"]) \cup Pipe("host", ws["host"])', emitted'[app'],
                                   phoneChan', phoneAtt', Base')
  PROVE  Order'
BY DEF Order, InQueue, InPipes, InFull, QueueReady, Ready, Complete, Line, Opening, Ahead, Elems

(* A pipe, of the next state.                                              *)
LEMMA PipeReadyNext ==
  ASSUME NEW k,
         \A m \in InHand("host", k)' : Ready(m, Elems(down'["phone"]), phoneChan', phoneAtt', Base'),
         QueueReady(up'[<<"host", k>>], Elems(down'["phone"]) \cup InHand("host", k)', phoneChan', phoneAtt', Base')
  PROVE  PipeReady(k)'
BY DEF PipeReady, QueueReady, Ready, Complete, Line, Opening, Ahead, Elems

(* The flow to the phone, typed.                                           *)
LEMMA ToPhoneTyped ==
  ASSUME IInv
  PROVE  /\ down["phone"] \in Seq(Msg) /\ Base \in Nat /\ Elems(down["phone"]) \subseteq Msg
         /\ \A k \in 1 .. MaxConns :
              /\ up[<<"host", k>>] \in Seq(Msg) /\ InHand("host", k) \subseteq Msg
              /\ Elems(up[<<"host", k>>]) \subseteq Msg /\ Pipe("host", k) \subseteq Msg
<1>1. /\ down["phone"] \in Seq(Msg)
      /\ \A k \in 1 .. MaxConns : up[<<"host", k>>] \in Seq(Msg) /\ InHand("host", k) \subseteq Msg
  BY QueuesTyped, Directions
<1>2. Elems(down["phone"]) \subseteq Msg /\ \A k \in 1 .. MaxConns : Elems(up[<<"host", k>>]) \subseteq Msg
  BY <1>1, ElemsTyped
<1>3. Base \in Nat
  BY Types DEF Base, IInv, PhoneTypes
<1> QED
  BY <1>1, <1>2, <1>3 DEF Pipe

(* The phone never counts from an earlier line than before, unless it is   *)
(* given a fresh session.                                                  *)
LEMMA BaseGrows ==
  ASSUME IInv, IInv', phoneChan' = phoneChan, lastRecv' >= lastRecv,
         \A x \in ToPhone' : Opening(x, phoneChan) /\ ~x.yes => x \in ToPhone
  PROVE  Base \in Nat /\ Base' \in Nat /\ Base <= Base'
<1>1. lastRecv \in Nat /\ lastRecv' \in Nat
  BY DEF IInv, TypeOK
<1>2. Base' = IF \E a \in ToPhone' : Opening(a, phoneChan) /\ ~a.yes THEN 0 ELSE lastRecv'
  BY DEF Base, Opening
<1> QED
  BY <1>1, <1>2 DEF Base

(* More is no less.                                                        *)
LEMMA CoversMore ==
  ASSUME NEW X, NEW Y, NEW chan, NEW att, NEW base, X \subseteq Y
  PROVE  Covers(X, Y, chan, att, base)
BY DEF Covers

(* With more ahead of it, a queue stays ready.                             *)
LEMMA QueueReadyMore ==
  ASSUME NEW q \in Seq(Msg), NEW X, NEW Y, NEW chan, NEW att, NEW att2, NEW base \in Nat, NEW base2 \in Nat,
         QueueReady(q, X, chan, att, base), X \subseteq Y, att => att2, base <= base2
  PROVE  QueueReady(q, Y, chan, att2, base2)
<1>1. Covers(X, Y, chan, att2, base2)
  BY CoversMore
<1> QED
  BY <1>1, QueueReadyKept

(* A frame in the pipes of the host is one of those under way.             *)
LEMMA PipeFlight ==
  ASSUME NEW k \in 1 .. MaxConns, NEW m, m.kind \notin NoteKind,
         m \in Pipe("host", k) \/ m \in InHand("host", k) \/ m \in Elems(down["phone"])
  PROVE  m \in ToPhone
BY FlightPlaces, Directions DEF Pipe

(* The relay connects nobody anew.                                         *)
LEMMA RelayKeepsSockets ==
  ASSUME IInv, RelayStep
  PROVE  /\ UNCHANGED <<ws, dialed>> /\ \A c \in Conn : phase'[c] \in Working => phase[c] \in Working
         /\ \A s \in Side : Connected(s)' => Connected(s)
<1>1. PICK s \in Side, n \in 1 .. MaxConns :
        Greet(s, n) \/ Announce(s, n) \/ Tell(s, n) \/ Route(s, n) \/ Forward(s, n) \/ Drop(s, n)
  BY DEF RelayStep
<1>2. phase \in [Conn -> Phase] /\ ws \in [Side -> 0 .. MaxConns]
  BY Types DEF IInv, RestTypes
<1> DEFINE c == <<s, n>>
<1>3. UNCHANGED <<ws, dialed>>
  BY <1>1 DEF Greet, Announce, Tell, Route, Forward, Drop
<1>4. PICK x : /\ phase' = [phase EXCEPT ![c] = x]
               /\ x \in Working => phase[c] \in Working
  <2>1. CASE Greet(s, n)
    <3>1. CASE s = "host"
      BY <2>1, <3>1 DEF Greet, Working
    <3>2. CASE s # "host"
      BY <2>1, <3>2 DEF Greet, Working
    <3> QED
      BY <3>1, <3>2
  <2>2. CASE Announce(s, n)
    <3>1. phase' = [phase EXCEPT ![c] = "parting"] /\ "parting" \notin Working
      BY <2>2 DEF Announce, Working
    <3> QED
      BY <3>1
  <2>3. CASE Tell(s, n)
    <3> DEFINE x == IF phase[c] = "telling" THEN "serving" ELSE "gone"
    <3>1. phase' = [phase EXCEPT ![c] = x]
      BY <2>3 DEF Tell
    <3>2. x \in Working => phase[c] \in Working
      BY DEF Working
    <3> QED
      BY <3>1, <3>2
  <2>4. CASE Route(s, n)
    BY <2>4 DEF Route, Working
  <2>5. CASE Forward(s, n)
    BY <2>5 DEF Forward, Working
  <2>6. CASE Drop(s, n)
    <3>1. CASE registered[s] = n
      BY <2>6, <3>1 DEF Drop, Working
    <3>2. CASE registered[s] # n
      BY <2>6, <3>2 DEF Drop, Working
    <3> QED
      BY <3>1, <3>2
  <2> QED
    BY <1>1, <2>1, <2>2, <2>3, <2>4, <2>5, <2>6
<1>5. \A d \in Conn : phase'[d] \in Working => phase[d] \in Working
  BY <1>2, <1>4
<1>6. \A t \in Side : ws[t] # 0 => <<t, ws[t]>> \in Conn
  BY <1>2, ConnsAssumption DEF Conn
<1>7. \A t \in Side : Connected(t)' => Connected(t)
  BY <1>3, <1>5, <1>6 DEF Connected, Holds
<1> QED
  BY <1>3, <1>5, <1>7

(* What the relay sends reaches a device that is connected.                *)
LEMMA RelaySends ==
  ASSUME IInv, RelayStep, NEW t \in Side
  PROVE  down'[t] = down[t] \/ Connected(t)
<1>1. PICK s \in Side, n \in 1 .. MaxConns :
        Greet(s, n) \/ Announce(s, n) \/ Tell(s, n) \/ Route(s, n) \/ Forward(s, n) \/ Drop(s, n)
  BY DEF RelayStep
<1>2. down' = down \/ \E r \in Side : \E k, m : down' = Sent(r, k, m)
  <2>1. Peer(s) \in Side
    BY Peers
  <2>2. CASE Greet(s, n)
    BY <2>2 DEF Greet
  <2>3. CASE Tell(s, n)
    BY <2>1, <2>3 DEF Tell
  <2>4. CASE Forward(s, n)
    <3>1. PICK failed \in SendErr(Peer(s), held[<<s, n>>].dest) :
            down' = IF failed THEN Sent(s, n, Note("lost", FALSE))
                    ELSE Sent(Peer(s), held[<<s, n>>].dest, held[<<s, n>>].msg)
      BY <2>4 DEF Forward
    <3> DEFINE lost == Note("lost", FALSE)
    <3> HIDE DEF lost
    <3>2. down' = Sent(s, n, lost) \/ down' = Sent(Peer(s), held[<<s, n>>].dest, held[<<s, n>>].msg)
      BY <3>1 DEF lost
    <3> QED
      BY <2>1, <3>2
  <2>5. CASE Announce(s, n) \/ Route(s, n) \/ Drop(s, n)
    BY <2>5 DEF Announce, Route, Drop
  <2> QED
    BY <1>1, <2>2, <2>3, <2>4, <2>5
<1>3. ASSUME NEW r \in Side, NEW k, NEW m, down' = Sent(r, k, m)
      PROVE  down'[t] = down[t] \/ Connected(t)
  <2>1. down \in [Side -> Seq(Msg)]
    BY Types DEF IInv, QueueTypes
  <2> QED
    BY <1>3, <2>1 DEF Sent, Connected
<1> QED
  BY <1>2, <1>3

(* What it takes in hand of the host is for the phone's socket.            *)
LEMMA RelayHolds ==
  ASSUME IInv, RelayStep, NEW k \in 1 .. MaxConns
  PROVE  \/ InHand("host", k)' = {}
         \/ InHand("host", k)' = InHand("host", k) /\ held'[<<"host", k>>] = held[<<"host", k>>]
         \/ held'[<<"host", k>>].dest = registered["phone"]
<1>1. PICK s \in Side, n \in 1 .. MaxConns :
        Greet(s, n) \/ Announce(s, n) \/ Tell(s, n) \/ Route(s, n) \/ Forward(s, n) \/ Drop(s, n)
  BY DEF RelayStep
<1> DEFINE c == <<s, n>>
           d == <<"host", k>>
<1>2. /\ phase \in [Conn -> Phase] /\ held \in [Conn -> [msg : Msg, dest : 0 .. MaxConns]]
      /\ c \in Conn /\ d \in Conn
  BY Types DEF IInv, RestTypes, Conn, Side
<1>3. PICK x, y : /\ phase' = [phase EXCEPT ![c] = x] /\ held' = [held EXCEPT ![c] = y]
                  /\ x = "routing" => y.dest = registered[Peer(s)]
  <2>1. CASE Greet(s, n)
    <3>1. CASE s = "host"
      BY <2>1, <3>1 DEF Greet
    <3>2. CASE s # "host"
      BY <2>1, <3>2 DEF Greet
    <3> QED
      BY <3>1, <3>2
  <2>2. CASE Announce(s, n)
    <3> DEFINE y == [msg |-> Note("down", FALSE), dest |-> registered[Peer(s)]]
    <3>1. phase' = [phase EXCEPT ![c] = "parting"] /\ held' = [held EXCEPT ![c] = y] /\ "parting" # "routing"
      BY <2>2 DEF Announce
    <3> HIDE DEF y
    <3> QED
      BY <3>1
  <2>3. CASE Tell(s, n)
    <3> DEFINE x == IF phase[c] = "telling" THEN "serving" ELSE "gone"
    <3>1. phase' = [phase EXCEPT ![c] = x] /\ held' = [held EXCEPT ![c] = NoMsg] /\ x # "routing"
      BY <2>3 DEF Tell
    <3> HIDE DEF x
    <3> QED
      BY <3>1
  <2>4. CASE Route(s, n)
    <3> DEFINE y == [msg |-> Head(up[c]), dest |-> registered[Peer(s)]]
    <3>1. /\ phase' = [phase EXCEPT ![c] = "routing"] /\ held' = [held EXCEPT ![c] = y]
          /\ y.dest = registered[Peer(s)]
      BY <2>4 DEF Route
    <3> HIDE DEF y
    <3> QED
      BY <3>1
  <2>5. CASE Forward(s, n)
    <3>1. /\ phase' = [phase EXCEPT ![c] = "serving"] /\ held' = [held EXCEPT ![c] = NoMsg]
          /\ "serving" # "routing"
      BY <2>5 DEF Forward
    <3> QED
      BY <3>1
  <2>6. CASE Drop(s, n)
    <3>1. CASE registered[s] = n
      BY <2>6, <3>1 DEF Drop
    <3>2. CASE registered[s] # n
      BY <2>6, <3>2 DEF Drop
    <3> QED
      BY <3>1, <3>2
  <2> QED
    BY <1>1, <2>1, <2>2, <2>3, <2>4, <2>5, <2>6
<1>4. CASE d # c
  <2>1. phase'[d] = phase[d] /\ held'[d] = held[d]
    BY <1>2, <1>3, <1>4
  <2> QED
    BY <2>1 DEF InHand
<1>5. CASE d = c
  <2>1. phase'[d] = x /\ held'[d] = y
    BY <1>2, <1>3, <1>5
  <2>2. Peer(s) = "phone"
    BY <1>5 DEF Peer
  <2> QED
    BY <1>3, <2>1, <2>2 DEF InHand
<1> QED
  BY <1>4, <1>5

(* The relay left a pipe alone, and the phone has still what matters of    *)
(* its queue.                                                              *)
LEMMA PipeReadyKept ==
  ASSUME IInv, NEW k \in 1 .. MaxConns, PipeReady(k), phoneChan' = phoneChan, phoneAtt => phoneAtt',
         Base' \in Nat, Base <= Base', PipeStays("host", k),
         Covers(Elems(down["phone"]), Elems(down'["phone"]), phoneChan, phoneAtt', Base')
  PROVE  PipeReady(k)'
<1>1. /\ up[<<"host", k>>] \in Seq(Msg) /\ InHand("host", k) \subseteq Msg /\ Base \in Nat
      /\ InHand("host", k)' = InHand("host", k) /\ up'[<<"host", k>>] = up[<<"host", k>>]
  BY ToPhoneTyped DEF PipeStays
<1>2. \A m \in InHand("host", k) : Ready(m, Elems(down'["phone"]), phoneChan', phoneAtt', Base')
  <2> TAKE m \in InHand("host", k)
  <2>1. m \in Msg /\ Ready(m, Elems(down["phone"]), phoneChan, phoneAtt, Base)
    BY <1>1 DEF PipeReady
  <2> QED
    BY <1>1, <2>1, ReadyKept
<1>3. QueueReady(up[<<"host", k>>], Elems(down'["phone"]) \cup InHand("host", k), phoneChan', phoneAtt', Base')
  <2>1. Covers(Elems(down["phone"]) \cup InHand("host", k), Elems(down'["phone"]) \cup InHand("host", k),
               phoneChan, phoneAtt', Base')
    BY DEF Covers
  <2>2. QueueReady(up[<<"host", k>>], Elems(down["phone"]) \cup InHand("host", k), phoneChan, phoneAtt, Base)
    BY DEF PipeReady
  <2> QED
    BY <1>1, <2>1, <2>2, QueueReadyKept
<1> QED
  BY <1>1, <1>2, <1>3, PipeReadyNext

(* All lines of the session the two share are numbered.                    *)
LEMMA SharedLines ==
  ASSUME Sane, Sharing
  PROVE  emitted[app] \in Nat /\ app \in Session /\ ws["host"] \in 1 .. MaxConns /\ hostChan # 0
<1>1. HostTypes /\ app # 0 /\ hostChan # 0 /\ ws["host"] # 0 /\ ws \in [Side -> 0 .. MaxConns]
  BY Types DEF Sane, Sharing, IInv, Talk, Ends, Connected, Holds, RestTypes
<1> QED
  BY <1>1, LinkAssumption, ConnsAssumption DEF HostTypes, Session, Side

(* The relay keeps the lines in order: what it drops or adds is not one    *)
(* the phone would count, and what it takes or passes on stays in order.   *)
LEMMA RelayOrder ==
  ASSUME Sane, Registered, Sockets, Order, RelayNext, IInv'
  PROVE  Order'
<1> DEFINE D == down["phone"]
<1>1. /\ RelayStep
      /\ UNCHANGED <<hostChan, hostAtt, app, emitted, phoneChan, phoneAtt, lastRecv>>
  BY DEF RelayNext, hostVars, phoneVars
<1>2. /\ D \in Seq(Msg) /\ Elems(D) \subseteq Msg
      /\ \A k \in 1 .. MaxConns :
           up[<<"host", k>>] \in Seq(Msg) /\ InHand("host", k) \subseteq Msg /\ Pipe("host", k) \subseteq Msg
  BY ToPhoneTyped DEF Sane
<1>3. Base \in Nat /\ Base' \in Nat /\ Base <= Base'
  <2>1. ToPhone' \subseteq ToPhone
    BY <1>1, RelayFlow, Directions DEF Shrinks, Sane
  <2>2. lastRecv' >= lastRecv
    BY <1>1, Types DEF Sane, IInv, PhoneTypes
  <2> QED
    BY <1>1, <2>1, <2>2, BaseGrows DEF Sane
<1>4. /\ ws' = ws
      /\ Connected("phone")' => Connected("phone")
      /\ Connected("host")' => Connected("host")
      /\ \A k \in 1 .. MaxConns : <<"host", k>> \in Conn
  BY <1>1, RelayKeepsSockets, Directions DEF Sane, Conn
<1>5. Sharing' => Sharing
  BY <1>1, <1>4 DEF Sharing
<1> SUFFICES ASSUME phoneChan' # 0
             PROVE  /\ QueueReady(down'["phone"], {}, phoneChan', phoneAtt', Base')
                    /\ Connected("phone")' => \A k \in 1 .. MaxConns : PipeReady(k)'
                    /\ Sharing' => Complete(Elems(down'["phone"]) \cup Pipe("host", ws["host"])', emitted'[app'],
                                            phoneChan', phoneAtt', Base')
  BY OrderNext
<1>6. InQueue /\ InPipes /\ InFull
  BY <1>1 DEF Order
<1>7. ASSUME NEW q \in Seq(Msg), QueueReady(q, {}, phoneChan, phoneAtt, Base)
      PROVE  QueueReady(q, {}, phoneChan', phoneAtt', Base')
  <2>1. QueueReady(q, {}, phoneChan, phoneAtt', Base')
    BY <1>1, <1>3, <1>7, QueueReadyMore
  <2> QED
    BY <1>1, <2>1
<1>8. ASSUME Sharing', ws["host"] \in 1 .. MaxConns =>
               Covers(Elems(D) \cup Pipe("host", ws["host"]), Elems(down'["phone"]) \cup Pipe("host", ws["host"])',
                      phoneChan, phoneAtt', Base')
      PROVE  Complete(Elems(down'["phone"]) \cup Pipe("host", ws["host"])', emitted'[app'], phoneChan', phoneAtt', Base')
  <2>1. emitted[app] \in Nat /\ ws["host"] \in 1 .. MaxConns /\ emitted[app] \in Int
    BY <1>5, <1>8, SharedLines
  <2>2. Complete(Elems(D) \cup Pipe("host", ws["host"]), emitted[app], phoneChan, phoneAtt, Base)
    BY <1>5, <1>6, <1>8 DEF InFull
  <2> QED
    BY <1>1, <1>3, <1>8, <2>1, <2>2, CompleteKept
<1>9. CASE Strays("host")
  <2>1. /\ D' = D \/ \E m \in Msg : m.kind \in NoteKind /\ D' = Append(D, m)
        /\ \A k \in 1 .. MaxConns :
             \/ PipeStays("host", k)
             \/ phase'[<<"host", k>>] \notin Working /\ InHand("host", k)' = {} /\ up'[<<"host", k>>] = <<>>
             \/ Misses("host", k) /\ InHand("host", k)' = {} /\ up'[<<"host", k>>] = up[<<"host", k>>]
    BY <1>9, Directions DEF Strays
  <2>2. QueueReady(D', {}, phoneChan, phoneAtt, Base) /\ D' \in Seq(Msg) /\ Elems(D) \subseteq Elems(D')
    <3>1. CASE D' = D
      BY <1>2, <1>6, <3>1 DEF InQueue
    <3>2. CASE \E m \in Msg : m.kind \in NoteKind /\ D' = Append(D, m)
      <4>1. PICK m \in Msg : m.kind \in NoteKind /\ D' = Append(D, m)
        BY <3>2
      <4>2. Ready(m, {} \cup Elems(D), phoneChan, phoneAtt, Base)
        BY <4>1 DEF Ready, Line, NoteKind
      <4>3. Elems(D') = Elems(D) \cup {m} /\ D' \in Seq(Msg)
        BY <1>2, <4>1, AppendElems
      <4> QED
        BY <1>2, <1>6, <4>1, <4>2, <4>3, QueueReadyAppend DEF InQueue
    <3> QED
      BY <2>1, <3>1, <3>2
  <2>3. \A k \in 1 .. MaxConns : Misses("host", k) /\ Connected("phone") =>
          \A m \in InHand("host", k) : ~Opening(m, phoneChan) /\ ~Line(m, phoneChan)
    BY Directions DEF Misses, Sockets, Opening, Line
  <2>4. ASSUME Connected("phone")', NEW k \in 1 .. MaxConns PROVE PipeReady(k)'
    <3>1. PipeReady(k) /\ Connected("phone")
      BY <1>4, <1>6, <2>4 DEF InPipes
    <3>2. CASE PipeStays("host", k)
      BY <1>1, <1>3, <2>2, <3>1, <3>2, PipeReadyKept, CoversMore DEF Sane
    <3>3. CASE InHand("host", k)' = {} /\ up'[<<"host", k>>] = <<>>
      <4>1. QueueReady(<<>>, Elems(D') \cup {}, phoneChan', phoneAtt', Base')
        BY NoElems, NoLines
      <4> QED
        BY <3>3, <4>1, PipeReadyNext
    <3>4. CASE Misses("host", k) /\ InHand("host", k)' = {} /\ up'[<<"host", k>>] = up[<<"host", k>>]
      <4>1. Covers(Elems(D) \cup InHand("host", k), Elems(D') \cup {}, phoneChan, phoneAtt', Base')
        BY <2>2, <2>3, <3>1, <3>4 DEF Covers
      <4>2. QueueReady(up[<<"host", k>>], Elems(D') \cup {}, phoneChan', phoneAtt', Base')
        BY <1>1, <1>2, <1>3, <3>1, <4>1, QueueReadyKept DEF PipeReady
      <4> QED
        BY <3>4, <4>2, PipeReadyNext
    <3> QED
      BY <2>1, <3>2, <3>3, <3>4
  <2>5. ASSUME Sharing', ws["host"] \in 1 .. MaxConns
        PROVE  Covers(Elems(D) \cup Pipe("host", ws["host"]), Elems(D') \cup Pipe("host", ws["host"])',
                      phoneChan, phoneAtt', Base')
    <3>1. PICK k \in 1 .. MaxConns : k = ws["host"]
      BY <2>5
    <3>2. Connected("phone") /\ phase'[<<"host", k>>] \in Working
      BY <1>4, <1>5, <2>5, <3>1 DEF Sharing, Connected, Holds
    <3>3. Pipe("host", ws["host"])' = InHand("host", k)' \cup Elems(up'[<<"host", k>>])
      BY <1>4, <3>1 DEF Pipe, Elems, InHand
    <3>4. CASE PipeStays("host", k)
      BY <2>2, <3>1, <3>3, <3>4 DEF Covers, PipeStays, Pipe
    <3>5. CASE Misses("host", k) /\ InHand("host", k)' = {} /\ up'[<<"host", k>>] = up[<<"host", k>>]
      BY <2>2, <2>3, <3>1, <3>2, <3>3, <3>5 DEF Covers, Pipe
    <3> QED
      BY <2>1, <3>2, <3>4, <3>5
  <2> QED
    BY <1>7, <1>8, <2>2, <2>4, <2>5
<1>10. ASSUME NEW n \in 1 .. MaxConns, Takes("host", n)
       PROVE  /\ QueueReady(down'["phone"], {}, phoneChan', phoneAtt', Base')
              /\ Connected("phone")' => \A k \in 1 .. MaxConns : PipeReady(k)'
              /\ Sharing' => Complete(Elems(down'["phone"]) \cup Pipe("host", ws["host"])', emitted'[app'],
                                      phoneChan', phoneAtt', Base')
  <2> DEFINE U == up[<<"host", n>>]
  <2>1. /\ D' = D /\ U \in Seq(Msg) /\ U # <<>> /\ InHand("host", n) = {}
        /\ InHand("host", n)' = {Head(U)} /\ up'[<<"host", n>>] = Tail(U)
        /\ \A k \in 1 .. MaxConns : k # n => PipeStays("host", k)
    BY <1>2, <1>10, Directions DEF Takes
  <2>2. Elems(U) = {Head(U)} \cup Elems(Tail(U)) /\ Head(U) \in Msg /\ Tail(U) \in Seq(Msg)
    BY <2>1, TailElems
  <2>3. ASSUME Connected("phone")', NEW k \in 1 .. MaxConns PROVE PipeReady(k)'
    <3>1. PipeReady(k)
      BY <1>4, <1>6, <2>3 DEF InPipes
    <3>2. CASE k # n
      BY <1>1, <1>3, <2>1, <3>1, <3>2, PipeReadyKept, CoversMore DEF Sane
    <3>3. CASE k = n
      <4>1. QueueReady(U, Elems(D), phoneChan, phoneAtt, Base)
        <5>1. Elems(D) \cup InHand("host", n) = Elems(D)
          BY <2>1
        <5> QED
          BY <3>1, <3>3, <5>1 DEF PipeReady
      <4>2. /\ Ready(Head(U), Elems(D), phoneChan, phoneAtt, Base)
            /\ QueueReady(Tail(U), Elems(D) \cup {Head(U)}, phoneChan, phoneAtt, Base)
        BY <2>1, <4>1, QueueReadyTail
      <4>3. /\ Ready(Head(U), Elems(D), phoneChan', phoneAtt', Base')
            /\ QueueReady(Tail(U), Elems(D) \cup {Head(U)}, phoneChan', phoneAtt', Base')
        <5>1. phoneChan' = phoneChan /\ (phoneAtt => phoneAtt') /\ Covers(Elems(D), Elems(D), phoneChan, phoneAtt', Base')
          BY <1>1, CoversMore
        <5>2. Ready(Head(U), Elems(D), phoneChan, phoneAtt', Base')
          BY <1>3, <2>2, <4>2, <5>1, ReadyKept
        <5>3. QueueReady(Tail(U), Elems(D) \cup {Head(U)}, phoneChan, phoneAtt', Base')
          <6> DEFINE X == Elems(D) \cup {Head(U)}
          <6> HIDE DEF X, U
          <6>1. QueueReady(Tail(U), X, phoneChan, phoneAtt, Base) /\ X \subseteq X
            BY <4>2 DEF X
          <6>2. QueueReady(Tail(U), X, phoneChan, phoneAtt', Base')
            BY <1>3, <2>2, <5>1, <6>1, QueueReadyMore
          <6> QED
            BY <6>2 DEF X
        <5> QED
          BY <5>1, <5>2, <5>3
      <4> HIDE DEF U
      <4> QED
        BY <2>1, <3>3, <4>3, PipeReadyNext
    <3> QED
      BY <3>2, <3>3
  <2>4. ASSUME ws["host"] \in 1 .. MaxConns PROVE Pipe("host", ws["host"])' = Pipe("host", ws["host"])
    <3>1. \A k \in 1 .. MaxConns : InHand("host", k)' \cup Elems(up'[<<"host", k>>]) = Pipe("host", k)
      <4> TAKE k \in 1 .. MaxConns
      <4> HIDE DEF U
      <4>1. CASE k = n
        BY <2>1, <2>2, <4>1 DEF Pipe, U
      <4>2. CASE k # n
        BY <2>1, <4>2 DEF Pipe, PipeStays
      <4> QED
        BY <4>1, <4>2
    <3>2. Pipe("host", ws["host"])' = InHand("host", ws["host"])' \cup Elems(up'[<<"host", ws["host"]>>])
      BY <1>4 DEF Pipe, Elems, InHand
    <3>3. InHand("host", ws["host"])' = IF phase'[<<"host", ws["host"]>>] = "routing" THEN {held'[<<"host", ws["host"]>>].msg} ELSE {}
      BY <1>4 DEF InHand
    <3>4. \A k \in 1 .. MaxConns : InHand("host", k)' = IF phase'[<<"host", k>>] = "routing" THEN {held'[<<"host", k>>].msg} ELSE {}
      BY DEF InHand
    <3> QED
      BY <2>4, <3>1, <3>2, <3>3, <3>4
  <2> QED
    BY <1>2, <1>6, <1>7, <1>8, <2>1, <2>3, <2>4, CoversMore DEF InQueue
<1>11. ASSUME NEW n \in 1 .. MaxConns, PassesOn("host", n)
       PROVE  /\ QueueReady(down'["phone"], {}, phoneChan', phoneAtt', Base')
              /\ Connected("phone")' => \A k \in 1 .. MaxConns : PipeReady(k)'
              /\ Sharing' => Complete(Elems(down'["phone"]) \cup Pipe("host", ws["host"])', emitted'[app'],
                                      phoneChan', phoneAtt', Base')
  <2>1. PICK m \in Msg : InHand("host", n) = {m} /\ D' = Append(D, m)
    BY <1>11, Directions DEF PassesOn
  <2>2. /\ InHand("host", n)' = {} /\ up'[<<"host", n>>] = up[<<"host", n>>]
        /\ \A k \in 1 .. MaxConns : k # n => PipeStays("host", k)
    BY <1>11 DEF PassesOn
  <2>3. Elems(D') = Elems(D) \cup {m} /\ Len(D') = Len(D) + 1 /\ D' \in Seq(Msg) /\ Len(D) \in Nat
    BY <1>2, <2>1, AppendElems
  <2>4. Connected("phone")
    <3>1. D' # D
      BY <2>3
    <3> QED
      BY <1>1, <3>1, RelaySends, Directions DEF Sane
  <2>5. \A k \in 1 .. MaxConns : PipeReady(k)
    BY <1>6, <2>4 DEF InPipes
  <2>6. QueueReady(D', {}, phoneChan, phoneAtt, Base)
    <3>1. Ready(m, {} \cup Elems(D), phoneChan, phoneAtt, Base)
      BY <2>1, <2>5 DEF PipeReady
    <3> QED
      BY <1>2, <1>6, <2>1, <3>1, QueueReadyAppend DEF InQueue
  <2>7. ASSUME NEW k \in 1 .. MaxConns PROVE PipeReady(k)'
    <3>1. CASE k # n
      BY <1>1, <1>3, <2>2, <2>3, <2>5, <3>1, PipeReadyKept, CoversMore DEF Sane
    <3>2. CASE k = n
      <4>1. QueueReady(up[<<"host", n>>], Elems(D) \cup {m}, phoneChan, phoneAtt, Base)
        BY <2>1, <2>5 DEF PipeReady
      <4>2. QueueReady(up[<<"host", n>>], Elems(D') \cup {}, phoneChan', phoneAtt', Base')
        <5>1. /\ phoneChan' = phoneChan /\ (phoneAtt => phoneAtt')
              /\ Elems(D) \cup {m} = Elems(D') \cup {} /\ up[<<"host", n>>] \in Seq(Msg)
          BY <1>1, <1>2, <2>3
        <5>2. QueueReady(up[<<"host", n>>], Elems(D') \cup {}, phoneChan, phoneAtt', Base')
          BY <1>3, <4>1, <5>1, QueueReadyMore
        <5> QED
          BY <5>1, <5>2
      <4> QED
        BY <2>2, <3>2, <4>2, PipeReadyNext
    <3> QED
      BY <3>1, <3>2
  <2>8. ASSUME ws["host"] \in 1 .. MaxConns
        PROVE  Elems(D) \cup Pipe("host", ws["host"]) \subseteq Elems(D') \cup Pipe("host", ws["host"])'
    <3>1. \A k \in 1 .. MaxConns :
            Elems(D) \cup Pipe("host", k) \subseteq Elems(D') \cup InHand("host", k)' \cup Elems(up'[<<"host", k>>])
      <4> TAKE k \in 1 .. MaxConns
      <4>1. CASE k = n
        BY <2>1, <2>2, <2>3, <4>1 DEF Pipe
      <4>2. CASE k # n
        BY <2>2, <2>3, <4>2 DEF Pipe, PipeStays
      <4> QED
        BY <4>1, <4>2
    <3>2. Pipe("host", ws["host"])' = InHand("host", ws["host"])' \cup Elems(up'[<<"host", ws["host"]>>])
      BY <1>4 DEF Pipe, Elems, InHand
    <3>3. InHand("host", ws["host"])' = IF phase'[<<"host", ws["host"]>>] = "routing" THEN {held'[<<"host", ws["host"]>>].msg} ELSE {}
      BY <1>4 DEF InHand
    <3>4. \A k \in 1 .. MaxConns : InHand("host", k)' = IF phase'[<<"host", k>>] = "routing" THEN {held'[<<"host", k>>].msg} ELSE {}
      BY DEF InHand
    <3> QED
      BY <2>8, <3>1, <3>2, <3>3, <3>4
  <2> QED
    BY <1>7, <1>8, <2>3, <2>6, <2>7, <2>8, CoversMore
<1> QED
  BY <1>1, <1>9, <1>10, <1>11, RelayShape, Directions DEF Sane

(* The pipe the host writes to.                                            *)
LEMMA HostPipeNext ==
  ASSUME ws'["host"] = ws["host"], NEW k \in 1 .. MaxConns, k = ws["host"]
  PROVE  Pipe("host", ws["host"])' = InHand("host", k)' \cup Elems(up'[<<"host", k>>])
BY DEF Pipe, Elems, InHand

(* Lines stay in order where none is written, read or lost.                *)
LEMMA IdleOrder ==
  ASSUME Sane, IInv', Order, down'["phone"] = down["phone"], ToPhone' \subseteq ToPhone,
         \A k \in 1 .. MaxConns : PipeStays("host", k),
         Connected("phone")' => Connected("phone"),
         phoneChan' = 0 \/ UNCHANGED <<phoneChan, phoneAtt, lastRecv>>,
         \/ hostChan' = 0 \/ ~hostAtt'
         \/ /\ UNCHANGED <<hostChan, hostAtt, app, emitted>> /\ ws'["host"] = ws["host"]
            /\ Connected("host")' => Connected("host")
  PROVE  Order'
<1> DEFINE D == down["phone"]
<1> SUFFICES ASSUME phoneChan' # 0
             PROVE  /\ QueueReady(down'["phone"], {}, phoneChan', phoneAtt', Base')
                    /\ Connected("phone")' => \A k \in 1 .. MaxConns : PipeReady(k)'
                    /\ Sharing' => Complete(Elems(down'["phone"]) \cup Pipe("host", ws["host"])', emitted'[app'],
                                            phoneChan', phoneAtt', Base')
  BY OrderNext
<1>1. /\ phoneChan' = phoneChan /\ phoneAtt' = phoneAtt /\ lastRecv' = lastRecv /\ phoneChan # 0
      /\ (phoneAtt => phoneAtt') /\ D \in Seq(Msg)
  BY ToPhoneTyped DEF Sane
<1>2. Base \in Nat /\ Base' \in Nat /\ Base <= Base'
  <2>1. lastRecv' >= lastRecv
    BY <1>1, Types DEF Sane, IInv, PhoneTypes
  <2> QED
    BY <1>1, <2>1, BaseGrows DEF Sane
<1>3. InQueue /\ InPipes /\ InFull
  BY <1>1 DEF Order
<1>4. QueueReady(D, {}, phoneChan, phoneAtt', Base')
  BY <1>1, <1>2, <1>3, QueueReadyMore DEF InQueue
<1>5. ASSUME Connected("phone")', NEW k \in 1 .. MaxConns PROVE PipeReady(k)'
  <2>1. PipeReady(k)
    BY <1>3, <1>5 DEF InPipes
  <2> QED
    BY <1>1, <1>2, <2>1, PipeReadyKept, CoversMore DEF Sane
<1>6. ASSUME Sharing'
      PROVE  Complete(Elems(D) \cup Pipe("host", ws["host"])', emitted'[app'], phoneChan, phoneAtt', Base')
  <2>1. hostChan' # 0 /\ hostAtt'
    BY <1>1, <1>6 DEF Sharing
  <2>2. Sharing
    BY <1>1, <1>6, <2>1 DEF Sharing
  <2>3. emitted[app] \in Nat /\ emitted[app] \in Int /\ ws["host"] \in 1 .. MaxConns
    BY <2>2, SharedLines
  <2>4. Complete(Elems(D) \cup Pipe("host", ws["host"]), emitted[app], phoneChan, phoneAtt, Base)
    BY <1>3, <2>2 DEF InFull
  <2>5. Pipe("host", ws["host"])' = Pipe("host", ws["host"])
    <3>1. PICK k \in 1 .. MaxConns : k = ws["host"]
      BY <2>3
    <3> QED
      BY <2>1, <3>1, HostPipeNext DEF Pipe, PipeStays
  <2> DEFINE X == Elems(D) \cup Pipe("host", ws["host"])
  <2>6. Complete(X, emitted[app], phoneChan, phoneAtt, Base) /\ emitted'[app'] = emitted[app]
    BY <2>1, <2>4
  <2>7. phoneAtt => phoneAtt'
    BY <1>1
  <2> HIDE DEF X
  <2>8. Covers(X, X, phoneChan, phoneAtt', Base')
    BY CoversMore
  <2>9. Complete(X, emitted[app], phoneChan, phoneAtt', Base')
    BY <1>2, <2>3, <2>6, <2>7, <2>8, CompleteKept
  <2> QED
    BY <2>5, <2>6, <2>9 DEF X
<1> QED
  BY <1>1, <1>4, <1>5, <1>6

(* The phone reads a message that it counts, or that it has no need of.    *)
LEMMA ReadOrder ==
  ASSUME Sane, Order, TakesIn("host"), UNCHANGED <<relayVars, ws, hostChan, hostAtt, app, emitted, phoneChan>>,
         phoneAtt => phoneAtt', Base' \in Nat, Base <= Base',
         Opening(Head(down["phone"]), phoneChan) => phoneAtt',
         Line(Head(down["phone"]), phoneChan) => Head(down["phone"]).n <= Base'
  PROVE  Order'
<1> DEFINE D == down["phone"]
           m == Head(D)
<1> SUFFICES ASSUME phoneChan' # 0
             PROVE  /\ QueueReady(down'["phone"], {}, phoneChan', phoneAtt', Base')
                    /\ Connected("phone")' => \A k \in 1 .. MaxConns : PipeReady(k)'
                    /\ Sharing' => Complete(Elems(down'["phone"]) \cup Pipe("host", ws["host"])', emitted'[app'],
                                            phoneChan', phoneAtt', Base')
  BY OrderNext
<1>1. /\ D \in Seq(Msg) /\ D # <<>> /\ D' = Tail(D) /\ Base \in Nat /\ phoneChan # 0
      /\ \A k \in 1 .. MaxConns : PipeStays("host", k)
  BY ToPhoneTyped, Directions DEF Sane, TakesIn
<1>2. Elems(D) = {m} \cup Elems(Tail(D)) /\ Tail(D) \in Seq(Msg) /\ m \in Msg
  BY <1>1, TailElems
<1>3. InQueue /\ InPipes /\ InFull
  BY <1>1 DEF Order
<1>4. \A X, Y : X \subseteq Y \cup {m} => Covers(X, Y, phoneChan, phoneAtt', Base')
  <2> SUFFICES ASSUME NEW X, NEW Y, X \subseteq Y \cup {m} PROVE Covers(X, Y, phoneChan, phoneAtt', Base')
    OBVIOUS
  <2>1. m.n \in Nat
    BY <1>2 DEF Msg
  <2>2. \A x \in X : x \in Y \/ x = m
    OBVIOUS
  <2>3. Line(m, phoneChan) => ~(m.n > Base')
    BY <2>1
  <2> HIDE DEF m
  <2> QED
    BY <2>2, <2>3 DEF Covers, m
<1>5. QueueReady(Tail(D), {}, phoneChan, phoneAtt', Base')
  <2>1. QueueReady(Tail(D), {} \cup {m}, phoneChan, phoneAtt, Base)
    BY <1>1, <1>3, QueueReadyTail DEF InQueue
  <2>2. Covers({} \cup {m}, {}, phoneChan, phoneAtt', Base')
    BY <1>4
  <2> HIDE DEF m
  <2> QED
    BY <1>1, <1>2, <2>1, <2>2, QueueReadyKept
<1>6. ASSUME Connected("phone")', NEW k \in 1 .. MaxConns PROVE PipeReady(k)'
  <2>1. PipeReady(k)
    BY <1>3, <1>6 DEF InPipes, Connected, Holds, relayVars
  <2>2. Covers(Elems(D), Elems(D'), phoneChan, phoneAtt', Base')
    BY <1>1, <1>2, <1>4
  <2> QED
    BY <1>1, <2>1, <2>2, PipeReadyKept DEF Sane
<1>7. ASSUME Sharing'
      PROVE  Complete(Elems(D') \cup Pipe("host", ws["host"])', emitted[app], phoneChan, phoneAtt', Base')
  <2>1. Sharing
    BY <1>7 DEF Sharing, Connected, Holds, relayVars
  <2>2. emitted[app] \in Nat /\ emitted[app] \in Int /\ ws["host"] \in 1 .. MaxConns
    BY <2>1, SharedLines
  <2>3. Complete(Elems(D) \cup Pipe("host", ws["host"]), emitted[app], phoneChan, phoneAtt, Base)
    BY <1>3, <2>1 DEF InFull
  <2>4. Pipe("host", ws["host"])' = Pipe("host", ws["host"])
    <3>1. PICK k \in 1 .. MaxConns : k = ws["host"]
      BY <2>2
    <3> QED
      BY <1>1, <3>1, HostPipeNext DEF Pipe, PipeStays
  <2>5. Covers(Elems(D) \cup Pipe("host", ws["host"]), Elems(D') \cup Pipe("host", ws["host"]),
               phoneChan, phoneAtt', Base')
    <3>1. Elems(D) \cup Pipe("host", ws["host"]) \subseteq (Elems(D') \cup Pipe("host", ws["host"])) \cup {m}
      BY <1>1, <1>2
    <3> QED
      BY <1>4, <3>1
  <2> DEFINE X == Elems(D) \cup Pipe("host", ws["host"])
             Y == Elems(D') \cup Pipe("host", ws["host"])
  <2>6. Complete(X, emitted[app], phoneChan, phoneAtt, Base) /\ Covers(X, Y, phoneChan, phoneAtt', Base')
    BY <2>3, <2>5
  <2>7. Base \in Nat
    BY <1>1
  <2> HIDE DEF X, Y
  <2>8. Complete(Y, emitted[app], phoneChan, phoneAtt', Base')
    BY <2>2, <2>6, <2>7, CompleteKept
  <2> QED
    BY <2>4, <2>8 DEF Y
<1> QED
  BY <1>1, <1>5, <1>6, <1>7

(* The host writes frames that are in order after what is in its pipe.     *)
LEMMA WriteOrder ==
  ASSUME Sane, Order, NEW frames \in Seq(Msg), PutsIn("host", frames), UNCHANGED <<relayVars, ws, phoneChan, phoneAtt>>,
         Base' \in Nat, Base <= Base',
         Connected("phone") /\ Connected("host") =>
           QueueReady(frames, Elems(down["phone"]) \cup Pipe("host", ws["host"]), phoneChan, phoneAtt, Base'),
         Sharing' => Complete(Elems(down["phone"]) \cup Pipe("host", ws["host"]) \cup Elems(frames),
                              emitted'[app'], phoneChan, phoneAtt, Base')
  PROVE  Order'
<1> DEFINE D == down["phone"]
<1> SUFFICES ASSUME phoneChan' # 0
             PROVE  /\ QueueReady(down'["phone"], {}, phoneChan', phoneAtt', Base')
                    /\ Connected("phone")' => \A k \in 1 .. MaxConns : PipeReady(k)'
                    /\ Sharing' => Complete(Elems(down'["phone"]) \cup Pipe("host", ws["host"])', emitted'[app'],
                                            phoneChan', phoneAtt', Base')
  BY OrderNext
<1>1. /\ D \in Seq(Msg) /\ D' = D /\ Base \in Nat /\ phoneChan # 0 /\ phoneChan' = phoneChan
      /\ phoneAtt' = phoneAtt /\ (phoneAtt => phoneAtt')
      /\ \A k \in 1 .. MaxConns :
           /\ up[<<"host", k>>] \in Seq(Msg) /\ InHand("host", k)' = InHand("host", k)
           /\ up'[<<"host", k>>] = IF k = ws["host"] /\ Connected("host") THEN up[<<"host", k>>] \o frames
                                   ELSE up[<<"host", k>>]
  BY ToPhoneTyped, Directions DEF Sane, PutsIn
<1>2. InQueue /\ InPipes /\ InFull
  BY <1>1 DEF Order
<1>3. QueueReady(D, {}, phoneChan, phoneAtt', Base')
  BY <1>1, <1>2, QueueReadyMore DEF InQueue
<1>4. ASSUME Connected("phone")', NEW k \in 1 .. MaxConns PROVE PipeReady(k)'
  <2>1. PipeReady(k) /\ Connected("phone")
    BY <1>2, <1>4 DEF InPipes, Connected, Holds, relayVars
  <2>2. CASE ~(k = ws["host"] /\ Connected("host"))
    <3>1. PipeStays("host", k)
      BY <1>1, <2>2 DEF PipeStays
    <3> QED
      BY <1>1, <2>1, <3>1, PipeReadyKept, CoversMore DEF Sane
  <2>3. CASE k = ws["host"] /\ Connected("host")
    <3> DEFINE U == up[<<"host", k>>]
               H == InHand("host", k)
    <3>1. U \in Seq(Msg) /\ InHand("host", k)' = H /\ up'[<<"host", k>>] = U \o frames /\ H \subseteq Msg
      BY <1>1, <2>3, ToPhoneTyped DEF Sane
    <3>2. \A m \in H : Ready(m, Elems(D), phoneChan, phoneAtt', Base')
      <4> TAKE m \in H
      <4>1. m \in Msg /\ Ready(m, Elems(D), phoneChan, phoneAtt, Base)
        BY <2>1, <3>1 DEF PipeReady
      <4>2. Covers(Elems(D), Elems(D), phoneChan, phoneAtt', Base') /\ (phoneAtt => phoneAtt') /\ Base \in Nat
        BY <1>1, CoversMore
      <4> QED
        BY <4>1, <4>2, ReadyKept
    <3>3. QueueReady(U, Elems(D) \cup H, phoneChan, phoneAtt', Base')
      <4>1. QueueReady(U, Elems(D) \cup H, phoneChan, phoneAtt, Base) /\ Elems(D) \cup H \subseteq Elems(D) \cup H
        BY <2>1 DEF PipeReady
      <4> HIDE DEF U, H
      <4> QED
        BY <1>1, <3>1, <4>1, QueueReadyMore
    <3>4. QueueReady(frames, (Elems(D) \cup H) \cup Elems(U), phoneChan, phoneAtt', Base')
      <4>1. QueueReady(frames, Elems(D) \cup Pipe("host", k), phoneChan, phoneAtt, Base')
        BY <2>1, <2>3
      <4>2. Elems(D) \cup Pipe("host", k) = (Elems(D) \cup H) \cup Elems(U)
        BY DEF Pipe
      <4> HIDE DEF U, H
      <4> QED
        BY <1>1, <4>1, <4>2
    <3> HIDE DEF U, H
    <3>5. QueueReady(U \o frames, Elems(D) \cup H, phoneChan, phoneAtt', Base')
      BY <3>1, <3>3, <3>4, QueueReadyConcat
    <3> QED
      BY <1>1, <3>1, <3>2, <3>5, PipeReadyNext
  <2> QED
    BY <2>2, <2>3
<1>5. ASSUME Sharing'
      PROVE  Complete(Elems(D) \cup Pipe("host", ws["host"])', emitted'[app'], phoneChan, phoneAtt', Base')
  <2>1. Connected("host") /\ ws["host"] # 0 /\ ws["host"] \in 1 .. MaxConns
    <3>1. Connected("host")
      BY <1>5 DEF Sharing, Connected, Holds, relayVars
    <3> QED
      BY <3>1, Types, ConnsAssumption DEF Connected, Holds, Sane, IInv, RestTypes, Side
  <2>2. PICK k \in 1 .. MaxConns : k = ws["host"]
    BY <2>1
  <2>3. Pipe("host", ws["host"])' = InHand("host", k) \cup Elems(up[<<"host", k>>] \o frames)
    BY <1>1, <2>1, <2>2, HostPipeNext
  <2>4. Elems(up[<<"host", k>>] \o frames) = Elems(up[<<"host", k>>]) \cup Elems(frames)
    BY <1>1, ConcatElems
  <2>5. Elems(D) \cup Pipe("host", ws["host"])' = Elems(D) \cup Pipe("host", ws["host"]) \cup Elems(frames)
    BY <2>2, <2>3, <2>4 DEF Pipe
  <2> QED
    BY <1>1, <1>5, <2>5
<1> QED
  BY <1>1, <1>3, <1>4, <1>5

(* No line is under way on the phone's channel.                            *)
LEMMA BlankOrder ==
  ASSUME \A x \in ToPhone' : ~Line(x, phoneChan'),
         phoneChan' # 0 /\ Sharing' =>
           Complete(Elems(down'["phone"]) \cup Pipe("host", ws["host"])', emitted'[app'], phoneChan', phoneAtt', Base')
  PROVE  Order'
<1>1. \A x : Line(x, phoneChan') => x.kind \notin NoteKind
  BY DEF Line, NoteKind
<1>2. \A x \in Elems(down'["phone"]) : ~Line(x, phoneChan')
  BY <1>1, FlightPlacesNext, Directions
<1>3. \A k \in 1 .. MaxConns : \A x \in Pipe("host", k)' : ~Line(x, phoneChan')
  BY <1>1, FlightPlacesNext, Directions
<1>4. QueueReady(down'["phone"], {}, phoneChan', phoneAtt', Base')
  BY <1>2, NoLines
<1>5. \A k \in 1 .. MaxConns : PipeReady(k)'
  <2> TAKE k \in 1 .. MaxConns
  <2>1. \A x \in InHand("host", k)' \cup Elems(up'[<<"host", k>>]) : ~Line(x, phoneChan')
    BY <1>3, PipeNext
  <2>2. \A x \in InHand("host", k)' : Ready(x, Elems(down'["phone"]), phoneChan', phoneAtt', Base')
    BY <2>1 DEF Ready
  <2>3. QueueReady(up'[<<"host", k>>], Elems(down'["phone"]) \cup InHand("host", k)', phoneChan', phoneAtt', Base')
    BY <2>1, NoLines
  <2> QED
    BY <2>2, <2>3, PipeReadyNext
<1> QED
  BY <1>4, <1>5, OrderNext

(* What the relay has in hand for a device that has the channel is for the *)
(* socket the device uses.                                                 *)
LEMMA SocketsStay ==
  ASSUME Sockets, Talk',
         \A k \in 1 .. MaxConns :
           \/ InHand("host", k)' = {}
           \/ InHand("host", k)' = InHand("host", k) /\ held'[<<"host", k>>] = held[<<"host", k>>],
         ws'["host"] = 0 => hostChan' = 0, ws'["phone"] = 0 => phoneChan' = 0,
         \/ phoneChan' = 0
         \/ \A x \in ToPhone' : x.chan = phoneChan' => x.kind = "hs2"
         \/ phoneChan' = phoneChan /\ ws'["phone"] = ws["phone"] /\ (Connected("phone")' => Connected("phone"))
  PROVE  Sockets'
<1>1. /\ (ws["host"] = 0 => hostChan = 0)'
      /\ (ws["phone"] = 0 => phoneChan = 0)'
  OBVIOUS
<1>2. ASSUME Connected("phone")', NEW k \in 1 .. MaxConns, NEW m \in InHand("host", k)',
             m.kind \in {"attached", "rpc"}, m.chan = phoneChan'
      PROVE  held'[<<"host", k>>].dest = ws'["phone"]
  <2>1. m \in ToPhone'
    <3>1. m.kind \notin NoteKind
      BY <1>2 DEF NoteKind
    <3>2. m \in Pipe("host", k)'
      BY PipeNext
    <3> QED
      BY <3>1, <3>2, FlightPlacesNext, Directions
  <2>2. phoneChan' # 0
    BY <1>2, <2>1 DEF Talk, Bounds
  <2>3. phoneChan' = phoneChan /\ ws'["phone"] = ws["phone"] /\ Connected("phone")
    BY <1>2, <2>1, <2>2
  <2>4. m \in InHand("host", k) /\ held'[<<"host", k>>] = held[<<"host", k>>]
    OBVIOUS
  <2> QED
    BY <1>2, <2>3, <2>4 DEF Sockets
<1> QED
  BY <1>1, <1>2 DEF Sockets

(* The relay looks up the socket it has on record.                         *)
LEMMA RelaySockets ==
  ASSUME Sane, Registered, Sockets, RelayNext
  PROVE  Sockets'
<1>1. RelayStep /\ hostChan' = hostChan /\ phoneChan' = phoneChan
  BY DEF RelayNext, hostVars, phoneVars
<1>2. ws' = ws /\ (Connected("phone")' => Connected("phone"))
  BY <1>1, RelayKeepsSockets, Directions DEF Sane
<1>3. ASSUME Connected("phone")', NEW k \in 1 .. MaxConns, NEW m \in InHand("host", k)',
             m.kind \in {"attached", "rpc"}, m.chan = phoneChan
      PROVE  held'[<<"host", k>>].dest = ws["phone"]
  <2>1. registered["phone"] = ws["phone"] /\ Connected("phone")
    BY <1>2, <1>3, Directions DEF Registered
  <2>2. \/ InHand("host", k)' = {}
        \/ InHand("host", k)' = InHand("host", k) /\ held'[<<"host", k>>] = held[<<"host", k>>]
        \/ held'[<<"host", k>>].dest = registered["phone"]
    BY <1>1, RelayHolds DEF Sane
  <2> QED
    BY <1>3, <2>1, <2>2 DEF Sockets
<1> QED
  BY <1>1, <1>2, <1>3 DEF Sockets

(* A device that dials gives the relay nothing to hold.                    *)
LEMMA DialHands ==
  ASSUME IInv, NEW s \in Side, Dial(s), NEW k \in 1 .. MaxConns
  PROVE  \/ InHand("host", k)' = {}
         \/ InHand("host", k)' = InHand("host", k) /\ held'[<<"host", k>>] = held[<<"host", k>>]
<1> DEFINE c == <<"host", k>>
           d == <<s, dialed[s] + 1>>
           y == [msg |-> Note("ok", s = "phone" /\ registered["host"] # 0), dest |-> 0]
<1>1. /\ phase \in [Conn -> Phase] /\ held \in [Conn -> [msg : Msg, dest : 0 .. MaxConns]] /\ c \in Conn
      /\ phase' = [phase EXCEPT ![d] = "greeting"] /\ held' = [held EXCEPT ![d] = y]
  BY Types DEF IInv, RestTypes, Dial, Conn, Side
<1> HIDE DEF y, d
<1>2. CASE c = d
  BY <1>1, <1>2 DEF InHand
<1>3. CASE c # d
  BY <1>1, <1>3 DEF InHand
<1> QED
  BY <1>2, <1>3

(* A socket that is dialed connects nobody else.                           *)
LEMMA DialPhases ==
  ASSUME IInv, NEW s \in Side, Dial(s), NEW t \in Side, t # s
  PROVE  ws'[t] = ws[t] /\ (Connected(t)' => Connected(t))
<1>1. /\ phase \in [Conn -> Phase] /\ ws \in [Side -> 0 .. MaxConns]
      /\ phase' = [phase EXCEPT ![<<s, dialed[s] + 1>>] = "greeting"] /\ ws' = [ws EXCEPT ![s] = dialed[s] + 1]
  BY Types DEF IInv, RestTypes, Dial
<1>2. ws'[t] = ws[t]
  BY <1>1
<1>3. ws[t] # 0 => phase'[<<t, ws[t]>>] = phase[<<t, ws[t]>>]
  BY <1>1, ConnsAssumption DEF Conn
<1> QED
  BY <1>2, <1>3 DEF Connected, Holds

(* The steps of the host.                                                  *)
LEMMA HostSockets ==
  ASSUME Sane, Sockets, Talk', HostNext \/ HostEmits \/ HostRestarts
  PROVE  Sockets'
<1>1. phoneChan' = phoneChan /\ ws'["phone"] = ws["phone"] /\ (ws'["host"] = 0 => hostChan' = 0)
  <2>1. ws \in [Side -> 0 .. MaxConns] /\ dialed \in [Side -> 0 .. MaxConns] /\ HostTypes
    BY Types DEF Sane, IInv, RestTypes
  <2>2. CASE Dial("host") /\ UNCHANGED <<hostVars, phoneVars, restarts>>
    BY <2>1, <2>2 DEF Dial, phoneVars, Side
  <2>3. CASE ReadsOk("host") /\ UNCHANGED <<hostVars, phoneVars, restarts, dialed, ws, relayVars, up>>
    BY <2>3 DEF ReadsOk, phoneVars
  <2>4. CASE HostShakes \/ HostIgnores \/ HostResumes \/ HostRenews \/ HostTrims \/ HostForwards
    BY <2>4 DEF HostShakes, HostIgnores, HostResumes, HostRenews, HostTrims, HostForwards, HostOpens, Reads, phoneVars
  <2>5. CASE HostDetaches \/ HostHangsUp \/ HostRestarts
    BY <2>1, <2>5 DEF HostDetaches, HostHangsUp, HostRestarts, HangUp, Side, phoneVars
  <2>6. CASE HostEmits
    <3>1. phoneChan' = phoneChan /\ ws' = ws
      BY <2>6 DEF HostEmits, phoneVars
    <3>2. CASE hostAtt /\ hostChan # 0
      BY <2>6, <3>1, <3>2 DEF Sockets
    <3>3. CASE ~(hostAtt /\ hostChan # 0)
      BY <2>6, <3>1, <3>3 DEF HostEmits, Sockets
    <3> QED
      BY <3>2, <3>3
  <2> QED
    BY <2>2, <2>3, <2>4, <2>5, <2>6 DEF HostNext, HostConnects
<1>2. UNCHANGED relayVars \/ Dial("host")
  BY DEF HostNext, HostConnects, HostShakes, HostIgnores, HostResumes, HostRenews, HostTrims, HostForwards,
         HostDetaches, HostHangsUp, HostEmits, HostRestarts, HangUp, relayVars
<1>3. Connected("phone")' => Connected("phone")
  <2>1. CASE UNCHANGED relayVars
    BY <1>1, <2>1 DEF Connected, Holds, relayVars
  <2>2. CASE Dial("host")
    BY <1>1, <2>2, DialPhases, Directions DEF Sane
  <2> QED
    BY <1>2, <2>1, <2>2
<1>4. \A k \in 1 .. MaxConns :
        \/ InHand("host", k)' = {}
        \/ InHand("host", k)' = InHand("host", k) /\ held'[<<"host", k>>] = held[<<"host", k>>]
  BY <1>2, DialHands, Directions DEF Sane, InHand, relayVars
<1>5. ws'["phone"] = 0 => phoneChan' = 0
  BY <1>1 DEF Sockets
<1> QED
  BY <1>1, <1>3, <1>4, <1>5, SocketsStay

(* The phone's own steps.                                                  *)
LEMMA PhoneSockets ==
  ASSUME Sane, Sockets, Talk', PhoneNext \/ PhoneAcks \/ PhoneAsks \/ PhoneRestarts
  PROVE  Sockets'
<1>1. ws \in [Side -> 0 .. MaxConns] /\ dialed \in [Side -> 0 .. MaxConns] /\ PhoneTypes
  BY Types DEF Sane, IInv, RestTypes
<1>2. hostChan' = hostChan /\ ws'["host"] = ws["host"]
  <2>1. hostChan' = hostChan
    BY DEF PhoneNext, PhoneConnects, PhoneReshakes, PhoneDetaches, PhoneCompletes, PhoneIgnores, PhoneAttaches,
           PhoneApplies, PhoneHangsUp, PhoneAcks, PhoneAsks, PhoneRestarts, hostVars
  <2>2. Dial("phone") \/ HangUp("phone") \/ ws' = ws
    BY DEF PhoneNext, PhoneConnects, PhoneReshakes, PhoneDetaches, PhoneCompletes, PhoneIgnores, PhoneAttaches,
           PhoneApplies, PhoneHangsUp, PhoneAcks, PhoneAsks, PhoneRestarts
  <2>3. ws'["host"] = ws["host"]
    BY <1>1, <2>2 DEF Dial, HangUp, Side
  <2> QED
    BY <2>1, <2>3
<1>3. UNCHANGED relayVars \/ Dial("phone")
  BY DEF PhoneNext, PhoneConnects, PhoneReshakes, PhoneDetaches, PhoneCompletes, PhoneIgnores, PhoneAttaches,
         PhoneApplies, PhoneHangsUp, PhoneAcks, PhoneAsks, PhoneRestarts, HangUp, relayVars
<1>4. \A k \in 1 .. MaxConns :
        \/ InHand("host", k)' = {}
        \/ InHand("host", k)' = InHand("host", k) /\ held'[<<"host", k>>] = held[<<"host", k>>]
  BY <1>3, DialHands, Directions DEF Sane, InHand, relayVars
<1>5. /\ ws'["phone"] = 0 => phoneChan' = 0
      /\ \/ phoneChan' = 0
         \/ \A x \in ToPhone' : x.chan = phoneChan' => x.kind = "hs2"
         \/ phoneChan' = phoneChan /\ ws' = ws /\ UNCHANGED relayVars
  <2>1. CASE Dial("phone") /\ UNCHANGED <<hostVars, phoneVars, restarts>>
    BY <1>1, <2>1 DEF Dial, phoneVars, Side, Sockets
  <2>2. CASE phoneChan' = 0
    BY <2>2
  <2>3. CASE phoneChan' = phoneChan /\ ws' = ws /\ UNCHANGED relayVars
    BY <2>3 DEF Sockets
  <2>4. CASE PhoneCompletes
    <3>1. ws' = ws /\ ws["phone"] # 0
      BY <2>4 DEF PhoneCompletes, Reads
    <3>2. CASE pending # 0 /\ pending = Head(down["phone"]).chan
      <4> DEFINE f == Frame("attach", Head(down["phone"]).chan, contID, lastRecv, FALSE)
      <4>1. /\ Reads("phone", "hs2") /\ UNCHANGED relayVars /\ up' = Written("phone", <<f>>)
            /\ phoneChan' \in {0, pending}
        BY <2>4, <3>2 DEF PhoneCompletes
      <4>2. f \in Msg
        BY <1>1, <4>1, PhoneMessage DEF Sane, IInv, PhoneTypes, Frame, Msg, Kind
      <4> HIDE DEF f
      <4>3. ToPhone' \subseteq ToPhone
        BY <4>1, <4>2, OneFrame, DeviceReads, Directions
      <4>4. \A x \in ToPhone : x.chan = pending => x.kind = "hs2"
        BY <3>2 DEF Sane, Talk, Ends
      <4> QED
        BY <3>1, <4>1, <4>3, <4>4
    <3>3. CASE ~(pending # 0 /\ pending = Head(down["phone"]).chan)
      <4>1. phoneChan' = phoneChan /\ UNCHANGED relayVars
        BY <2>4, <3>3 DEF PhoneCompletes
      <4> QED
        BY <2>3, <3>1, <4>1
    <3> QED
      BY <3>2, <3>3
  <2>5. \/ Dial("phone") /\ UNCHANGED <<hostVars, phoneVars, restarts>>
        \/ phoneChan' = 0
        \/ phoneChan' = phoneChan /\ ws' = ws /\ UNCHANGED relayVars
        \/ PhoneCompletes
    <3>1. CASE PhoneConnects
      <4>1. CASE Dial("phone") /\ UNCHANGED <<hostVars, phoneVars, restarts>>
        BY <4>1
      <4>2. CASE /\ IF Head(down["phone"]).yes
                    THEN PhoneShakes ELSE UNCHANGED <<pending, phoneChan, phoneAtt, shakes, up>>
                 /\ UNCHANGED <<hostVars, contID, lastRecv, dirty, asks, restarts, dialed, ws, relayVars>>
        <5>1. phoneChan' = 0 \/ phoneChan' = phoneChan
          BY <4>2 DEF PhoneShakes
        <5> QED
          BY <4>2, <5>1
      <4> QED
        BY <3>1, <4>1, <4>2 DEF PhoneConnects
    <3>2. CASE PhoneReshakes
      BY <3>2 DEF PhoneReshakes, PhoneShakes
    <3>3. CASE PhoneDetaches \/ PhoneHangsUp \/ PhoneRestarts
      BY <3>3 DEF PhoneDetaches, PhoneHangsUp, PhoneRestarts
    <3>4. CASE PhoneIgnores \/ PhoneAttaches \/ PhoneApplies
      BY <3>4 DEF PhoneIgnores, PhoneAttaches, PhoneApplies, phoneVars
    <3>5. CASE PhoneAcks \/ PhoneAsks
      <4>1. ws' = ws /\ UNCHANGED relayVars /\ \E f : PhoneSends(f)
        BY <3>5 DEF PhoneAcks, PhoneAsks
      <4>2. phoneChan' = 0 \/ phoneChan' = phoneChan
        BY <4>1 DEF PhoneSends
      <4> QED
        BY <4>1, <4>2
    <3> QED
      BY <3>1, <3>2, <3>3, <3>4, <3>5 DEF PhoneNext
  <2> QED
    BY <2>1, <2>2, <2>3, <2>4, <2>5
<1>6. UNCHANGED relayVars /\ ws' = ws => (Connected("phone")' => Connected("phone"))
  BY DEF Connected, Holds, relayVars
<1> QED
  BY <1>2, <1>4, <1>5, <1>6, SocketsStay DEF Sockets

(* Every step keeps the sockets in mind.                                   *)
LEMMA NextSockets ==
  ASSUME Sane, Registered, Sockets, Talk', [Next]_vars
  PROVE  Sockets'
<1>1. CASE UNCHANGED vars
  <2>1. UNCHANGED netVars /\ UNCHANGED hostVars /\ UNCHANGED phoneVars
    BY <1>1 DEF vars
  <2>2. hostChan' = hostChan /\ phoneChan' = phoneChan /\ UNCHANGED <<ws, relayVars>>
    BY <2>1 DEF netVars, hostVars, phoneVars
  <2>3. \A k \in 1 .. MaxConns : InHand("host", k)' = InHand("host", k) /\ held'[<<"host", k>>] = held[<<"host", k>>]
    BY <2>2 DEF InHand, relayVars
  <2>4. Connected("phone")' => Connected("phone")
    BY <2>2 DEF Connected, Holds, relayVars
  <2> QED
    BY <2>2, <2>3, <2>4, SocketsStay DEF Sockets
<1> QED
  BY <1>1, RelaySockets, HostSockets, PhoneSockets DEF Next

(* Without a channel the phone waits for no line.                          *)
LEMMA VoidOrder ==
  ASSUME phoneChan' = 0
  PROVE  Order'
BY DEF Order

(* The host reads, and writes nothing.                                     *)
LEMMA HostReadsOrder ==
  ASSUME Sane, Order, IInv', NEW kind, Reads("host", kind) \/ (ReadsOk("host") /\ kind = "ok"),
         UNCHANGED <<relayVars, up, ws, phoneChan, phoneAtt, lastRecv>>,
         hostChan' = 0 \/ UNCHANGED <<hostChan, hostAtt, app, emitted>>
  PROVE  Order'
<1>1. ToPhone' \subseteq ToPhone
  BY JustReads, Directions
<1>2. down' = [down EXCEPT !["host"] = Tail(@)] /\ down \in [Side -> Seq(Msg)]
  BY Types DEF Reads, ReadsOk, Sane, IInv, QueueTypes
<1>3. down'["phone"] = down["phone"]
  BY <1>2 DEF Side
<1>4. \A k \in 1 .. MaxConns : PipeStays("host", k)
  BY DEF PipeStays, InHand, relayVars
<1>5. (Connected("phone")' => Connected("phone")) /\ (Connected("host")' => Connected("host"))
  BY DEF Connected, Holds, relayVars
<1> QED
  BY <1>1, <1>3, <1>4, <1>5, IdleOrder

(* The host dials, or it is gone.                                          *)
LEMMA HostDialsOrder ==
  ASSUME Sane, Registered, Sockets, Order, IInv', Dial("host"), UNCHANGED <<hostVars, phoneVars>>
  PROVE  Order'
<1>1. /\ ToPhone' \subseteq ToPhone /\ down' = down /\ up' = up /\ hostChan' = 0
      /\ UNCHANGED <<phoneChan, phoneAtt, lastRecv>>
  BY SocketFlow, Directions DEF Dial, Sockets, hostVars, phoneVars
<1>2. Connected("phone")' => Connected("phone")
  BY DialPhases, Directions DEF Sane
<1>3. ASSUME NEW k \in 1 .. MaxConns PROVE PipeStays("host", k)
  <2> DEFINE c == <<"host", k>>
             d == <<"host", dialed["host"] + 1>>
             y == [msg |-> Note("ok", "host" = "phone" /\ registered["host"] # 0), dest |-> 0]
  <2>1. /\ phase \in [Conn -> Phase] /\ held \in [Conn -> [msg : Msg, dest : 0 .. MaxConns]] /\ c \in Conn
        /\ phase' = [phase EXCEPT ![d] = "greeting"] /\ held' = [held EXCEPT ![d] = y]
    BY Types DEF Sane, IInv, RestTypes, Dial, Conn, Side
  <2>2. c = d => phase[c] = "none"
    <3>1. dialed["host"] \in Nat
      BY Types, ConnsAssumption DEF Sane, IInv, RestTypes, Side
    <3>2. c = d => k > dialed["host"]
      BY <3>1
    <3> QED
      BY <3>2, Directions DEF Registered
  <2> HIDE DEF y, d
  <2>3. CASE c = d
    <3>1. phase'[c] = "greeting" /\ phase[c] = "none"
      BY <2>1, <2>2, <2>3
    <3> QED
      BY <1>1, <3>1 DEF PipeStays, InHand
  <2>4. CASE c # d
    <3>1. phase'[c] = phase[c] /\ held'[c] = held[c]
      BY <2>1, <2>4
    <3> QED
      BY <1>1, <3>1 DEF PipeStays, InHand
  <2> QED
    BY <2>3, <2>4
<1> QED
  BY <1>1, <1>2, <1>3, IdleOrder

(* The host loses its socket or starts anew.                               *)
LEMMA HostHangsUpOrder ==
  ASSUME Sane, Order, IInv', HangUp("host"), hostChan' = 0, UNCHANGED phoneVars
  PROVE  Order'
<1>1. /\ ToPhone' \subseteq ToPhone /\ UNCHANGED relayVars /\ up' = up
      /\ UNCHANGED <<phoneChan, phoneAtt, lastRecv>>
  BY SocketFlow, Directions DEF HangUp, phoneVars, relayVars
<1>2. down'["phone"] = down["phone"] /\ ws'["phone"] = ws["phone"]
  <2>1. down \in [Side -> Seq(Msg)] /\ ws \in [Side -> 0 .. MaxConns]
    BY Types DEF Sane, IInv, QueueTypes, RestTypes
  <2> QED
    BY <2>1 DEF HangUp, Side
<1>3. Connected("phone")' => Connected("phone")
  BY <1>1, <1>2 DEF Connected, Holds, relayVars
<1>4. \A k \in 1 .. MaxConns : PipeStays("host", k)
  BY <1>1 DEF PipeStays, InHand, relayVars
<1> QED
  BY <1>1, <1>2, <1>3, <1>4, IdleOrder

(* The host reads what changes nothing, or leaves.                         *)
LEMMA HostIdleOrder ==
  ASSUME Sane, Registered, Sockets, Order, IInv',
         HostConnects \/ HostIgnores \/ HostForwards \/ HostTrims \/ HostDetaches \/ HostHangsUp \/ HostRestarts
  PROVE  Order'
<1>1. CASE Dial("host") /\ UNCHANGED <<hostVars, phoneVars, restarts>>
  BY <1>1, HostDialsOrder
<1>2. CASE ReadsOk("host") /\ UNCHANGED <<hostVars, phoneVars, restarts, dialed, ws, relayVars, up>>
  <2>1. /\ UNCHANGED <<relayVars, up, ws, phoneChan, phoneAtt, lastRecv>>
        /\ UNCHANGED <<hostChan, hostAtt, app, emitted>>
    BY <1>2 DEF hostVars, phoneVars
  <2> QED
    BY <1>2, <2>1, HostReadsOrder
<1>3. CASE HostIgnores \/ HostForwards \/ HostTrims \/ HostDetaches
  <2>1. \E kind : Reads("host", kind)
    BY <1>3 DEF HostIgnores, HostForwards, HostTrims, HostDetaches, HostOpens
  <2>2. /\ UNCHANGED <<relayVars, up, ws, phoneChan, phoneAtt, lastRecv>>
        /\ hostChan' = 0 \/ UNCHANGED <<hostChan, hostAtt, app, emitted>>
    BY <1>3 DEF HostIgnores, HostForwards, HostTrims, HostDetaches, hostVars, phoneVars
  <2> QED
    BY <2>1, <2>2, HostReadsOrder
<1>4. CASE HostHangsUp \/ HostRestarts
  BY <1>4, HostHangsUpOrder DEF HostHangsUp, HostRestarts
<1> QED
  BY <1>1, <1>2, <1>3, <1>4 DEF HostConnects

(* The phone sends.                                                        *)
LEMMA PhoneWritesOrder ==
  ASSUME Sane, Order, IInv', PhoneAcks \/ PhoneAsks
  PROVE  Order'
<1>1. /\ UNCHANGED <<relayVars, ws, down, lastRecv>> /\ UNCHANGED hostVars
      /\ phoneAtt /\ \E f : PhoneSends(f)
  BY DEF PhoneAcks, PhoneAsks
<1>2. PICK f : PhoneSends(f)
  BY <1>1
<1>3. CASE phoneChan' = 0
  BY <1>3, VoidOrder
<1>4. CASE phoneChan' # 0
  <2>1. up' = Written("phone", <<f>>) /\ UNCHANGED <<phoneChan, phoneAtt>>
    <3>1. PICK failed \in WriteErr("phone") :
            /\ up' = Written("phone", <<f>>) /\ phoneChan' = (IF failed THEN 0 ELSE phoneChan)
            /\ phoneAtt' = (phoneAtt /\ ~failed)
      BY <1>2 DEF PhoneSends
    <3>2. ~failed
      BY <1>4, <3>1
    <3>3. phoneAtt'
      BY <3>1, <3>2, <1>1
    <3>4. phoneAtt' \in BOOLEAN /\ phoneAtt \in BOOLEAN
      BY Types DEF Sane, IInv, TypeOK
    <3>5. phoneAtt' = phoneAtt
      BY <1>1, <3>3, <3>4
    <3> QED
      BY <3>1, <3>2, <3>5
  <2>2. \A k \in 1 .. MaxConns : up'[<<"host", k>>] = up[<<"host", k>>]
    <3>1. up \in [Conn -> Seq(Msg)]
      BY Types DEF Sane, IInv, QueueTypes
    <3>2. \A k \in 1 .. MaxConns : <<"host", k>> \in Conn /\ <<"host", k>> # <<"phone", ws["phone"]>>
      BY DEF Conn, Side
    <3> QED
      BY <2>1, <3>1, <3>2 DEF Written
  <2>3. \A k \in 1 .. MaxConns : PipeStays("host", k)
    BY <1>1, <2>2 DEF PipeStays, InHand, relayVars
  <2>4. ToPhone' \subseteq ToPhone
    <3>1. \A m \in ToPhone' : m \in ToPhone
      <4> TAKE m \in ToPhone'
      <4>1. /\ m.kind \notin NoteKind
            /\ m \in Elems(down'["phone"]) \/ \E k \in 1 .. MaxConns : m \in Pipe("host", k)'
        BY FlightPlacesNext, Directions
      <4>2. \A k \in 1 .. MaxConns : Pipe("host", k)' = Pipe("host", k)
        BY <2>3, PipeNext DEF Pipe, PipeStays
      <4> QED
        BY <1>1, <4>1, <4>2, FlightPlaces, Directions
    <3> QED
      BY <3>1
  <2>5. (Connected("phone")' => Connected("phone")) /\ (Connected("host")' => Connected("host"))
    BY <1>1 DEF Connected, Holds, relayVars
  <2>6. down'["phone"] = down["phone"] /\ UNCHANGED <<hostChan, hostAtt, app, emitted>> /\ ws'["host"] = ws["host"]
    BY <1>1 DEF hostVars
  <2> QED
    BY <1>1, <2>1, <2>3, <2>4, <2>5, <2>6, IdleOrder
<1> QED
  BY <1>3, <1>4

(* What the phone is given to read, and what it makes of it.               *)
LEMMA PhoneReadsOrder ==
  ASSUME Sane, Order, NEW kind, Reads("phone", kind) \/ (ReadsOk("phone") /\ kind = "ok"),
         UNCHANGED <<relayVars, up, ws, phoneChan>>, UNCHANGED hostVars,
         phoneAtt => phoneAtt', Base' \in Nat, Base <= Base',
         Opening(Head(down["phone"]), phoneChan) => phoneAtt',
         Line(Head(down["phone"]), phoneChan) => Head(down["phone"]).n <= Base'
  PROVE  Order'
<1>1. down["phone"] # <<>> /\ down' = [down EXCEPT !["phone"] = Tail(@)]
  BY DEF Reads, ReadsOk
<1>2. TakesIn("host")
  BY <1>1, ReadShape, Directions DEF Sane
<1>3. UNCHANGED <<relayVars, ws, hostChan, hostAtt, app, emitted, phoneChan>>
  BY DEF hostVars
<1> QED
  BY <1>2, <1>3, ReadOrder

(* What it has no need of.                                                 *)
LEMMA PhoneSkipsOrder ==
  ASSUME Sane, Order, IInv', NEW kind, Reads("phone", kind) \/ (ReadsOk("phone") /\ kind = "ok"),
         UNCHANGED <<relayVars, up, ws, phoneChan, phoneAtt, lastRecv>>, UNCHANGED hostVars,
         kind \in {"attached", "rpc"} => Head(down["phone"]).chan # phoneChan
  PROVE  Order'
<1>1. ToPhone' \subseteq ToPhone /\ Head(down["phone"]).kind = kind
  BY JustReads, Directions
<1>2. lastRecv' >= lastRecv
  BY Types DEF Sane, IInv, PhoneTypes
<1>3. Base' \in Nat /\ Base <= Base'
  BY <1>1, <1>2, BaseGrows DEF Sane
<1>4. ~Opening(Head(down["phone"]), phoneChan) /\ ~Line(Head(down["phone"]), phoneChan)
  BY <1>1 DEF Opening, Line
<1> QED
  BY <1>3, <1>4, PhoneReadsOrder

(* While an attached phone has its channel no answer to an attach is on    *)
(* its way.                                                                *)
LEMMA AttachedBase ==
  ASSUME Talk, phoneAtt
  PROVE  Base = lastRecv
BY DEF Talk, Answered, Opening, Base

(* The line an attached phone reads is one it has or the next one, and a   *)
(* phone that is not attached reads none.                                  *)
LEMMA NextLine ==
  ASSUME Sane, Order, PhoneApplies
  PROVE  phoneAtt /\ Head(down["phone"]).n <= lastRecv + 1 /\ Head(down["phone"]) \in ToPhone
<1> DEFINE D == down["phone"]
           m == Head(D)
<1>1. Reads("phone", "rpc") /\ m.chan = phoneChan /\ UNCHANGED <<relayVars, up>>
  BY DEF PhoneApplies, PhoneOpens
<1>2. m.kind = "rpc" /\ m \in ToPhone
  <2>1. "rpc" \notin NoteKind
    BY DEF NoteKind
  <2> QED
    BY <1>1, <2>1, JustReads, Directions
<1>3. D \in Seq(Msg) /\ D # <<>> /\ Base \in Nat
  BY <1>1, ToPhoneTyped DEF Sane, Reads
<1>4. m \in Msg /\ m.n \in Nat
  BY <1>2, FrameFields DEF Sane
<1> HIDE DEF m
<1>5. phoneChan # 0
  BY <1>1, <1>2 DEF Sane, Talk, Bounds
<1>6. Ready(m, {}, phoneChan, phoneAtt, Base)
  <2>1. QueueReady(D, {}, phoneChan, phoneAtt, Base)
    BY <1>5 DEF Order, InQueue
  <2> HIDE DEF D
  <2>2. Ready(Head(D), {}, phoneChan, phoneAtt, Base)
    BY <1>3, <2>1, QueueReadyTail
  <2> QED
    BY <2>2 DEF m
<1>7. Complete({}, m.n - 1, phoneChan, phoneAtt, Base)
  BY <1>1, <1>2, <1>6 DEF Ready, Line
<1>8. phoneAtt /\ \A i \in Base + 1 .. m.n - 1 : FALSE
  BY <1>7 DEF Complete
<1>9. Base = lastRecv
  BY <1>8, AttachedBase DEF Sane
<1>10. m.n <= lastRecv + 1
  <2>1. m.n > lastRecv + 1 => lastRecv + 1 \in Base + 1 .. m.n - 1
    BY <1>3, <1>4, <1>9
  <2> QED
    BY <1>3, <1>4, <1>8, <1>9, <2>1
<1> QED
  BY <1>2, <1>8, <1>10 DEF m

(* The phone counts the line it applies.                                   *)
LEMMA PhoneAppliesOrder ==
  ASSUME Sane, Order, IInv', PhoneApplies
  PROVE  Order'
<1> DEFINE m == Head(down["phone"])
<1>1. /\ Reads("phone", "rpc") /\ UNCHANGED <<relayVars, up, ws, phoneChan, phoneAtt>> /\ UNCHANGED hostVars
      /\ IF phoneAtt /\ m.n > lastRecv THEN lastRecv' = m.n ELSE lastRecv' = lastRecv
  BY DEF PhoneApplies, PhoneOpens
<1>2. phoneAtt /\ m.n <= lastRecv + 1 /\ m \in ToPhone
  BY NextLine
<1>3. m.n \in Nat /\ lastRecv \in Nat
  BY <1>2, FrameFields, Types DEF Sane, IInv, PhoneTypes
<1>4. ToPhone' \subseteq ToPhone /\ m.kind = "rpc"
  BY <1>1, JustReads, Directions
<1>5. Base = lastRecv
  BY <1>2, AttachedBase DEF Sane
<1> HIDE DEF m
<1>6. ~\E a \in ToPhone' : Opening(a, phoneChan)
  BY <1>2, <1>4 DEF Sane, Talk, Answered, Opening
<1>7. Base' = lastRecv'
  <2>1. Base' = IF \E a \in ToPhone' : Opening(a, phoneChan') /\ ~a.yes THEN 0 ELSE lastRecv'
    BY DEF Base, Opening
  <2> QED
    BY <1>1, <1>6, <2>1
<1>8. Base' \in Nat /\ Base <= Base' /\ m.n <= Base'
  BY <1>1, <1>2, <1>3, <1>5, <1>7
<1>9. phoneAtt'
  BY <1>1, <1>2
<1> QED
  BY <1>1, <1>8, <1>9, PhoneReadsOrder DEF m

(* The answer to its attach tells the phone where to count from.           *)
LEMMA PhoneAttachesOrder ==
  ASSUME Sane, Order, IInv', PhoneAttaches
  PROVE  Order'
<1> DEFINE m == Head(down["phone"])
<1>1. /\ Reads("phone", "attached") /\ m.chan = phoneChan
      /\ lastRecv' = IF ~m.yes \/ contID = 0 \/ m.sess # contID THEN 0 ELSE lastRecv
      /\ phoneAtt' = TRUE
      /\ UNCHANGED <<relayVars, up, ws, phoneChan>> /\ UNCHANGED hostVars
  BY DEF PhoneAttaches, PhoneOpens
<1>2. /\ ToPhone' \subseteq ToPhone /\ m.kind = "attached" /\ m \in ToPhone /\ Apart({m}, ToPhone')
  <2>1. "attached" \notin NoteKind
    BY DEF NoteKind
  <2> QED
    BY <1>1, <2>1, JustReads, Directions
<1>3. lastRecv \in Nat /\ lastRecv' \in Nat
  BY Types DEF Sane, IInv, PhoneTypes, TypeOK
<1> HIDE DEF m
<1>4. ~\E a \in ToPhone' : Opening(a, phoneChan)
  BY <1>1, <1>2 DEF Apart, Twin, Opening
<1>5. Base' = lastRecv'
  <2>1. Base' = IF \E a \in ToPhone' : Opening(a, phoneChan') /\ ~a.yes THEN 0 ELSE lastRecv'
    BY DEF Base, Opening
  <2> QED
    BY <1>1, <1>4, <2>1
<1>6. Base <= Base'
  <2>1. CASE m.yes
    <3>1. m.sess = contID /\ m.sess # 0
      BY <1>1, <1>2, <2>1 DEF Sane, Talk, Answered
    <3>2. lastRecv' = lastRecv
      BY <1>1, <2>1, <3>1
    <3> QED
      BY <1>3, <1>5, <3>2 DEF Base
  <2>2. CASE ~m.yes
    <3>1. Opening(m, phoneChan)
      BY <1>1, <1>2 DEF Opening
    <3>2. Base = 0
      BY <1>2, <2>2, <3>1 DEF Base
    <3> QED
      BY <1>3, <1>5, <3>2
  <2> QED
    BY <2>1, <2>2
<1>7. ~Line(m, phoneChan) /\ Base' \in Nat
  BY <1>2, <1>3, <1>5 DEF Line
<1>8. phoneAtt'
  BY <1>1
<1> QED
  BY <1>1, <1>6, <1>7, <1>8, PhoneReadsOrder DEF m

(* On a channel just made no line is under way.                            *)
LEMMA PhoneCompletesOrder ==
  ASSUME Sane, Order, IInv', PhoneCompletes
  PROVE  Order'
<1> DEFINE m == Head(down["phone"])
           f == Frame("attach", m.chan, contID, lastRecv, FALSE)
<1>1. /\ Reads("phone", "hs2") /\ UNCHANGED <<relayVars, ws, contID, lastRecv>> /\ UNCHANGED hostVars
  BY DEF PhoneCompletes
<1>2. CASE pending # 0 /\ pending = m.chan
  <2>1. phoneChan' \in {0, pending} /\ up' = Written("phone", <<f>>)
    BY <1>2 DEF PhoneCompletes
  <2>2. f \in Msg
    BY <1>1, PhoneMessage, Types DEF Sane, IInv, PhoneTypes, Frame, Msg, Kind
  <2> HIDE DEF f, m
  <2>3. ToPhone' \subseteq ToPhone
    BY <1>1, <2>1, <2>2, OneFrame, DeviceReads, Directions
  <2>4. CASE phoneChan' = 0
    BY <2>4, VoidOrder
  <2>5. CASE phoneChan' = pending
    <3>1. \A x \in ToPhone' : ~Line(x, phoneChan')
      BY <1>2, <2>3, <2>5 DEF Line, Sane, Talk, Ends
    <3>2. ~Sharing'
      <4>1. Sharing' => hostAtt' /\ hostChan' = phoneChan'
        BY DEF Sharing
      <4> QED
        BY <1>1, <1>2, <2>5, <4>1 DEF Sane, Talk, Ends, hostVars
    <3> QED
      BY <3>1, <3>2, BlankOrder
  <2> QED
    BY <2>1, <2>4, <2>5
<1>3. CASE ~(pending # 0 /\ pending = m.chan)
  <2>1. UNCHANGED <<phoneChan, phoneAtt, up>>
    BY <1>3 DEF PhoneCompletes
  <2> QED
    BY <1>1, <2>1, PhoneSkipsOrder
<1> QED
  BY <1>2, <1>3

(* All steps of the phone.                                                 *)
LEMMA PhoneOrder ==
  ASSUME Sane, Sockets, Order, IInv', PhoneNext \/ PhoneAcks \/ PhoneAsks \/ PhoneRestarts
  PROVE  Order'
<1>1. CASE PhoneConnects
  <2>1. CASE Dial("phone") /\ UNCHANGED <<hostVars, phoneVars, restarts>>
    <3>1. phoneChan' = 0
      BY <2>1 DEF Dial, phoneVars, Sockets
    <3> QED
      BY <3>1, VoidOrder
  <2>2. CASE /\ ReadsOk("phone")
             /\ IF Head(down["phone"]).yes
                THEN PhoneShakes ELSE UNCHANGED <<pending, phoneChan, phoneAtt, shakes, up>>
             /\ UNCHANGED <<hostVars, contID, lastRecv, dirty, asks, restarts, dialed, ws, relayVars>>
    <3>1. CASE PhoneShakes
      BY <3>1, VoidOrder DEF PhoneShakes
    <3>2. CASE UNCHANGED <<pending, phoneChan, phoneAtt, shakes, up>>
      BY <2>2, <3>2, PhoneSkipsOrder
    <3> QED
      BY <2>2, <3>1, <3>2
  <2> QED
    BY <1>1, <2>1, <2>2 DEF PhoneConnects
<1>2. CASE PhoneReshakes \/ PhoneDetaches \/ PhoneHangsUp \/ PhoneRestarts
  <2>1. phoneChan' = 0
    BY <1>2 DEF PhoneReshakes, PhoneShakes, PhoneDetaches, PhoneHangsUp, PhoneRestarts
  <2> QED
    BY <2>1, VoidOrder
<1>3. CASE PhoneIgnores
  <2>1. PICK kind \in {"attached", "rpc"} : Reads("phone", kind)
    BY <1>3 DEF PhoneIgnores
  <2>2. /\ Head(down["phone"]).chan # phoneChan
        /\ UNCHANGED <<relayVars, up, ws, phoneChan, phoneAtt, lastRecv>> /\ UNCHANGED hostVars
    BY <1>3 DEF PhoneIgnores, phoneVars
  <2> QED
    BY <2>1, <2>2, PhoneSkipsOrder
<1> QED
  BY <1>1, <1>2, <1>3, PhoneCompletesOrder, PhoneAttachesOrder, PhoneAppliesOrder, PhoneWritesOrder DEF PhoneNext

(* What the host writes, at once with a read or not.                       *)
LEMMA HostPuts ==
  ASSUME Sane, UNCHANGED relayVars, NEW frames \in Seq(Msg), up' = Written("host", frames),
         down' = down \/ \E kind : Reads("host", kind)
  PROVE  PutsIn("host", frames) /\ ToPhone' \subseteq ToPhone \cup Elems(frames)
<1>1. CASE down' = down
  <2>1. PutsIn("host", frames)
    BY <1>1, WriteShape, Directions DEF Sane
  <2>2. ToPhone' \subseteq ToPhone \cup Elems(frames)
    BY <1>1, DeviceWrites, Directions
  <2> QED
    BY <2>1, <2>2
<1>2. CASE \E kind : Reads("host", kind)
  <2>1. PICK kind : Reads("host", kind)
    BY <1>2
  <2>2. down["host"] # <<>> /\ down' = [down EXCEPT !["host"] = Tail(@)]
    BY <2>1 DEF Reads
  <2>3. PutsIn("host", frames)
    BY <2>2, ReadShape, Directions DEF Sane
  <2>4. ToPhone' \subseteq ToPhone \cup Elems(frames)
    BY <2>1, DeviceReads, Directions
  <2> QED
    BY <2>3, <2>4
<1> QED
  BY <1>1, <1>2

(* The phone counts from no earlier line for what the host writes, unless  *)
(* it is the answer that gives it a fresh session.                         *)
LEMMA HostWritesBase ==
  ASSUME Sane, IInv', UNCHANGED <<phoneChan, lastRecv>>, NEW frames,
         ToPhone' \subseteq ToPhone \cup Elems(frames),
         \A x \in Elems(frames) : Opening(x, phoneChan) => x.yes
  PROVE  Base \in Nat /\ Base' \in Nat /\ Base <= Base'
<1>1. lastRecv' >= lastRecv
  BY Types DEF Sane, IInv, PhoneTypes
<1>2. \A x \in ToPhone' : Opening(x, phoneChan) /\ ~x.yes => x \in ToPhone
  OBVIOUS
<1> QED
  BY <1>1, <1>2, BaseGrows DEF Sane

(* Frames that are no lines on the phone's channel, while the two do not   *)
(* share one.                                                              *)
LEMMA HostWritesOther ==
  ASSUME Sane, Order, IInv', UNCHANGED <<relayVars, ws, phoneChan, phoneAtt, lastRecv>>,
         NEW frames \in Seq(Msg), up' = Written("host", frames), down' = down \/ \E kind : Reads("host", kind),
         \A x \in Elems(frames) : ~Line(x, phoneChan) /\ ~Opening(x, phoneChan),
         phoneChan # 0 => ~Sharing'
  PROVE  Order'
<1>1. PutsIn("host", frames) /\ ToPhone' \subseteq ToPhone \cup Elems(frames)
  BY HostPuts
<1>2. Base' \in Nat /\ Base <= Base'
  BY <1>1, HostWritesBase
<1>3. QueueReady(frames, Elems(down["phone"]) \cup Pipe("host", ws["host"]), phoneChan, phoneAtt, Base')
  BY NoLines
<1>4. CASE phoneChan = 0
  BY <1>4, VoidOrder
<1>5. CASE phoneChan # 0
  BY <1>1, <1>2, <1>3, <1>5, WriteOrder
<1> QED
  BY <1>4, <1>5

(* The answer to a handshake is no line.                                   *)
LEMMA HostShakesOrder ==
  ASSUME Sane, Order, IInv', HostShakes
  PROVE  Order'
<1> DEFINE h == Head(down["host"]).chan
           f == Frame("hs2", h, 0, 0, FALSE)
<1>1. /\ Reads("host", "hs1") /\ HostSends(h, FALSE, <<f>>)
      /\ UNCHANGED <<relayVars, ws, phoneChan, phoneAtt, lastRecv>>
  BY DEF HostShakes, phoneVars
<1>2. f \in Msg /\ f.kind = "hs2"
  BY <1>1, HostMessage DEF Sane, IInv, Frame, Msg, Kind
<1> HIDE DEF f
<1>3. up' = Written("host", <<f>>) /\ hostAtt' = FALSE
  BY <1>1, HostChannel
<1>4. <<f>> \in Seq(Msg) /\ Elems(<<f>>) = {f}
  BY <1>2, OneFrame
<1>5. \A x \in Elems(<<f>>) : ~Line(x, phoneChan) /\ ~Opening(x, phoneChan)
  BY <1>2, <1>4 DEF Line, Opening
<1>6. ~Sharing'
  <2>1. Sharing' => hostAtt'
    BY DEF Sharing
  <2> QED
    BY <1>3, <2>1
<1> QED
  BY <1>1, <1>3, <1>4, <1>5, <1>6, HostWritesOther

(* A line follows the one before it, or only enters the spool.             *)
LEMMA HostEmitsOrder ==
  ASSUME Sane, Order, IInv', HostEmits
  PROVE  Order'
<1> DEFINE f == Frame("rpc", hostChan, app, emitted[app] + 1, FALSE)
           X == Elems(down["phone"]) \cup Pipe("host", ws["host"])
<1>1. /\ app # 0 /\ UNCHANGED <<relayVars, ws, down, app, phoneChan, phoneAtt, lastRecv>>
      /\ emitted' = [emitted EXCEPT ![app] = @ + 1]
      /\ IF hostAtt /\ hostChan # 0
         THEN HostSends(hostChan, hostAtt, <<f>>) ELSE UNCHANGED <<up, hostChan, hostAtt>>
  BY DEF HostEmits, phoneVars
<1>2. HostTypes /\ app \in Session /\ emitted[app] \in Nat /\ app \in Nat /\ hostChan \in Nat /\ hostAtt \in BOOLEAN
  BY <1>1, Types, LinkAssumption DEF Sane, IInv, HostTypes, Session
<1>3. f \in Msg /\ f.kind = "rpc" /\ f.chan = hostChan /\ f.n = emitted[app] + 1
  BY <1>2 DEF Frame, Msg, Kind
<1>4. emitted'[app'] = emitted[app] + 1
  BY <1>1, <1>2 DEF HostTypes
<1> HIDE DEF f, X
<1>5. <<f>> \in Seq(Msg) /\ Elems(<<f>>) = {f} /\ Len(<<f>>) = 1 /\ <<f>>[1] = f
  BY <1>3, OneFrame
<1>6. CASE ~(hostAtt /\ hostChan # 0)
  <2>1. up' = up /\ hostChan' = hostChan /\ hostAtt' = hostAtt
    BY <1>1, <1>6
  <2>2. hostChan' = 0 \/ ~hostAtt'
    BY <1>6, <2>1
  <2>3. \A k \in 1 .. MaxConns : PipeStays("host", k)
    BY <1>1, <2>1 DEF PipeStays, InHand, relayVars
  <2>4. ToPhone' \subseteq ToPhone
    <3>1. <<>> \in Seq(Msg) /\ Elems(<<>>) = {}
      BY NoElems
    <3> QED
      BY <1>1, <2>1, <3>1, DeviceWrites, Directions
  <2>5. Connected("phone")' => Connected("phone")
    BY <1>1 DEF Connected, Holds, relayVars
  <2> QED
    BY <1>1, <2>2, <2>3, <2>4, <2>5, IdleOrder
<1>7. CASE hostAtt /\ hostChan # 0
  <2>1. /\ up' = Written("host", <<f>>)
        /\ (hostChan' = hostChan /\ hostAtt' = hostAtt) \/ (hostChan' = 0 /\ hostAtt' = FALSE)
    BY <1>1, <1>2, <1>7, HostChannel
  <2>2. CASE hostChan # phoneChan
    <3>1. \A x \in Elems(<<f>>) : ~Line(x, phoneChan) /\ ~Opening(x, phoneChan)
      BY <1>3, <1>5, <2>2 DEF Line, Opening
    <3>2. phoneChan # 0 => ~Sharing'
      BY <1>1, <2>1, <2>2 DEF Sharing
    <3> QED
      BY <1>1, <1>5, <2>1, <3>1, <3>2, HostWritesOther
  <2>3. CASE hostChan = phoneChan
    <3>1. PutsIn("host", <<f>>) /\ ToPhone' \subseteq ToPhone \cup Elems(<<f>>)
      BY <1>1, <1>5, <2>1, HostPuts
    <3>2. Base \in Nat /\ Base' \in Nat /\ Base <= Base'
      <4>1. \A x \in Elems(<<f>>) : Opening(x, phoneChan) => x.yes
        BY <1>3, <1>5 DEF Opening
      <4> QED
        BY <1>1, <3>1, <4>1, HostWritesBase
    <3>3. ASSUME Connected("phone"), Connected("host") PROVE Complete(X, emitted[app], phoneChan, phoneAtt, Base')
      <4>1. Complete(X, emitted[app], phoneChan, phoneAtt, Base)
        BY <1>7, <2>3, <3>3 DEF Order, InFull, Sharing, X
      <4>2. emitted[app] \in Int /\ Covers(X, X, phoneChan, phoneAtt, Base')
        BY <1>2, CoversMore
      <4> QED
        BY <3>2, <4>1, <4>2, CompleteKept
    <3>4. ASSUME Connected("phone"), Connected("host") PROVE QueueReady(<<f>>, X, phoneChan, phoneAtt, Base')
      <4>1. QueueReady(<<>>, X, phoneChan, phoneAtt, Base') /\ <<>> \in Seq(Msg) /\ Elems(<<>>) = {}
        BY NoLines, NoElems
      <4>2. Ready(f, X \cup {}, phoneChan, phoneAtt, Base')
        <5>1. f.n - 1 = emitted[app] /\ X \cup {} = X
          BY <1>2, <1>3
        <5> QED
          BY <3>3, <3>4, <5>1 DEF Ready
      <4>3. QueueReady(Append(<<>>, f), X, phoneChan, phoneAtt, Base')
        BY <1>3, <4>1, <4>2, QueueReadyAppend
      <4>4. Append(<<>>, f) = <<f>>
        OBVIOUS
      <4> QED
        BY <4>3, <4>4
    <3>5. ASSUME Sharing' PROVE Complete(X \cup Elems(<<f>>), emitted'[app'], phoneChan, phoneAtt, Base')
      <4>1. Connected("phone") /\ Connected("host")
        BY <1>1, <3>5 DEF Sharing, Connected, Holds, relayVars
      <4>2. Complete(X, emitted[app], phoneChan, phoneAtt, Base')
        BY <3>3, <4>1
      <4>3. Line(f, phoneChan) /\ f.n = emitted[app] + 1 /\ f \in X \cup Elems(<<f>>)
        BY <1>3, <1>5, <2>3 DEF Line
      <4>4. \A i \in Base' + 1 .. emitted[app] + 1 : i \in Base' + 1 .. emitted[app] \/ i = emitted[app] + 1
        <5>1. \A b, e \in Nat : \A i \in b + 1 .. e + 1 : i \in b + 1 .. e \/ i = e + 1
          OBVIOUS
        <5> QED
          BY <1>2, <3>2, <5>1, Zenon
      <4>5. \A i \in Base' + 1 .. emitted[app] : \E x \in X : Line(x, phoneChan) /\ x.n = i
        BY <4>2 DEF Complete
      <4>6. phoneAtt \/ \E x \in X : Opening(x, phoneChan)
        BY <4>2 DEF Complete
      <4>7. \A i \in Base' + 1 .. emitted[app] + 1 : \E x \in X \cup Elems(<<f>>) : Line(x, phoneChan) /\ x.n = i
        <5> TAKE i \in Base' + 1 .. emitted[app] + 1
        <5>1. CASE i = emitted[app] + 1
          BY <4>3, <5>1
        <5>2. CASE i \in Base' + 1 .. emitted[app]
          BY <4>5, <5>2
        <5> QED
          BY <4>4, <5>1, <5>2
      <4> QED
        BY <1>4, <4>6, <4>7 DEF Complete
    <3>6. CASE phoneChan = 0
      BY <1>1, <3>6, VoidOrder
    <3> QED
      BY <1>1, <1>5, <3>1, <3>2, <3>4, <3>5, WriteOrder DEF X
  <2> QED
    BY <2>2, <2>3
<1> QED
  BY <1>6, <1>7

(* A resumption is in order in itself: the answer, and the lines after the *)
(* last one the phone applied.                                             *)
LEMMA ResumptionReady ==
  ASSUME NEW chan \in Nat, NEW sess \in Nat, NEW replay \in Seq(Nat), NEW n \in Nat, NEW k \in Nat, n <= k,
         replay = [i \in 1 .. k - n |-> n + i], NEW X, NEW att
  PROVE  LET frames == Resumption(chan, sess, replay) IN
         /\ QueueReady(frames, X, chan, att, n)
         /\ Complete(X \cup Elems(frames), k, chan, att, n)
<1> DEFINE frames == Resumption(chan, sess, replay)
<1>1. /\ frames \in Seq(Msg) /\ Len(frames) = Len(replay) + 1
      /\ frames[1] = Frame("attached", chan, sess, 0, TRUE)
      /\ \A i \in 2 .. Len(frames) : frames[i] = Frame("rpc", chan, sess, replay[i - 1], FALSE)
  BY ResumptionFrames
<1>2. k - n \in Nat /\ Len(replay) = k - n /\ \A i \in 1 .. k - n : replay[i] = n + i
  <2>1. k - n \in Nat
    OBVIOUS
  <2> DEFINE d == k - n
  <2> HIDE DEF d
  <2>2. d \in Nat /\ replay = [i \in 1 .. d |-> n + i]
    BY <2>1 DEF d
  <2>3. DOMAIN replay = 1 .. d
    BY <2>2
  <2>4. Len(replay) = d
    BY <2>2, <2>3
  <2> QED
    BY <2>2, <2>4 DEF d
<1> HIDE DEF frames
<1>3. Len(frames) = k - n + 1 /\ Len(frames) \in Nat
  BY <1>1, <1>2
<1>4. frames[1].kind = "attached" /\ frames[1].chan = chan
  BY <1>1 DEF Frame
<1>5. \A i \in 2 .. Len(frames) : frames[i].kind = "rpc" /\ frames[i].chan = chan /\ frames[i].n = n + (i - 1)
  <2> TAKE i \in 2 .. Len(frames)
  <2>1. i - 1 \in 1 .. k - n
    BY <1>2, <1>3
  <2>2. replay[i - 1] = n + (i - 1)
    BY <1>2, <2>1
  <2>3. frames[i] = Frame("rpc", chan, sess, replay[i - 1], FALSE)
    BY <1>1
  <2> QED
    BY <2>2, <2>3 DEF Frame
<1>6. ASSUME NEW e \in Nat, NEW Y, e <= k, \A i \in 1 .. (e - n) + 1 : frames[i] \in Y, e >= n
      PROVE  Complete(Y, e, chan, att, n)
  <2>1. frames[1] \in Y /\ Opening(frames[1], chan)
    <3>1. 1 \in 1 .. (e - n) + 1
      BY <1>6
    <3> QED
      BY <1>4, <1>6, <3>1 DEF Opening
  <2>2. \A j \in n + 1 .. e : \E x \in Y : Line(x, chan) /\ x.n = j
    <3> TAKE j \in n + 1 .. e
    <3>1. (j - n) + 1 \in 2 .. Len(frames) /\ (j - n) + 1 \in 1 .. (e - n) + 1 /\ n + ((j - n) + 1 - 1) = j
      BY <1>3, <1>6
    <3>2. frames[(j - n) + 1] \in Y
      BY <1>6, <3>1
    <3>3. Line(frames[(j - n) + 1], chan) /\ frames[(j - n) + 1].n = j
      BY <1>5, <3>1 DEF Line
    <3> QED
      BY <3>2, <3>3
  <2> QED
    BY <2>1, <2>2 DEF Complete
<1>7. QueueReady(frames, X, chan, att, n)
  <2>1. ASSUME NEW i \in 1 .. Len(frames) PROVE Ready(frames[i], X \cup Ahead(frames, i), chan, att, n)
    <3>1. CASE i = 1
      BY <1>4, <3>1 DEF Ready, Line
    <3>2. CASE i # 1
      <4>1. i \in 2 .. Len(frames) /\ i \in Nat
        BY <1>3, <3>2
      <4> DEFINE e == n + (i - 1) - 1
                 Y == X \cup Ahead(frames, i)
      <4>2. e \in Nat /\ e <= k /\ e >= n /\ (e - n) + 1 = i - 1
        BY <1>3, <4>1
      <4>3. \A j \in 1 .. i - 1 : frames[j] \in Y
        BY DEF Ahead
      <4> HIDE DEF e, Y
      <4>4. Complete(Y, e, chan, att, n)
        BY <1>6, <4>2, <4>3
      <4>5. frames[i].n = n + (i - 1)
        BY <1>5, <4>1
      <4> QED
        BY <4>4, <4>5 DEF Ready, e, Y
    <3> QED
      BY <3>1, <3>2
  <2> QED
    BY <2>1 DEF QueueReady
<1>8. Complete(X \cup Elems(frames), k, chan, att, n)
  <2>1. \A i \in 1 .. (k - n) + 1 : frames[i] \in X \cup Elems(frames)
    BY <1>3 DEF Elems
  <2> HIDE DEF frames
  <2> QED
    BY <1>6, <2>1
<1> QED
  BY <1>7, <1>8 DEF frames

(* A replay starts after the last line the phone applied.                  *)
LEMMA HostResumesOrder ==
  ASSUME Sane, Order, IInv', HostResumes
  PROVE  Order'
<1> DEFINE m == Head(down["host"])
           replay == After(spool.entries, m.n)
           frames == Resumption(hostChan, app, replay)
           X == Elems(down["phone"]) \cup Pipe("host", ws["host"])
<1>1. /\ Reads("host", "attach") /\ m.chan = hostChan /\ m.sess = app /\ m \in ToHost /\ m.kind = "attach"
      /\ app # 0 /\ app \in Session /\ app \in Nat /\ hostChan \in Nat /\ emitted[app] \in Nat
      /\ m.n \in 0 .. emitted[app] /\ replay = [i \in 1 .. emitted[app] - m.n |-> m.n + i]
      /\ replay \in Seq(Nat)
      /\ HostSends(hostChan, TRUE, frames)
      /\ UNCHANGED <<app, emitted, started, relayVars>> /\ UNCHANGED phoneVars
  BY HostResumesShape
<1>2. UNCHANGED <<relayVars, ws, phoneChan, phoneAtt, lastRecv, emitted, app>>
  BY <1>1 DEF HostResumes, phoneVars
<1> HIDE DEF m, replay, X
<1>3. frames \in Seq(Msg) /\ \A f \in Elems(frames) : OfResumption(f, hostChan, app, replay)
  <2>1. hostChan \in Nat /\ app \in Nat /\ replay \in Seq(Nat)
    BY <1>1
  <2> QED
    BY <2>1, ResumptionFrames
<1>4. m.n \in Nat /\ m.n <= emitted[app]
  BY <1>1
<1>5. ASSUME NEW att
      PROVE  /\ QueueReady(frames, X, hostChan, att, m.n)
             /\ Complete(X \cup Elems(frames), emitted[app], hostChan, att, m.n)
  <2>1. /\ hostChan \in Nat /\ app \in Nat /\ replay \in Seq(Nat) /\ emitted[app] \in Nat
        /\ replay = [i \in 1 .. emitted[app] - m.n |-> m.n + i]
    BY <1>1
  <2> QED
    BY <1>4, <2>1, ResumptionReady
<1> HIDE DEF frames
<1>6. /\ up' = Written("host", frames)
      /\ (hostChan' = hostChan /\ hostAtt' = TRUE) \/ (hostChan' = 0 /\ hostAtt' = FALSE)
  BY <1>1, HostChannel
<1>7. CASE hostChan # phoneChan
  <2>1. \A x \in Elems(frames) : ~Line(x, phoneChan) /\ ~Opening(x, phoneChan)
    BY <1>3, <1>7 DEF OfResumption, Line, Opening
  <2>2. phoneChan # 0 => ~Sharing'
    BY <1>2, <1>6, <1>7 DEF Sharing
  <2> QED
    BY <1>1, <1>2, <1>3, <1>6, <2>1, <2>2, HostWritesOther
<1>8. CASE hostChan = phoneChan
  <2>1. PutsIn("host", frames) /\ ToPhone' \subseteq ToPhone \cup Elems(frames)
    BY <1>1, <1>2, <1>3, <1>6, HostPuts
  <2>2. ~phoneAtt /\ m.n = lastRecv /\ \A x \in ToPhone : x.chan = phoneChan => x.kind = "hs2"
    BY <1>1, <1>8 DEF Sane, Talk, Attaching
  <2>3. \A x \in Elems(frames) : Opening(x, phoneChan) => x.yes
    BY <1>3 DEF OfResumption, Opening
  <2>4. Base \in Nat /\ Base' \in Nat /\ Base <= Base'
    BY <1>2, <2>1, <2>3, HostWritesBase
  <2>5. Base' = m.n
    <3>1. ~\E a \in ToPhone' : Opening(a, phoneChan) /\ ~a.yes
      BY <2>1, <2>2, <2>3 DEF Opening
    <3>2. Base' = IF \E a \in ToPhone' : Opening(a, phoneChan') /\ ~a.yes THEN 0 ELSE lastRecv'
      BY DEF Base, Opening
    <3> QED
      BY <1>2, <2>2, <3>1, <3>2
  <2>6. QueueReady(frames, X, phoneChan, phoneAtt, Base')
    BY <1>5, <1>8, <2>5
  <2>7. Complete(X \cup Elems(frames), emitted'[app'], phoneChan, phoneAtt, Base')
    BY <1>2, <1>5, <1>8, <2>5
  <2> QED
    BY <1>2, <1>3, <2>1, <2>4, <2>6, <2>7, WriteOrder DEF X
<1> QED
  BY <1>7, <1>8

(* A fresh session has no line yet.                                        *)
LEMMA HostRenewsOrder ==
  ASSUME Sane, Order, IInv', HostRenews
  PROVE  Order'
<1> DEFINE m == Head(down["host"])
           f == Frame("attached", hostChan, started + 1, 0, FALSE)
<1>1. /\ Reads("host", "attach") /\ m.chan = hostChan /\ started < MaxSessions
      /\ app' = started + 1 /\ HostSends(hostChan, TRUE, <<f>>)
      /\ UNCHANGED <<relayVars, ws, phoneChan, phoneAtt, lastRecv, emitted>>
  BY DEF HostRenews, HostOpens, phoneVars
<1>2. HostTypes /\ hostChan \in Nat /\ started \in Nat /\ started + 1 \in Session /\ started + 1 \in Nat
  BY <1>1, Types, LinkAssumption DEF Sane, IInv, HostTypes, Session
<1>3. f \in Msg /\ f.kind = "attached" /\ f.chan = hostChan
  BY <1>2 DEF Frame, Msg, Kind
<1> HIDE DEF m, f
<1>4. <<f>> \in Seq(Msg) /\ Elems(<<f>>) = {f}
  BY <1>3, OneFrame
<1>5. /\ up' = Written("host", <<f>>)
      /\ (hostChan' = hostChan /\ hostAtt' = TRUE) \/ (hostChan' = 0 /\ hostAtt' = FALSE)
  BY <1>1, HostChannel
<1>6. CASE hostChan # phoneChan
  <2>1. \A x \in Elems(<<f>>) : ~Line(x, phoneChan) /\ ~Opening(x, phoneChan)
    BY <1>3, <1>4, <1>6 DEF Line, Opening
  <2>2. phoneChan # 0 => ~Sharing'
    BY <1>1, <1>5, <1>6 DEF Sharing
  <2> QED
    BY <1>1, <1>4, <1>5, <2>1, <2>2, HostWritesOther
<1>7. CASE hostChan = phoneChan
  <2>1. PutsIn("host", <<f>>) /\ ToPhone' \subseteq ToPhone \cup Elems(<<f>>)
    BY <1>1, <1>4, <1>5, HostPuts
  <2>2. m \in ToHost /\ m.kind = "attach"
    <3>1. "attach" \notin NoteKind
      BY DEF NoteKind
    <3> QED
      BY <1>1, <1>4, <1>5, <3>1, DeviceReads, Directions DEF m
  <2>3. \A x \in ToPhone : x.chan = phoneChan => x.kind = "hs2"
    BY <1>1, <1>7, <2>2 DEF Sane, Talk, Attaching
  <2>4. \A x \in ToPhone' : ~Line(x, phoneChan')
    BY <1>1, <1>3, <1>4, <2>1, <2>3 DEF Line
  <2>5. ASSUME Sharing'
        PROVE  Complete(Elems(down'["phone"]) \cup Pipe("host", ws["host"])', emitted'[app'], phoneChan', phoneAtt', Base')
    <3>1. Connected("host") /\ ws["host"] \in 1 .. MaxConns
      <4>1. Connected("host")
        BY <1>1, <2>5 DEF Sharing, Connected, Holds, relayVars
      <4> QED
        BY <4>1, Types, ConnsAssumption DEF Connected, Holds, Sane, IInv, RestTypes, Side
    <3>2. PICK k \in 1 .. MaxConns : k = ws["host"]
      BY <3>1
    <3>3. up'[<<"host", k>>] = up[<<"host", k>>] \o <<f>> /\ up[<<"host", k>>] \in Seq(Msg)
      BY <2>1, <3>1, <3>2, ToPhoneTyped DEF PutsIn, Sane
    <3>4. f \in Elems(up'[<<"host", k>>])
      BY <1>4, <3>3, ConcatElems
    <3>5. f \in Pipe("host", ws["host"])'
      BY <1>1, <3>2, <3>4, HostPipeNext
    <3>6. Opening(f, phoneChan')
      BY <1>1, <1>3, <1>7 DEF Opening
    <3>7. emitted'[app'] = 0
      BY <1>1, <1>2 DEF Sane, IInv, Sessions
    <3>8. Base' \in Nat
      <4>1. IInv' => Base' \in Nat
        <5>1. lastRecv' \in Nat
          BY DEF IInv, TypeOK
        <5>2. Base' = IF \E a \in ToPhone' : Opening(a, phoneChan') /\ ~a.yes THEN 0 ELSE lastRecv'
          BY DEF Base, Opening
        <5> QED
          BY <5>1, <5>2
      <4> QED
        BY <4>1
    <3>9. Base' + 1 .. 0 = {}
      <4>1. \A b \in Nat : b + 1 .. 0 = {}
        OBVIOUS
      <4> QED
        BY <3>8, <4>1, Zenon
    <3> QED
      BY <3>5, <3>6, <3>7, <3>9 DEF Complete
  <2> QED
    BY <2>4, <2>5, BlankOrder
<1> QED
  BY <1>6, <1>7

(* Every step keeps the lines in order.                                    *)
LEMMA NextOrder ==
  ASSUME Sane, Registered, Sockets, Order, IInv', [Next]_vars
  PROVE  Order'
<1>1. CASE UNCHANGED vars
  <2>1. UNCHANGED netVars /\ UNCHANGED hostVars /\ UNCHANGED phoneVars
    BY <1>1 DEF vars
  <2>2. /\ UNCHANGED <<relayVars, ws, up, down>> /\ UNCHANGED <<phoneChan, phoneAtt, lastRecv>>
        /\ UNCHANGED <<hostChan, hostAtt, app, emitted>>
    BY <2>1 DEF netVars, hostVars, phoneVars
  <2>3. \A k \in 1 .. MaxConns : PipeStays("host", k)
    BY <2>2 DEF PipeStays, InHand, relayVars
  <2>4. ToPhone' \subseteq ToPhone
    <3>1. \A t \in Side : Cuts(t)
      BY <2>2 DEF Cuts, NoteEnters, InHand, relayVars
    <3> QED
      BY <3>1, CutsFlow, Directions DEF Sane
  <2>5. (Connected("phone")' => Connected("phone")) /\ (Connected("host")' => Connected("host"))
    BY <2>2 DEF Connected, Holds, relayVars
  <2> QED
    BY <2>2, <2>3, <2>4, <2>5, IdleOrder
<1>2. CASE HostNext
  BY <1>2, HostIdleOrder, HostShakesOrder, HostResumesOrder, HostRenewsOrder DEF HostNext
<1>3. CASE HostEmits \/ HostRestarts
  BY <1>3, HostEmitsOrder, HostIdleOrder
<1> QED
  BY <1>1, <1>2, <1>3, PhoneOrder, RelayOrder DEF Next

(* The relay, the frames under way, the two ends and the order of the      *)
(* lines between them agree at all times: the invariant that the theorems  *)
(* on delivery rest on.                                                    *)
THEOREM LinesComeInOrder == Spec => [](Sane /\ Registered /\ Sockets /\ Order)
<1>1. Init => Sockets /\ Order
  <2> SUFFICES ASSUME Init PROVE Sockets /\ Order
    OBVIOUS
  <2>1. hostChan = 0 /\ phoneChan = 0 /\ ws["phone"] = 0
    BY DEF Init, RelayInit, Side
  <2> QED
    BY <2>1 DEF Sockets, Order, Connected, Holds
<1>2. /\ Sane /\ Registered /\ Sockets /\ Order /\ [Next]_vars
      /\ Sane' /\ Registered'
      => (Sockets /\ Order)'
  <2> SUFFICES ASSUME Sane, Registered, Sockets, Order, [Next]_vars, IInv', Talk' PROVE Sockets' /\ Order'
    BY DEF Sane
  <2> QED
    BY NextSockets, NextOrder
<1> QED
  BY <1>1, <1>2, LinkTalks, PTL DEF Spec

(* When nothing is on its way on an attached link, the phone has applied   *)
(* every line of the session it shares with the host.                      *)
THEOREM QuietLinksAreDelivered == Spec => []QuietLinkIsDelivered
<1>1. Sane /\ Registered /\ Order => QuietLinkIsDelivered
  <2> SUFFICES ASSUME Sane, Registered, Order, Quiet, Attached PROVE contID = app /\ lastRecv = emitted[app]
    BY DEF QuietLinkIsDelivered
  <2>1. hostAtt /\ phoneAtt /\ hostChan = phoneChan /\ phoneChan # 0 /\ contID = app /\ contID # 0
    BY DEF Attached, Sane, Talk, Ends
  <2>2. ASSUME NEW s \in Side PROVE Connected(s) /\ ws[s] # 0
    <3>1. ws[s] # 0 /\ registered[s] = ws[s]
      BY DEF Quiet
    <3>2. phase[<<s, registered[s]>>] \in Working
      BY <3>1 DEF Registered
    <3> QED
      BY <3>1, <3>2 DEF Connected, Holds
  <2>3. Sharing
    BY <2>1, <2>2, Directions DEF Sharing
  <2>4. emitted[app] \in Nat /\ ws["host"] \in 1 .. MaxConns
    BY <2>3, SharedLines
  <2>5. Elems(down["phone"]) \cup Pipe("host", ws["host"]) = {}
    <3>1. <<"host", ws["host"]>> \in Conn
      BY <2>4, Directions DEF Conn
    <3>2. InHand("host", ws["host"]) = {} /\ up[<<"host", ws["host"]>>] = <<>> /\ down["phone"] = <<>>
      BY <3>1, Directions DEF Quiet, InHand
    <3> QED
      BY <3>2, NoElems DEF Pipe
  <2>6. Complete({}, emitted[app], phoneChan, phoneAtt, Base)
    <3>1. InFull
      BY <2>1 DEF Order
    <3> QED
      BY <2>3, <2>5, <3>1 DEF InFull
  <2>7. Base = lastRecv /\ lastRecv \in Nat /\ lastRecv <= emitted[app]
    BY <2>1, AttachedBase, Types DEF Sane, IInv, PhoneTypes, Talk, Bounds
  <2>8. \A i \in lastRecv + 1 .. emitted[app] : FALSE
    BY <2>6, <2>7 DEF Complete
  <2>9. ~(lastRecv < emitted[app])
    BY <2>4, <2>7, <2>8
  <2> QED
    BY <2>1, <2>4, <2>7, <2>9
<1> QED
  BY <1>1, LinesComeInOrder, PTL

(* A line that the phone applies is the next one of its session.           *)
LEMMA DeliversNext ==
  ASSUME Sane, Order, PhoneApplies
  PROVE  Delivery!Deliver \/ UNCHANGED <<emitted, contID, lastRecv>>
<1> DEFINE m == Head(down["phone"])
<1>1. /\ Reads("phone", "rpc") /\ m.chan = phoneChan /\ UNCHANGED <<relayVars, up, contID>> /\ UNCHANGED hostVars
      /\ IF phoneAtt /\ m.n > lastRecv THEN lastRecv' = m.n ELSE lastRecv' = lastRecv
  BY DEF PhoneApplies, PhoneOpens
<1>2. phoneAtt /\ m.n <= lastRecv + 1 /\ m \in ToPhone
  BY NextLine
<1>3. m.kind = "rpc"
  BY <1>1, JustReads, Directions
<1>4. m.n \in Nat /\ lastRecv \in Nat
  BY <1>2, FrameFields, Types DEF Sane, IInv, PhoneTypes
<1> HIDE DEF m
<1>5. m.sess = contID /\ contID # 0 /\ m.n <= emitted[contID]
  BY <1>1, <1>2, <1>3 DEF Sane, Talk, Ends, Bounds, Addressed
<1>6. emitted' = emitted
  BY <1>1 DEF hostVars
<1>7. CASE m.n > lastRecv
  <2>1. lastRecv' = lastRecv + 1 /\ m.n = lastRecv + 1
    BY <1>1, <1>2, <1>4, <1>7
  <2>2. lastRecv < emitted[contID]
    <3>1. contID \in Session /\ HostTypes
      BY <1>5, Types, LinkAssumption DEF Sane, IInv, HostTypes, PhoneTypes, Talk, Bounds, Session
    <3>2. emitted[contID] \in Nat
      BY <3>1 DEF HostTypes
    <3> QED
      BY <1>4, <1>5, <2>1, <3>2
  <2> QED
    BY <1>1, <1>5, <1>6, <2>1, <2>2 DEF Delivery!Deliver
<1>8. CASE ~(m.n > lastRecv)
  BY <1>1, <1>6, <1>8
<1> QED
  BY <1>7, <1>8

(* The answer to an attach gives the phone a newer session or the one it   *)
(* has.                                                                    *)
LEMMA AdoptsNewer ==
  ASSUME Sane, PhoneAttaches
  PROVE  Delivery!Adopt \/ UNCHANGED <<emitted, contID, lastRecv>>
<1> DEFINE m == Head(down["phone"])
<1>1. /\ Reads("phone", "attached") /\ m.chan = phoneChan /\ contID' = m.sess
      /\ lastRecv' = IF ~m.yes \/ contID = 0 \/ m.sess # contID THEN 0 ELSE lastRecv
      /\ UNCHANGED <<relayVars, up>> /\ UNCHANGED hostVars
  BY DEF PhoneAttaches, PhoneOpens
<1>2. m.kind = "attached" /\ m \in ToPhone
  <2>1. "attached" \notin NoteKind
    BY DEF NoteKind
  <2> QED
    BY <1>1, <2>1, JustReads, Directions
<1>3. /\ m.sess \in Nat /\ m.sess <= started /\ started \in 0 .. MaxSessions /\ contID \in Nat
  BY <1>2, FrameFields, Types DEF Sane, IInv, HostTypes, PhoneTypes, Talk, Bounds
<1>4. emitted' = emitted
  BY <1>1 DEF hostVars
<1> HIDE DEF m
<1>5. CASE m.yes
  <2>1. m.sess = contID /\ m.sess # 0
    BY <1>1, <1>2, <1>5 DEF Sane, Talk, Answered
  <2> QED
    BY <1>1, <1>4, <1>5, <2>1
<1>6. CASE ~m.yes
  <2>1. contID < m.sess
    BY <1>1, <1>2, <1>6 DEF Sane, Talk, Answered
  <2>2. contID' \in contID + 1 .. MaxSessions
    BY <1>1, <1>3, <2>1, LinkAssumption
  <2>3. lastRecv' = 0
    BY <1>1, <1>6
  <2> QED
    BY <1>4, <2>2, <2>3 DEF Delivery!Adopt
<1> QED
  BY <1>5, <1>6

(* What the program on the phone sees of the link, through lost sockets,   *)
(* replays, late acks and restarts, is the abstract delivery: the lines of *)
(* one session in order, none twice and none left out, and never an old    *)
(* session again (handleAttachLocked, handleSealed, handleAttachedLocked). *)
THEOREM LinkDelivers == Spec => DeliverySpec
<1>1. Init => Delivery!Init
  BY DEF Init, Delivery!Init, Session
<1>2. Sane /\ Order /\ [Next]_vars => [Delivery!Next]_(Delivery!vars)
  <2> SUFFICES ASSUME Sane, Order, [Next]_vars PROVE Delivery!Next \/ UNCHANGED <<emitted, contID, lastRecv>>
    BY DEF Delivery!vars
  <2>1. CASE PhoneApplies
    BY <2>1, DeliversNext DEF Delivery!Next
  <2>2. CASE PhoneAttaches
    BY <2>2, AdoptsNewer DEF Delivery!Next
  <2>3. CASE PhoneRestarts
    BY <2>3 DEF PhoneRestarts, hostVars, Delivery!Next, Delivery!Forget
  <2>4. CASE HostEmits
    <3>1. app \in Session /\ emitted' = [emitted EXCEPT ![app] = @ + 1] /\ UNCHANGED <<contID, lastRecv>>
      BY <2>4, Types, LinkAssumption DEF Sane, IInv, HostTypes, HostEmits, Session, phoneVars
    <3> QED
      BY <3>1 DEF Delivery!Next, Delivery!Emit, Session
  <2>5. CASE HostNext \/ HostRestarts
    BY <2>5 DEF HostNext, HostConnects, HostShakes, HostIgnores, HostResumes, HostRenews, HostTrims, HostForwards,
                HostDetaches, HostHangsUp, HostRestarts, hostVars, phoneVars
  <2>6. CASE PhoneAcks \/ PhoneAsks \/ PhoneConnects \/ PhoneReshakes \/ PhoneDetaches \/ PhoneCompletes
             \/ PhoneIgnores \/ PhoneHangsUp
    BY <2>6 DEF PhoneAcks, PhoneAsks, PhoneConnects, PhoneReshakes, PhoneDetaches, PhoneCompletes, PhoneIgnores,
                PhoneHangsUp, hostVars, phoneVars
  <2>7. CASE RelayNext \/ UNCHANGED vars
    BY <2>7 DEF RelayNext, vars, hostVars, phoneVars
  <2> QED
    BY <2>1, <2>2, <2>3, <2>4, <2>5, <2>6, <2>7 DEF Next, PhoneNext
<1> QED
  BY <1>1, <1>2, LinesComeInOrder, PTL DEF Spec, DeliverySpec, Delivery!Spec

(***************************************************************************)
(* The first handshake.                                                    *)
(***************************************************************************)
(* Each device has dialed at most once, the relay still serves its socket, *)
(* and the phone has started at most one handshake.                        *)
Calm ==
  /\ shakes <= 1
  /\ \A s \in Side : dialed[s] <= 1 /\ (dialed[s] = 1 => Connected(s))

(* What is on its way from s to its peer, notes and frames.                *)
Way(s) == Elems(down[Peer(s)]) \cup Pipe(s, 1)
Under(s, kind) == \E m \in Way(s) : m.kind = kind

(* Nobody hears that the other has left, and a phone alone hears of no     *)
(* host.                                                                   *)
Heard ==
  /\ \A s \in Side : \A m \in Elems(down[s]) : m.kind \notin {"down", "lost"}
  /\ dialed["host"] = 0 => \A m \in Elems(down["phone"]) : m.kind = "ok" /\ ~m.yes

(* Nor will anybody; what the relay has in hand goes to a socket there is. *)
Said ==
  \A s \in Side :
    /\ phase[<<s, 1>>] = "greeting" =>
         held[<<s, 1>>].msg.kind = "ok" /\ (dialed["host"] = 0 => ~held[<<s, 1>>].msg.yes)
    /\ phase[<<s, 1>>] = "telling" => s = "host" /\ held[<<s, 1>>].msg.kind = "up"
    /\ phase[<<s, 1>>] = "routing" => held[<<s, 1>>].dest = 1
    /\ \A m \in Pipe(s, 1) : m.kind \notin NoteKind

(* A device alone has no handshake, and without one there are no frames.   *)
Alone ==
  /\ \A s \in Side : dialed[s] = 0 => shakes = 0
  /\ shakes = 0 => \A s \in Side : Pipe(s, 1) = {}

(* How far the handshake has come.                                         *)
Stage ==
  \/ pending = 1 /\ Under("phone", "hs1")
  \/ pending = 1 /\ hostChan = 1 /\ Under("host", "hs2")
  \/ phoneChan = 1 /\ hostChan = 1 /\ Under("phone", "attach")
  \/ phoneChan = 1 /\ hostChan = 1 /\ hostAtt /\ Under("host", "attached")
  \/ phoneChan = 1 /\ hostChan = 1 /\ hostAtt /\ phoneAtt
Hushed == Heard /\ Said /\ Alone
First == Calm => Hushed /\ (shakes = 1 => Stage)

(* The sockets of a link that is calm.                                     *)
LEMMA CalmSockets ==
  ASSUME IInv, Registered, Calm, NEW s \in Side
  PROVE  /\ 1 \in 1 .. MaxConns /\ <<s, 1>> \in Conn /\ dialed[s] \in {0, 1}
         /\ dialed[s] = 0 => ws[s] = 0 /\ registered[s] = 0 /\ phase[<<s, 1>>] = "none"
         /\ dialed[s] = 1 => ws[s] = 1 /\ registered[s] = 1 /\ phase[<<s, 1>>] \in Working /\ Connected(s)
         /\ ws[s] # 0 => dialed[s] = 1
         /\ phase[<<s, 1>>] # "none" => dialed[s] = 1
         /\ \A n \in 1 .. MaxConns : phase[<<s, n>>] # "none" => n = 1
<1>1. /\ dialed[s] \in Nat /\ 1 \in 1 .. MaxConns /\ <<s, 1>> \in Conn
  BY Types, ConnsAssumption DEF IInv, RestTypes, Conn
<1>2. dialed[s] \in {0, 1}
  BY <1>1 DEF Calm
<1>3. /\ Connected(s) => registered[s] = ws[s]
      /\ ws[s] \in {0, dialed[s]} /\ registered[s] \in {0, dialed[s]}
      /\ \A n \in 1 .. MaxConns : n > dialed[s] => phase[<<s, n>>] = "none"
  BY DEF Registered
<1>4. dialed[s] = 1 => Connected(s)
  BY DEF Calm
<1>5. Connected(s) => ws[s] # 0 /\ phase[<<s, ws[s]>>] \in Working
  BY DEF Connected, Holds
<1> QED
  BY <1>1, <1>2, <1>3, <1>4, <1>5

(* Each step is one of the relay, a dial, or leaves both alone but for a   *)
(* device that hangs up.                                                   *)
LEMMA SocketSteps ==
  ASSUME [Next]_vars
  PROVE  \/ RelayNext
         \/ \E s \in Side : Dial(s) /\ UNCHANGED hostVars /\ UNCHANGED phoneVars
         \/ UNCHANGED <<dialed, ws, relayVars>>
         \/ \E s \in Side : HangUp(s) /\ UNCHANGED relayVars
<1>1. CASE HostNext \/ HostEmits \/ HostRestarts
  BY <1>1 DEF HostNext, HostConnects, HostShakes, HostIgnores, HostResumes, HostRenews, HostTrims, HostForwards,
              HostDetaches, HostHangsUp, HostEmits, HostRestarts, HangUp, relayVars, Side
<1>2. CASE PhoneNext \/ PhoneAcks \/ PhoneAsks \/ PhoneRestarts
  BY <1>2 DEF PhoneNext, PhoneConnects, PhoneReshakes, PhoneDetaches, PhoneCompletes, PhoneIgnores, PhoneAttaches,
              PhoneApplies, PhoneHangsUp, PhoneAcks, PhoneAsks, PhoneRestarts, HangUp, relayVars, Side
<1>3. CASE UNCHANGED vars
  BY <1>3 DEF vars, netVars
<1> QED
  BY <1>1, <1>2, <1>3 DEF Next

(* There are never fewer handshakes.                                       *)
LEMMA ShakesGrow ==
  ASSUME IInv, [Next]_vars
  PROVE  shakes' \in {shakes, shakes + 1} /\ shakes \in Nat
<1>1. shakes \in Nat
  BY Types DEF IInv, PhoneTypes
<1>2. HostNext \/ HostEmits \/ HostRestarts \/ RelayNext \/ UNCHANGED vars => shakes' = shakes
  BY DEF HostNext, HostConnects, HostShakes, HostIgnores, HostResumes, HostRenews, HostTrims, HostForwards,
              HostDetaches, HostHangsUp, HostEmits, HostRestarts, RelayNext, phoneVars, vars
<1>3. CASE PhoneConnects \/ PhoneReshakes
  <2>1. shakes' = shakes \/ PhoneShakes
    <3>1. CASE PhoneConnects
      <4>1. CASE Dial("phone") /\ UNCHANGED phoneVars
        BY <4>1 DEF phoneVars
      <4>2. CASE IF Head(down["phone"]).yes
                 THEN PhoneShakes ELSE UNCHANGED <<pending, phoneChan, phoneAtt, shakes, up>>
        BY <4>2
      <4> QED
        BY <3>1, <4>1, <4>2 DEF PhoneConnects
    <3> QED
      BY <1>3, <3>1 DEF PhoneReshakes
  <2> QED
    BY <1>1, <2>1 DEF PhoneShakes
<1>4. PhoneNext \/ PhoneAcks \/ PhoneAsks \/ PhoneRestarts => shakes' = shakes \/ PhoneConnects \/ PhoneReshakes
  BY DEF PhoneNext, PhoneDetaches, PhoneCompletes, PhoneIgnores, PhoneAttaches,
         PhoneApplies, PhoneHangsUp, PhoneAcks, PhoneAsks, PhoneRestarts, phoneVars
<1> QED
  BY <1>1, <1>2, <1>3, <1>4 DEF Next

(* The relay takes up no socket again that it has dropped.                 *)
LEMMA RelayOnlyDrops ==
  ASSUME IInv, RelayStep, NEW s \in Side
  PROVE  /\ Connected(s)' => Connected(s)
         /\ UNCHANGED <<dialed, ws>>
<1>1. PICK t \in Side, n \in 1 .. MaxConns :
        Greet(t, n) \/ Announce(t, n) \/ Tell(t, n) \/ Route(t, n) \/ Forward(t, n) \/ Drop(t, n)
  BY DEF RelayStep
<1> DEFINE c == <<t, n>>
<1>2. /\ phase \in [Conn -> Phase] /\ ws \in [Side -> 0 .. MaxConns] /\ c \in Conn
  BY Types DEF IInv, RestTypes, Conn
<1>3. UNCHANGED <<dialed, ws>>
  BY <1>1 DEF Greet, Announce, Tell, Route, Forward, Drop
<1>4. \E x : phase' = [phase EXCEPT ![c] = x] /\ (x \in Working => phase[c] \in Working)
  <2>1. CASE Greet(t, n)
    <3>1. CASE t = "host"
      BY <2>1, <3>1 DEF Greet, Working
    <3>2. CASE t # "host"
      BY <2>1, <3>2 DEF Greet, Working
    <3> QED
      BY <3>1, <3>2
  <2>2. CASE Announce(t, n) \/ Route(t, n) \/ Forward(t, n)
    BY <2>2 DEF Announce, Route, Forward, Working
  <2>3. CASE Tell(t, n)
    <3>1. CASE phase[c] = "telling"
      BY <1>2, <2>3, <3>1 DEF Tell, Working
    <3>2. CASE phase[c] # "telling"
      <4>1. phase' = [phase EXCEPT ![c] = "gone"]
        BY <1>2, <2>3, <3>2 DEF Tell
      <4>2. "gone" \notin Working
        BY DEF Working
      <4> QED
        BY <4>1, <4>2
    <3> QED
      BY <3>1, <3>2
  <2>4. CASE Drop(t, n)
    BY <2>4 DEF Drop, Working
  <2> QED
    BY <1>1, <2>1, <2>2, <2>3, <2>4
<1>5. \A d \in Conn : phase'[d] \in Working => phase[d] \in Working
  BY <1>2, <1>4
<1>6. ws[s] # 0 => <<s, ws[s]>> \in Conn
  BY <1>2, ConnsAssumption DEF Conn
<1>7. Connected(s)' => Connected(s)
  BY <1>3, <1>5, <1>6 DEF Connected, Holds
<1> QED
  BY <1>3, <1>7

(* A link that is calm has always been.                                    *)
LEMMA CalmBefore ==
  ASSUME IInv, Registered, [Next]_vars, Calm'
  PROVE  /\ Calm
         /\ \A s \in Side : ~HangUp(s)
<1>1. /\ dialed \in [Side -> 0 .. MaxConns] /\ ws \in [Side -> 0 .. MaxConns] /\ phase \in [Conn -> Phase]
  BY Types DEF IInv, RestTypes
<1>0. \A s \in Side : ws[s] \in {0, dialed[s]} /\ dialed[s] \in Nat
  <2>1. \A s \in Side : dialed[s] \in 0 .. MaxConns
    BY <1>1
  <2>2. \A s \in Side : dialed[s] \in Nat
    BY <2>1, ConnsAssumption
  <2>3. \A s \in Side : ws[s] \in {0, dialed[s]}
    BY DEF Registered
  <2> QED
    BY <2>2, <2>3
<1>2. shakes <= 1
  BY ShakesGrow DEF Calm
<1>3. \A s \in Side : dialed'[s] <= 1 /\ (dialed'[s] = 1 => Connected(s)')
  BY DEF Calm
<1>4. ASSUME NEW s \in Side PROVE ~HangUp(s)
  <2> SUFFICES ASSUME HangUp(s) PROVE FALSE
    OBVIOUS
  <2>1. ws[s] # 0 /\ dialed' = dialed /\ ws'[s] = 0
    BY <1>1 DEF HangUp
  <2>2. dialed[s] = 1
    BY <1>0, <1>3, <2>1
  <2> QED
    BY <1>3, <2>1, <2>2 DEF Connected, Holds
<1>5. ASSUME NEW t \in Side PROVE dialed[t] <= 1 /\ (dialed[t] = 1 => Connected(t))
  <2>1. CASE RelayNext
    BY <1>3, <2>1, RelayOnlyDrops DEF RelayNext
  <2>2. CASE \E s \in Side : Dial(s)
    <3>1. PICK s \in Side : Dial(s)
      BY <2>2
    <3>2. CASE s = t
      BY <1>0, <1>1, <1>3, <3>1, <3>2 DEF Dial
    <3>3. CASE s # t
      <4>1. dialed'[t] = dialed[t]
        BY <1>1, <3>1, <3>3 DEF Dial
      <4> QED
        BY <1>3, <3>1, <3>3, <4>1, DialPhases
    <3> QED
      BY <3>2, <3>3
  <2>3. CASE UNCHANGED <<dialed, ws, relayVars>>
    BY <1>3, <2>3 DEF Connected, Holds, relayVars
  <2> QED
    BY <1>4, <2>1, <2>2, <2>3, SocketSteps
<1> QED
  BY <1>2, <1>4, <1>5 DEF Calm

(* On a calm link a relay step takes nothing from what is on its way but   *)
(* what it was to tell.                                                    *)
LEMMA CalmRelay ==
  ASSUME IInv, Registered, Calm, Calm', Hushed, RelayStep, shakes' = shakes
  PROVE  Hushed' /\ \A s \in Side : Way(s) \subseteq Way(s)'
<1>1. PICK s \in Side, n \in 1 .. MaxConns :
        Greet(s, n) \/ Announce(s, n) \/ Tell(s, n) \/ Route(s, n) \/ Forward(s, n) \/ Drop(s, n)
  BY DEF RelayStep
<1>2. n = 1
  <2>1. phase[<<s, n>>] # "none"
    BY <1>1 DEF Greet, Announce, Tell, Route, Forward, Drop
  <2> QED
    BY <2>1, CalmSockets
<1> DEFINE c == <<s, 1>>
           p == Peer(s)
           m == held[c].msg
           d == <<p, 1>>
<1>3. /\ p \in Side /\ p # s /\ Peer(p) = s /\ \A t \in Side : t = s \/ t = p
      /\ c \in Conn /\ d \in Conn /\ d # c
  BY Peers, CalmSockets
<1>4. /\ phase \in [Conn -> Phase] /\ held \in [Conn -> [msg : Msg, dest : 0 .. MaxConns]]
      /\ up \in [Conn -> Seq(Msg)] /\ down \in [Side -> Seq(Msg)] /\ m \in Msg
  BY <1>3, Types DEF IInv, RestTypes, QueueTypes
<1>5. dialed[s] = 1 /\ ws[s] = 1 /\ phase[c] \in Working /\ Holds(s, 1)
  <2>1. phase[c] # "none"
    BY <1>1, <1>2 DEF Greet, Announce, Tell, Route, Forward, Drop
  <2> QED
    BY <2>1, CalmSockets DEF Connected
<1>6. UNCHANGED <<dialed, ws>>
  BY RelayOnlyDrops
<1>7. phase'[c] \in Working
  <2>1. Connected(s)'
    BY <1>5, <1>6 DEF Calm
  <2> QED
    BY <1>5, <1>6, <2>1 DEF Connected, Holds
<1>8. At(c) /\ phase'[d] = phase[d] /\ held'[d] = held[d] /\ up'[d] = up[d]
  <2>1. Greet(s, 1) \/ Announce(s, 1) \/ Tell(s, 1) \/ Route(s, 1) \/ Forward(s, 1) \/ Drop(s, 1)
    BY <1>1, <1>2
  <2>2. CASE Greet(s, 1)
    <3>1. CASE s = "host"
      BY <1>3, <1>4, <2>2, <3>1 DEF Greet, At
    <3>2. CASE s # "host"
      BY <1>3, <1>4, <2>2, <3>2 DEF Greet, At
    <3> QED
      BY <3>1, <3>2
  <2>3. CASE Announce(s, 1) \/ Tell(s, 1)
    BY <1>3, <1>4, <2>3 DEF Announce, Tell, At
  <2>4. CASE Route(s, 1) \/ Forward(s, 1)
    BY <1>3, <1>4, <2>4 DEF Route, Forward, At
  <2>5. CASE Drop(s, 1)
    BY <1>3, <1>4, <2>5 DEF Drop, At
  <2> QED
    BY <2>1, <2>2, <2>3, <2>4, <2>5
<1>9. Pipe(p, 1)' = Pipe(p, 1)
  BY <1>8 DEF Pipe, InHand
<1>10. /\ phase[c] = "greeting" => m.kind = "ok" /\ (dialed["host"] = 0 => ~m.yes)
       /\ phase[c] = "telling" => s = "host" /\ m.kind = "up"
       /\ phase[c] = "routing" => held[c].dest = 1
       /\ \A x \in Pipe(s, 1) : x.kind \notin NoteKind
       /\ phase[d] = "greeting" => held[d].msg.kind = "ok" /\ (dialed["host"] = 0 => ~held[d].msg.yes)
       /\ phase[d] = "telling" => p = "host" /\ held[d].msg.kind = "up"
       /\ phase[d] = "routing" => held[d].dest = 1
       /\ \A x \in Pipe(p, 1) : x.kind \notin NoteKind
  BY <1>3 DEF Hushed, Said
<1>11. /\ \A t \in Side : \A x \in Elems(down[t]) : x.kind \notin {"down", "lost"}
       /\ dialed["host"] = 0 => \A x \in Elems(down["phone"]) : x.kind = "ok" /\ ~x.yes
  BY DEF Hushed, Heard
<1>12. /\ \A t \in Side : dialed[t] = 0 => shakes = 0
       /\ shakes = 0 => Pipe(s, 1) = {} /\ Pipe(p, 1) = {}
  BY <1>3 DEF Hushed, Alone
<1> HIDE DEF c, d, p, m
<1>13. ASSUME /\ phase'[c] = "greeting" => held'[c].msg.kind = "ok" /\ (dialed["host"] = 0 => ~held'[c].msg.yes)
              /\ phase'[c] = "telling" => s = "host" /\ held'[c].msg.kind = "up"
              /\ phase'[c] = "routing" => held'[c].dest = 1,
              Pipe(s, 1)' \subseteq Pipe(s, 1)
       PROVE  Said' /\ Alone'
  <2>1. Said'
    <3>1. /\ phase'[d] = "greeting" => held'[d].msg.kind = "ok" /\ (dialed["host"] = 0 => ~held'[d].msg.yes)
          /\ phase'[d] = "telling" => p = "host" /\ held'[d].msg.kind = "up"
          /\ phase'[d] = "routing" => held'[d].dest = 1
          /\ \A x \in Pipe(p, 1)' : x.kind \notin NoteKind
      BY <1>8, <1>9, <1>10
    <3>2. \A x \in Pipe(s, 1)' : x.kind \notin NoteKind
      BY <1>10, <1>13
    <3> SUFFICES ASSUME NEW t \in Side
                 PROVE  /\ phase'[<<t, 1>>] = "greeting" =>
                             held'[<<t, 1>>].msg.kind = "ok" /\ (dialed'["host"] = 0 => ~held'[<<t, 1>>].msg.yes)
                        /\ phase'[<<t, 1>>] = "telling" => t = "host" /\ held'[<<t, 1>>].msg.kind = "up"
                        /\ phase'[<<t, 1>>] = "routing" => held'[<<t, 1>>].dest = 1
                        /\ \A x \in Pipe(t, 1)' : x.kind \notin NoteKind
      BY DEF Said
    <3>3. CASE t = s
      BY <1>6, <1>13, <3>2, <3>3 DEF c
    <3>4. CASE t = p
      BY <1>6, <3>1, <3>4 DEF d
    <3> QED
      BY <1>3, <3>3, <3>4
  <2>2. Alone'
    <3>1. shakes = 0 => Pipe(s, 1)' = {} /\ Pipe(p, 1)' = {}
      BY <1>9, <1>12, <1>13
    <3>2. ASSUME shakes = 0, NEW t \in Side PROVE Pipe(t, 1)' = {}
      BY <1>3, <3>1, <3>2
    <3> QED
      BY <1>6, <1>12, <3>2 DEF Alone
  <2> QED
    BY <2>1, <2>2
<1>14. ASSUME NEW t \in Side, NEW x \in Msg, down'[t] = Append(down[t], x) \/ down'[t] = down[t],
              \A u \in Side : u # t => down'[u] = down[u],
              x.kind \notin {"down", "lost"}, dialed["host"] = 0 => t # "phone" \/ (x.kind = "ok" /\ ~x.yes)
       PROVE  Heard' /\ \A u \in Side : Elems(down[u]) \subseteq Elems(down'[u])
  <2>1. Elems(Append(down[t], x)) = Elems(down[t]) \cup {x}
    BY <1>4, AppendElems
  <2>2. Elems(down[t]) \subseteq Elems(down'[t]) /\ Elems(down'[t]) \subseteq Elems(down[t]) \cup {x}
    BY <1>14, <2>1
  <2>3. \A u \in Side : u # t => Elems(down'[u]) = Elems(down[u])
    BY <1>14
  <2>4. ASSUME NEW u \in Side, NEW y \in Elems(down'[u]) PROVE y.kind \notin {"down", "lost"}
    <3>1. CASE u = t
      BY <1>11, <1>14, <2>2, <3>1, <2>4
    <3>2. CASE u # t
      BY <1>11, <2>3, <3>2, <2>4
    <3> QED
      BY <3>1, <3>2
  <2>5. ASSUME dialed["host"] = 0, NEW y \in Elems(down'["phone"]) PROVE y.kind = "ok" /\ ~y.yes
    <3>1. CASE t = "phone"
      BY <1>11, <1>14, <2>2, <2>5, <3>1
    <3>2. CASE t # "phone"
      BY <1>11, <2>3, <2>5, <3>2 DEF Side
    <3> QED
      BY <3>1, <3>2
  <2>6. Heard'
    BY <1>6, <2>4, <2>5 DEF Heard, Elems
  <2>7. \A u \in Side : Elems(down[u]) \subseteq Elems(down'[u])
    BY <2>2, <2>3
  <2> QED
    BY <2>6, <2>7
<1>15. ASSUME \A u \in Side : Elems(down[u]) \subseteq Elems(down'[u]), NEW t \in Side,
              Pipe(t, 1) \subseteq Pipe(t, 1)' \cup Elems(down'[Peer(t)])
       PROVE  Way(t) \subseteq Way(t)'
  <2>1. Peer(t) \in Side
    BY Peers
  <2>2. Way(t)' = Elems(down'[Peer(t)]) \cup Pipe(t, 1)'
    BY DEF Way, Elems, Peer
  <2> QED
    BY <1>15, <2>1, <2>2 DEF Way
<1>16. \A t \in Side : t = p => Pipe(t, 1) \subseteq Pipe(t, 1)' \cup Elems(down'[Peer(t)])
  BY <1>9
<1>17. ASSUME Heard', \A u \in Side : Elems(down[u]) \subseteq Elems(down'[u]),
              Said' /\ Alone', Pipe(s, 1) \subseteq Pipe(s, 1)' \cup Elems(down'[Peer(s)])
       PROVE  Hushed' /\ \A t \in Side : Way(t) \subseteq Way(t)'
  <2>1. ASSUME NEW t \in Side PROVE Way(t) \subseteq Way(t)'
    <3>1. Pipe(t, 1) \subseteq Pipe(t, 1)' \cup Elems(down'[Peer(t)])
      BY <1>3, <1>16, <1>17
    <3> QED
      BY <1>15, <1>17, <3>1
  <2> QED
    BY <1>17, <2>1 DEF Hushed
<1>18. ASSUME phase[c] # "routing", phase'[c] # "routing", up'[c] = up[c] PROVE Pipe(s, 1)' = Pipe(s, 1)
  BY <1>18 DEF Pipe, InHand, c
<1>19. down' = down => Heard' /\ \A u \in Side : Elems(down[u]) \subseteq Elems(down'[u])
  BY <1>6 DEF Hushed, Heard, Elems
<1>20. CASE Greet(s, 1)
  <2>1. down' = Sent(s, 1, m) /\ up' = up /\ phase[c] = "greeting"
    BY <1>20 DEF Greet, c, m
  <2>2. down'[s] = Append(down[s], m) /\ \A u \in Side : u # s => down'[u] = down[u]
    BY <1>5, <2>1, SentFacts, <1>4
  <2>3. Heard' /\ \A u \in Side : Elems(down[u]) \subseteq Elems(down'[u])
    BY <1>4, <1>10, <1>14, <2>1, <2>2
  <2>4. \/ s = "host" /\ phase'[c] = "telling" /\ held'[c].msg.kind = "up"
        \/ phase'[c] = "serving"
    <3>1. CASE s = "host"
      BY <1>3, <1>4, <1>20, <3>1 DEF Greet, Note, c
    <3>2. CASE s # "host"
      BY <1>3, <1>4, <1>20, <3>2 DEF Greet, c
    <3> QED
      BY <3>1, <3>2
  <2>5. Pipe(s, 1)' = Pipe(s, 1)
    BY <1>18, <2>1, <2>4
  <2>6. Said' /\ Alone'
    BY <1>13, <2>4, <2>5
  <2> QED
    BY <1>17, <2>3, <2>5, <2>6
<1>21. CASE Announce(s, 1)
  BY <1>5, <1>21 DEF Announce, c, Working
<1>22. CASE Tell(s, 1)
  <2>1. phase[c] = "telling" /\ down' = Sent(p, held[c].dest, m) /\ up' = up
    BY <1>5, <1>22 DEF Tell, c, m, p, Working
  <2>2. phase'[c] = "serving"
    BY <1>3, <1>4, <1>22, <2>1 DEF Tell, c
  <2>3. /\ down'[p] = Append(down[p], m) \/ down'[p] = down[p]
        /\ \A u \in Side : u # p => down'[u] = down[u]
    BY <1>3, <2>1, SentFacts
  <2>4. m.kind \notin {"down", "lost"} /\ dialed["host"] # 0
    BY <1>5, <1>10, <2>1
  <2>5. Heard' /\ \A u \in Side : Elems(down[u]) \subseteq Elems(down'[u])
    BY <1>3, <1>4, <1>14, <2>3, <2>4
  <2>6. Pipe(s, 1)' = Pipe(s, 1)
    BY <1>18, <2>1, <2>2
  <2>7. Said' /\ Alone'
    BY <1>13, <2>2, <2>6
  <2> QED
    BY <1>17, <2>5, <2>6, <2>7
<1>23. CASE Route(s, 1)
  <2>1. /\ phase[c] = "serving" /\ up[c] # <<>> /\ down' = down /\ up' = [up EXCEPT ![c] = Tail(@)]
        /\ phase' = [phase EXCEPT ![c] = "routing"]
        /\ held' = [held EXCEPT ![c] = [msg |-> Head(up[c]), dest |-> registered[p]]]
    BY <1>23 DEF Route, c, p
  <2>2. phase'[c] = "routing" /\ held'[c].msg = Head(up[c]) /\ held'[c].dest = registered[p] /\ up'[c] = Tail(up[c])
    BY <1>3, <1>4, <2>1
  <2>3. Elems(up[c]) = {Head(up[c])} \cup Elems(Tail(up[c]))
    BY <1>3, <1>4, <2>1, TailElems
  <2>4. Pipe(s, 1) = Elems(up[c])
    BY <2>1 DEF Pipe, InHand, c
  <2>5. Pipe(s, 1)' = Pipe(s, 1)
    <3>1. InHand(s, 1)' = {Head(up[c])}
      BY <2>2 DEF InHand, c
    <3>2. Pipe(s, 1)' = InHand(s, 1)' \cup Elems(up'[c])
      BY PipeNext DEF c
    <3> QED
      BY <2>2, <2>3, <2>4, <3>1, <3>2
  <2>6. registered[p] = 1
    <3>1. shakes # 0
      BY <1>12, <2>3, <2>4
    <3>2. dialed[p] # 0
      BY <1>3, <1>12, <3>1
    <3> QED
      BY <1>3, <3>2, CalmSockets
  <2>7. Said' /\ Alone'
    BY <1>13, <2>2, <2>5, <2>6
  <2> QED
    BY <1>17, <1>19, <2>1, <2>5, <2>7
<1>24. CASE Forward(s, 1)
  <2>1. phase[c] = "routing" /\ up' = up /\ held[c].dest = 1
    BY <1>10, <1>24 DEF Forward, c
  <2>2. InHand(s, 1) = {m} /\ m \in Pipe(s, 1)
    BY <2>1 DEF InHand, Pipe, c, m
  <2>3. Holds(p, 1) /\ ws[p] = 1
    <3>1. shakes # 0
      BY <1>12, <2>2
    <3>2. dialed[p] # 0
      BY <1>3, <1>12, <3>1
    <3> QED
      BY <1>3, <3>2, CalmSockets DEF Connected
  <2>4. SendErr(p, held[c].dest) = {FALSE}
    BY <2>1, <2>3 DEF SendErr
  <2>5. \E failed \in SendErr(p, held[c].dest) :
          down' = IF failed THEN Sent(s, 1, Note("lost", FALSE)) ELSE Sent(p, held[c].dest, m)
    BY <1>24 DEF Forward, c, m, p
  <2>6. down' = Sent(p, 1, m)
    BY <2>1, <2>4, <2>5
  <2>7. down'[p] = Append(down[p], m) /\ \A u \in Side : u # p => down'[u] = down[u]
    BY <1>3, <2>3, <2>6, SentFacts
  <2>8. phase'[c] = "serving"
    BY <1>3, <1>4, <1>24 DEF Forward, c
  <2>9. m.kind \notin NoteKind /\ dialed["host"] # 0
    BY <1>10, <1>12, <2>2 DEF Side
  <2>10. Heard' /\ \A u \in Side : Elems(down[u]) \subseteq Elems(down'[u])
    BY <1>3, <1>4, <1>14, <2>7, <2>9 DEF NoteKind
  <2>11. Pipe(s, 1)' = Elems(up[c]) /\ Pipe(s, 1) = {m} \cup Elems(up[c])
    <3>1. InHand(s, 1)' = {}
      BY <2>8 DEF InHand, c
    <3>2. Pipe(s, 1)' = InHand(s, 1)' \cup Elems(up'[c])
      BY PipeNext DEF c
    <3> QED
      BY <2>1, <2>2, <3>1, <3>2 DEF Pipe, c
  <2>12. m \in Elems(down'[Peer(s)])
    BY <1>3, <1>4, <2>7, AppendElems DEF p
  <2>13. Said' /\ Alone'
    BY <1>13, <2>8, <2>11
  <2> QED
    BY <1>17, <2>10, <2>11, <2>12, <2>13
<1>25. CASE Drop(s, 1)
  <2>1. phase[c] # "greeting" /\ registered[s] = 1
    BY <1>5, <1>25, CalmSockets DEF Drop, c
  <2>2. phase'[c] = "leaving"
    BY <1>3, <1>4, <1>25, <2>1 DEF Drop, c
  <2> QED
    BY <1>7, <2>2 DEF Working
<1> QED
  BY <1>1, <1>2, <1>20, <1>21, <1>22, <1>23, <1>24, <1>25

(* A device that dials finds the link silent.                              *)
LEMMA CalmDial ==
  ASSUME IInv, Registered, Calm, Calm', Hushed, NEW s \in Side, Dial(s), shakes' = shakes
  PROVE  Hushed' /\ shakes = 0
<1> DEFINE c == <<s, 1>>
           p == Peer(s)
           d == <<p, 1>>
<1>1. /\ dialed \in [Side -> 0 .. MaxConns] /\ phase \in [Conn -> Phase] /\ up \in [Conn -> Seq(Msg)]
      /\ held \in [Conn -> [msg : Msg, dest : 0 .. MaxConns]]
  BY Types DEF IInv, RestTypes, QueueTypes
<1>2. /\ p \in Side /\ p # s /\ (\A t \in Side : t = s \/ t = p) /\ c \in Conn /\ d \in Conn /\ d # c
  BY Peers, CalmSockets
<1>3. dialed[s] = 0
  <2>1. dialed[s] \in {0, 1} /\ dialed' = [dialed EXCEPT ![s] = dialed[s] + 1]
    BY CalmSockets DEF Dial
  <2>2. dialed'[s] <= 1
    BY DEF Calm
  <2> QED
    BY <1>1, <2>1, <2>2
<1>4. shakes = 0 /\ Pipe(s, 1) = {} /\ Pipe(p, 1) = {}
  BY <1>2, <1>3 DEF Hushed, Alone
<1>5. /\ phase' = [phase EXCEPT ![c] = "greeting"] /\ up' = up /\ down' = down
      /\ held' = [held EXCEPT ![c] = [msg |-> Note("ok", s = "phone" /\ registered["host"] # 0), dest |-> 0]]
      /\ dialed' = [dialed EXCEPT ![s] = 1]
  BY <1>3 DEF Dial
<1> HIDE DEF c, d, p
<1>6. /\ phase'[c] = "greeting" /\ phase'[d] = phase[d] /\ held'[d] = held[d] /\ dialed'[s] = 1 /\ dialed'[p] = dialed[p]
      /\ held'[c].msg = Note("ok", s = "phone" /\ registered["host"] # 0)
  BY <1>1, <1>2, <1>5
<1>7. dialed'["host"] = 0 => dialed["host"] = 0 /\ s # "host"
  BY <1>1, <1>5
<1>8. held'[c].msg.kind = "ok" /\ (dialed'["host"] = 0 => ~held'[c].msg.yes)
  <2>1. dialed["host"] = 0 => registered["host"] = 0
    BY CalmSockets DEF Side
  <2> DEFINE yes == s = "phone" /\ registered["host"] # 0
  <2>2. held'[c].msg.kind = "ok" /\ held'[c].msg.yes = yes
    BY <1>6 DEF Note
  <2> QED
    BY <1>7, <2>1, <2>2
<1>9. Pipe(s, 1)' = {} /\ Pipe(p, 1)' = {}
  <2>1. InHand(s, 1)' = {}
    BY <1>6 DEF InHand, c
  <2>2. InHand(p, 1)' = InHand(p, 1)
    BY <1>6 DEF InHand, d
  <2> QED
    BY <1>4, <1>5, <2>1, <2>2, PipeNext DEF Pipe
<1>10. Heard'
  BY <1>5, <1>7 DEF Hushed, Heard, Elems
<1>11. Said'
  <2> SUFFICES ASSUME NEW t \in Side
               PROVE  /\ phase'[<<t, 1>>] = "greeting" =>
                           held'[<<t, 1>>].msg.kind = "ok" /\ (dialed'["host"] = 0 => ~held'[<<t, 1>>].msg.yes)
                      /\ phase'[<<t, 1>>] = "telling" => t = "host" /\ held'[<<t, 1>>].msg.kind = "up"
                      /\ phase'[<<t, 1>>] = "routing" => held'[<<t, 1>>].dest = 1
                      /\ \A x \in Pipe(t, 1)' : x.kind \notin NoteKind
    BY DEF Said
  <2>1. CASE t = s
    BY <1>6, <1>8, <1>9, <2>1 DEF c
  <2>2. CASE t = p
    BY <1>2, <1>6, <1>7, <1>9, <2>2 DEF d, Hushed, Said
  <2> QED
    BY <1>2, <2>1, <2>2
<1>12. Alone'
  <2>1. \A t \in Side : Pipe(t, 1)' = {}
    BY <1>2, <1>9
  <2> QED
    BY <1>4, <2>1 DEF Alone
<1> QED
  BY <1>4, <1>10, <1>11, <1>12 DEF Hushed

(* What a device reads, when it does.                                      *)
ReadsOrNot(s) == down' = down \/ (down[s] # <<>> /\ down' = [down EXCEPT ![s] = Tail(@)])

(* And what it writes: frames, and no frame before the first handshake.    *)
WritesOrNot(s, frames) ==
  /\ \A f \in Elems(frames) : f.kind \notin NoteKind
  /\ (up' = up /\ frames = <<>>) \/ (up' = Written(s, frames) /\ ws[s] # 0)
  /\ shakes' = 0 => frames = <<>>
  /\ shakes' = shakes \/ (shakes' # 0 /\ \A t \in Side : dialed[t] # 0)

(* A step of a device leaves what is on its way but for what it reads.     *)
LEMMA CalmDevice ==
  ASSUME IInv, Registered, Calm, Hushed, NEW s \in Side,
         UNCHANGED <<dialed, ws, relayVars>>, ReadsOrNot(s),
         NEW frames \in Seq(Msg), WritesOrNot(s, frames)
  PROVE  /\ Hushed'
         /\ Elems(frames) \subseteq Way(s)' /\ Way(s) \subseteq Way(s)'
         /\ \A m \in Way(Peer(s)) : m \in Way(Peer(s))' \/ (m = Head(down[s]) /\ down' # down)
<1> DEFINE p == Peer(s)
<1>1. /\ down \in [Side -> Seq(Msg)] /\ up \in [Conn -> Seq(Msg)]
      /\ p \in Side /\ p # s /\ Peer(p) = s /\ (\A t \in Side : t = s \/ t = p)
      /\ <<s, 1>> \in Conn /\ <<p, 1>> \in Conn
  BY Peers, CalmSockets, Types DEF IInv, QueueTypes
<1> HIDE DEF p
<1>2. /\ down'[p] = down[p]
      /\ Elems(down'[s]) \subseteq Elems(down[s])
      /\ \A m \in Elems(down[s]) : m \in Elems(down'[s]) \/ (m = Head(down[s]) /\ down' # down)
  <2>1. CASE down' = down
    BY <2>1
  <2>2. CASE down[s] # <<>> /\ down' = [down EXCEPT ![s] = Tail(@)]
    <3>1. down'[s] = Tail(down[s]) /\ down'[p] = down[p]
      BY <1>1, <2>2
    <3>2. /\ Elems(down[s]) = {Head(down[s])} \cup Elems(Tail(down[s]))
          /\ Len(Tail(down[s])) = Len(down[s]) - 1 /\ Len(down[s]) \in Nat \ {0}
      BY <1>1, <2>2, TailElems
    <3>3. ASSUME down' = down PROVE FALSE
      <4>1. Len(down[s]) = Len(down[s]) - 1 /\ Len(down[s]) \in Nat
        BY <3>1, <3>2, <3>3
      <4> QED
        BY <4>1
    <3> QED
      BY <3>1, <3>2, <3>3
  <2> QED
    BY <2>1, <2>2 DEF ReadsOrNot
<1>3. \A t \in Side : InHand(t, 1)' = InHand(t, 1)
  BY DEF InHand, relayVars
<1>4. up'[<<p, 1>>] = up[<<p, 1>>] /\ Elems(up'[<<s, 1>>]) = Elems(up[<<s, 1>>]) \cup Elems(frames)
  <2>1. CASE up' = up /\ frames = <<>>
    BY <2>1, NoElems
  <2>2. CASE up' = Written(s, frames) /\ ws[s] # 0
    <3>1. Connected(s) /\ ws[s] = 1
      BY <2>2, CalmSockets
    <3>2. up' = [up EXCEPT ![<<s, 1>>] = @ \o frames]
      BY <2>2, <3>1 DEF Written
    <3>3. up'[<<s, 1>>] = up[<<s, 1>>] \o frames /\ up'[<<p, 1>>] = up[<<p, 1>>]
      BY <1>1, <3>2
    <3>4. up[<<s, 1>>] \in Seq(Msg)
      BY <1>1
    <3> QED
      BY <3>3, <3>4, ConcatElems
  <2> QED
    BY <2>1, <2>2 DEF WritesOrNot
<1>5. Pipe(p, 1)' = Pipe(p, 1) /\ Pipe(s, 1)' = Pipe(s, 1) \cup Elems(frames)
  <2>1. Pipe(p, 1)' = InHand(p, 1)' \cup Elems(up'[<<p, 1>>]) /\ Pipe(s, 1)' = InHand(s, 1)' \cup Elems(up'[<<s, 1>>])
    BY PipeNext
  <2> QED
    BY <1>1, <1>3, <1>4, <2>1 DEF Pipe
<1>6. Heard'
  <2>1. \A t \in Side : Elems(down'[t]) \subseteq Elems(down[t])
    BY <1>1, <1>2
  <2>2. /\ \A t \in Side : \A m \in Elems(down'[t]) : m.kind \notin {"down", "lost"}
        /\ dialed["host"] = 0 => \A m \in Elems(down'["phone"]) : m.kind = "ok" /\ ~m.yes
    BY <2>1 DEF Hushed, Heard, Side
  <2> QED
    BY <2>2 DEF Heard, Elems
<1>7. Said'
  <2>1. \A t \in Side : \A m \in Pipe(t, 1)' : m.kind \notin NoteKind
    BY <1>1, <1>5 DEF Hushed, Said, WritesOrNot
  <2>2. \A t \in Side :
          /\ phase'[<<t, 1>>] = "greeting" =>
               held'[<<t, 1>>].msg.kind = "ok" /\ (dialed'["host"] = 0 => ~held'[<<t, 1>>].msg.yes)
          /\ phase'[<<t, 1>>] = "telling" => t = "host" /\ held'[<<t, 1>>].msg.kind = "up"
          /\ phase'[<<t, 1>>] = "routing" => held'[<<t, 1>>].dest = 1
    BY DEF Hushed, Said, relayVars
  <2> QED
    BY <2>1, <2>2 DEF Said
<1>8. Alone'
  <2>1. \A t \in Side : dialed'[t] = 0 => shakes' = 0
    BY DEF Hushed, Alone, WritesOrNot
  <2>2. ASSUME shakes' = 0, NEW t \in Side PROVE Pipe(t, 1)' = {}
    <3>1. Pipe(t, 1) = {} /\ Elems(frames) = {}
      BY <2>2, NoElems DEF Hushed, Alone, WritesOrNot
    <3> QED
      BY <1>1, <1>5, <3>1
  <2> QED
    BY <2>1, <2>2 DEF Alone
<1>9. Way(s)' = Elems(down'[p]) \cup Pipe(s, 1)' /\ Way(p)' = Elems(down'[s]) \cup Pipe(p, 1)'
  BY <1>1 DEF Way, Elems, Peer, p
<1>10. Way(s) = Elems(down[p]) \cup Pipe(s, 1) /\ Way(p) = Elems(down[s]) \cup Pipe(p, 1)
  BY <1>1 DEF Way, p
<1> QED
  BY <1>2, <1>5, <1>6, <1>7, <1>8, <1>9, <1>10 DEF Hushed, p

(* Before the handshake the ends have no channel.                          *)
LEMMA NoChannels ==
  ASSUME Sane, Calm, pending # 0 \/ phoneChan # 0 \/ hostChan # 0
  PROVE  shakes = 1
<1>1. /\ shakes \in Nat /\ pending \in Nat /\ phoneChan \in Nat /\ hostChan \in Nat
      /\ pending <= shakes /\ phoneChan <= shakes /\ hostChan <= shakes /\ shakes <= 1
  BY Types DEF Sane, IInv, PhoneTypes, HostTypes, Talk, Bounds, Calm
<1> QED
  BY <1>1

(* There is but one channel.                                               *)
LEMMA OneChannel ==
  ASSUME Sane, Calm, NEW m \in ToHost \cup ToPhone
  PROVE  m.chan = 1 /\ shakes = 1
<1>1. m.chan \in 1 .. shakes /\ shakes \in Nat /\ shakes <= 1
  BY Types DEF Sane, IInv, PhoneTypes, Talk, Bounds, Calm
<1> QED
  BY <1>1

(* A frame on its way is under way.                                        *)
LEMMA WayFlight ==
  ASSUME IInv, NEW s \in Side, NEW m \in Way(s), m.kind \notin NoteKind
  PROVE  m \in Flight(s)
<1>1. 1 \in 1 .. MaxConns
  BY ConnsAssumption
<1> QED
  BY <1>1, FlightPlaces DEF Way

(* A device that reads a frame has a socket, and writes without error.     *)
LEMMA CalmReads ==
  ASSUME Sane, Registered, Calm, NEW s \in Side, NEW kind, Reads(s, kind) \/ (ReadsOk(s) /\ kind = "ok")
  PROVE  /\ ReadsOrNot(s) /\ Head(down[s]) \in Elems(down[s]) /\ Head(down[s]).kind = kind
         /\ kind \notin NoteKind => Head(down[s]) \in Flight(Peer(s)) /\ Head(down[s]).chan = 1 /\ shakes = 1
         /\ dialed[s] = 1 /\ ws[s] # 0 /\ WriteErr(s) = {FALSE}
<1> DEFINE m == Head(down[s])
<1>1. /\ down[s] # <<>> /\ m.kind = kind /\ down' = [down EXCEPT ![s] = Tail(@)] /\ ws[s] # 0
  BY DEF Reads, ReadsOk
<1>2. m \in Elems(down[s])
  <2>1. down[s] \in Seq(Msg)
    BY Types DEF Sane, IInv, QueueTypes
  <2> QED
    BY <1>1, <2>1, TailElems
<1> HIDE DEF m
<1>3. kind \notin NoteKind => m \in Flight(Peer(s)) /\ m.chan = 1 /\ shakes = 1
  <2> SUFFICES ASSUME kind \notin NoteKind PROVE m \in Flight(Peer(s)) /\ m.chan = 1 /\ shakes = 1
    OBVIOUS
  <2>1. m \in Flight(Peer(s))
    BY <1>1, <1>2, FlightPlaces, Peers
  <2>2. m \in ToHost \cup ToPhone
    BY <2>1, Directions DEF Side
  <2> QED
    BY <2>1, <2>2, OneChannel
<1>4. dialed[s] = 1 /\ Connected(s)
  BY <1>1, CalmSockets DEF Sane
<1>5. WriteErr(s) = {FALSE}
  BY <1>4 DEF WriteErr
<1> QED
  BY <1>1, <1>2, <1>3, <1>4, <1>5 DEF ReadsOrNot, m

(* With a channel, or while it shakes, both devices have a socket.         *)
LEMMA CalmWrites ==
  ASSUME Sane, Registered, Calm, Hushed, shakes # 0, NEW s \in Side
  PROVE  dialed[s] = 1 /\ ws[s] # 0 /\ WriteErr(s) = {FALSE}
<1>1. dialed[s] = 1 /\ Connected(s) /\ ws[s] = 1
  BY CalmSockets DEF Sane, Hushed, Alone
<1> QED
  BY <1>1 DEF WriteErr

(* What the handshake sends stays on its way, and the ends keep what it    *)
(* has brought them.                                                       *)
ShakeKind == {"hs1", "hs2", "attach", "attached"}
Remains(s, kind) == Under(s, kind) => Under(s, kind)'
LEMMA StageStays ==
  ASSUME Stage, Remains("phone", "hs1"), Remains("phone", "attach"), Remains("host", "hs2"), Remains("host", "attached"),
         pending = 1 => pending' = 1, phoneChan = 1 => phoneChan' = 1, hostChan = 1 => hostChan' = 1,
         hostAtt => hostAtt', phoneAtt => phoneAtt'
  PROVE  Stage'
BY DEF Stage, Remains

(* A kind remains on its way if its messages do.                           *)
LEMMA RemainsIf ==
  ASSUME NEW s, NEW kind, \A m \in Way(s) : m.kind = kind => m \in Way(s)'
  PROVE  Remains(s, kind)
BY DEF Remains, Under

CalmNext == Hushed' /\ (shakes' = 1 => Stage')

(* Steps of a device that are not part of the handshake.                   *)
LEMMA CalmIdle ==
  ASSUME Sane, Registered, Calm, First, NEW s \in Side,
         UNCHANGED <<dialed, ws, relayVars, shakes, pending>>,
         phoneChan' = phoneChan, hostChan' = hostChan, hostAtt' = hostAtt, phoneAtt' = phoneAtt,
         ReadsOrNot(s), down' # down => Head(down[s]).kind \notin ShakeKind,
         NEW frames \in Seq(Msg), WritesOrNot(s, frames)
  PROVE  CalmNext
<1>1. Hushed /\ (shakes = 1 => Stage)
  BY DEF First
<1>2. /\ Hushed' /\ Way(s) \subseteq Way(s)'
      /\ \A m \in Way(Peer(s)) : m \in Way(Peer(s))' \/ (m = Head(down[s]) /\ down' # down)
  <2>1. IInv /\ Hushed
    BY <1>1 DEF Sane
  <2>2. UNCHANGED <<dialed, ws, relayVars>>
    OBVIOUS
  <2> QED
    BY <2>1, <2>2, CalmDevice
<1>3. ASSUME NEW t \in Side, NEW m \in Way(t), m.kind \in ShakeKind PROVE m \in Way(t)'
  <2>1. CASE t = s
    BY <1>2, <1>3, <2>1
  <2>2. CASE t = Peer(s)
    BY <1>2, <1>3, <2>2
  <2> QED
    BY <2>1, <2>2, Peers
<1>4. /\ Remains("phone", "hs1") /\ Remains("phone", "attach")
      /\ Remains("host", "hs2") /\ Remains("host", "attached")
  BY <1>3, RemainsIf DEF ShakeKind, Side
<1>5. shakes' = 1 => Stage'
  BY <1>1, <1>4, StageStays
<1> QED
  BY <1>2, <1>5 DEF CalmNext

(* The relay.                                                              *)
LEMMA RelayCalm ==
  ASSUME Sane, Registered, Calm, Calm', First, RelayNext
  PROVE  CalmNext
<1>1. Hushed /\ (shakes = 1 => Stage) /\ RelayStep /\ UNCHANGED hostVars /\ UNCHANGED phoneVars
  BY DEF First, RelayNext
<1>2. Hushed' /\ \A s \in Side : Way(s) \subseteq Way(s)'
  BY <1>1, CalmRelay DEF Sane, phoneVars
<1>3. /\ Remains("phone", "hs1") /\ Remains("phone", "attach")
      /\ Remains("host", "hs2") /\ Remains("host", "attached")
  BY <1>2, RemainsIf DEF Side
<1>4. shakes' = 1 => Stage'
  BY <1>1, <1>3, StageStays DEF hostVars, phoneVars
<1> QED
  BY <1>2, <1>4 DEF CalmNext

(* A device that dials.                                                    *)
LEMMA DialCalm ==
  ASSUME Sane, Registered, Calm, Calm', First, NEW s \in Side, Dial(s), UNCHANGED phoneVars
  PROVE  CalmNext
<1>1. shakes' = shakes /\ Hushed
  BY DEF First, phoneVars
<1>2. Hushed' /\ shakes = 0
  BY <1>1, CalmDial DEF Sane
<1> QED
  BY <1>1, <1>2 DEF CalmNext

(* The host answers the handshake.                                         *)
LEMMA HostShakesCalm ==
  ASSUME Sane, Registered, Calm, First, HostShakes
  PROVE  CalmNext
<1> DEFINE m == Head(down["host"])
           f == Frame("hs2", m.chan, 0, 0, FALSE)
<1>1. /\ Reads("host", "hs1") /\ HostSends(m.chan, FALSE, <<f>>)
      /\ UNCHANGED <<dialed, ws, relayVars, phoneVars>> /\ "hs1" \notin NoteKind
  BY DEF HostShakes, NoteKind
<1>2. /\ ReadsOrNot("host") /\ m.kind = "hs1" /\ m \in ToHost /\ m.chan = 1 /\ shakes = 1 /\ ws["host"] # 0
      /\ WriteErr("host") = {FALSE}
  BY <1>1, CalmReads, Directions
<1>3. up' = Written("host", <<f>>) /\ hostChan' = 1
  BY <1>1, <1>2 DEF HostSends
<1>4. f \in Msg /\ f.kind = "hs2"
  BY <1>2 DEF Frame, Msg, Kind
<1> HIDE DEF m, f
<1>5. <<f>> \in Seq(Msg) /\ Elems(<<f>>) = {f} /\ f.kind \notin NoteKind /\ shakes' = shakes
  BY <1>1, <1>4, OneFrame DEF NoteKind, phoneVars
<1>6. Hushed' /\ f \in Way("host")'
  <2>1. Hushed /\ "host" \in Side
    BY Directions DEF First
  <2>2. IInv /\ UNCHANGED <<dialed, ws, relayVars>>
    BY <1>1 DEF Sane
  <2>3. WritesOrNot("host", <<f>>)
    BY <1>2, <1>3, <1>5 DEF WritesOrNot
  <2>4. Hushed' /\ Elems(<<f>>) \subseteq Way("host")'
    BY <1>2, <1>5, <2>1, <2>2, <2>3, CalmDevice
  <2> QED
    BY <1>5, <2>4
<1>7. pending = 1
  <2>1. hostChan # 1
    BY <1>2 DEF Sane, Talk, Opened
  <2>2. Stage
    BY <1>2 DEF First
  <2> QED
    BY <2>1, <2>2 DEF Stage
<1>8. pending' = 1 /\ hostChan' = 1 /\ Under("host", "hs2")'
  <2>1. \E x \in Way("host")' : x.kind = "hs2"
    BY <1>4, <1>6
  <2> QED
    BY <1>1, <1>3, <1>7, <2>1 DEF Under, phoneVars
<1>9. Stage'
  BY <1>8 DEF Stage
<1> QED
  BY <1>6, <1>9 DEF CalmNext

(* The host answers the attach, resuming the session or with a new one.    *)
LEMMA HostAttachesCalm ==
  ASSUME Sane, Registered, Calm, First, Reads("host", "attach"), Head(down["host"]).chan = hostChan,
         NEW f \in Msg, f.kind = "attached", NEW frames \in Seq(Msg), f \in Elems(frames),
         \A x \in Elems(frames) : x.kind \notin NoteKind,
         HostSends(hostChan, TRUE, frames), UNCHANGED <<dialed, ws, relayVars>>, UNCHANGED phoneVars
  PROVE  CalmNext
<1> DEFINE m == Head(down["host"])
<1>1. /\ ReadsOrNot("host") /\ m.kind = "attach" /\ m \in ToHost /\ m.chan = 1 /\ shakes = 1 /\ ws["host"] # 0
      /\ WriteErr("host") = {FALSE}
  <2>1. "attach" \notin NoteKind
    BY DEF NoteKind
  <2> QED
    BY <2>1, CalmReads, Directions
<1>2. up' = Written("host", frames) /\ hostChan' = 1 /\ hostAtt'
  BY <1>1 DEF HostSends
<1> HIDE DEF m
<1>3. Hushed' /\ f \in Way("host")'
  <2>1. Hushed /\ "host" \in Side /\ shakes' = shakes
    BY Directions DEF First, phoneVars
  <2>2. IInv /\ WritesOrNot("host", frames)
    BY <1>1, <1>2, <2>1 DEF Sane, WritesOrNot
  <2>3. Hushed' /\ Elems(frames) \subseteq Way("host")'
    BY <1>1, <2>1, <2>2, CalmDevice
  <2> QED
    BY <2>3
<1>4. phoneChan = 1
  <2>1. CASE pending = 1
    BY <1>1, <2>1 DEF Sane, Talk, Ends
  <2>2. CASE pending # 1
    <3>1. Stage
      BY <1>1 DEF First
    <3> QED
      BY <2>2, <3>1 DEF Stage
  <2> QED
    BY <2>1, <2>2
<1>5. phoneChan' = 1 /\ Under("host", "attached")'
  <2>1. \E x \in Way("host")' : x.kind = "attached"
    BY <1>3
  <2> QED
    BY <1>4, <2>1 DEF Under, phoneVars
<1>6. Stage'
  BY <1>2, <1>5 DEF Stage
<1> QED
  BY <1>3, <1>6 DEF CalmNext

(* Nothing is written.                                                     *)
LEMMA Silent ==
  ASSUME NEW s, UNCHANGED <<up, shakes>>
  PROVE  <<>> \in Seq(Msg) /\ WritesOrNot(s, <<>>)
BY NoElems DEF WritesOrNot

(* A device that only reads, and keeps its channel.                        *)
LEMMA ReadsCalm ==
  ASSUME Sane, Registered, Calm, First, NEW s \in Side, NEW kind,
         Reads(s, kind) \/ (ReadsOk(s) /\ kind = "ok"), kind \notin ShakeKind,
         UNCHANGED <<dialed, ws, relayVars, up, shakes, pending>>,
         phoneChan' = phoneChan, hostChan' = hostChan, hostAtt' = hostAtt, phoneAtt' = phoneAtt
  PROVE  CalmNext
<1>1. ReadsOrNot(s) /\ Head(down[s]).kind = kind
  BY CalmReads
<1>2. /\ UNCHANGED <<dialed, ws, relayVars, shakes, pending>>
      /\ <<>> \in Seq(Msg) /\ WritesOrNot(s, <<>>)
  BY Silent
<1>3. down' # down => Head(down[s]).kind \notin ShakeKind
  BY <1>1
<1> QED
  BY <1>1, <1>2, <1>3, CalmIdle

(* A device that writes one frame on its channel.                          *)
LEMMA WritesCalm ==
  ASSUME Sane, Registered, Calm, First, NEW s \in Side, shakes = 1, down' = down,
         UNCHANGED <<dialed, ws, relayVars, shakes, pending>>,
         phoneChan' = phoneChan, hostChan' = hostChan, hostAtt' = hostAtt, phoneAtt' = phoneAtt,
         NEW f \in Msg, f.kind \notin NoteKind, up' = Written(s, <<f>>)
  PROVE  CalmNext
<1>1. ws[s] # 0
  <2>1. Hushed /\ shakes # 0
    BY DEF First
  <2> QED
    BY <2>1, CalmWrites
<1>2. <<f>> \in Seq(Msg) /\ Elems(<<f>>) = {f}
  BY OneFrame
<1>3. WritesOrNot(s, <<f>>) /\ ReadsOrNot(s)
  BY <1>1, <1>2 DEF WritesOrNot, ReadsOrNot
<1> QED
  BY <1>2, <1>3, CalmIdle

(* A host that resumes the session or starts one.                          *)
LEMMA HostAnswersCalm ==
  ASSUME Sane, Registered, Calm, First, HostResumes \/ HostRenews
  PROVE  CalmNext
<1>1. CASE HostResumes
  <2> DEFINE m == Head(down["host"])
             replay == After(spool.entries, m.n)
             frames == Resumption(hostChan, app, replay)
             f == Frame("attached", hostChan, app, 0, TRUE)
  <2>1. /\ Reads("host", "attach") /\ m.chan = hostChan /\ hostChan \in Nat /\ app \in Nat /\ replay \in Seq(Nat)
        /\ HostSends(hostChan, TRUE, frames) /\ UNCHANGED phoneVars
    BY <1>1, HostResumesShape
  <2>2. UNCHANGED <<dialed, ws, relayVars>>
    BY <1>1 DEF HostResumes
  <2>3. /\ frames \in Seq(Msg) /\ Len(frames) = Len(replay) + 1 /\ frames[1] = f
        /\ \A x \in Elems(frames) : OfResumption(x, hostChan, app, replay)
    BY <2>1, ResumptionFrames
  <2>4. f.kind = "attached"
    BY DEF Frame
  <2> HIDE DEF m, replay, frames, f
  <2>5. f \in Elems(frames)
    <3>1. 1 \in 1 .. Len(frames)
      BY <2>1, <2>3
    <3> QED
      BY <2>3, <3>1 DEF Elems
  <2>6. f \in Msg
    BY <2>3, <2>5, ElemsTyped
  <2>7. \A x \in Elems(frames) : x.kind \notin NoteKind
    BY <2>3 DEF OfResumption, NoteKind
  <2> QED
    BY <2>1, <2>2, <2>3, <2>4, <2>5, <2>6, <2>7, HostAttachesCalm DEF m
<1>2. CASE HostRenews
  <2> DEFINE f == Frame("attached", hostChan, started + 1, 0, FALSE)
  <2>1. /\ Reads("host", "attach") /\ Head(down["host"]).chan = hostChan
        /\ HostSends(hostChan, TRUE, <<f>>) /\ UNCHANGED <<dialed, ws, relayVars>> /\ UNCHANGED phoneVars
    BY <1>2 DEF HostRenews, HostOpens
  <2>2. hostChan \in Nat /\ started + 1 \in Nat
    BY Types, LinkAssumption DEF Sane, IInv, HostTypes
  <2>3. f \in Msg /\ f.kind = "attached"
    BY <2>2 DEF Frame, Msg, Kind
  <2> HIDE DEF f
  <2>4. <<f>> \in Seq(Msg) /\ f \in Elems(<<f>>) /\ \A x \in Elems(<<f>>) : x.kind \notin NoteKind
    BY <2>3, OneFrame DEF NoteKind
  <2> QED
    BY <2>1, <2>3, <2>4, HostAttachesCalm
<1> QED
  BY <1>1, <1>2

(* A host that gets a frame of another channel has not yet been shaken.    *)
LEMMA HostIgnoresCalm ==
  ASSUME Sane, Registered, Calm, First, HostIgnores
  PROVE  CalmNext
<1>1. PICK kind \in {"attach", "ack", "ask"} : Reads("host", kind)
  BY DEF HostIgnores
<1>2. /\ Head(down["host"]).chan # hostChan
      /\ UNCHANGED <<dialed, ws, relayVars, up, shakes, pending>>
      /\ phoneChan' = phoneChan /\ hostChan' = hostChan /\ hostAtt' = hostAtt /\ phoneAtt' = phoneAtt
  BY DEF HostIgnores, hostVars, phoneVars
<1>3. CASE kind # "attach"
  BY <1>1, <1>2, <1>3, ReadsCalm, Directions DEF ShakeKind
<1>4. CASE kind = "attach"
  <2>1. /\ ReadsOrNot("host") /\ Head(down["host"]).kind = "attach" /\ Head(down["host"]).chan = 1 /\ shakes = 1
    BY <1>1, <1>4, CalmReads, Directions DEF NoteKind
  <2>2. <<>> \in Seq(Msg) /\ WritesOrNot("host", <<>>)
    BY <1>2, Silent
  <2>3. Hushed /\ Stage
    BY <2>1 DEF First
  <2>4. /\ Hushed'
        /\ \A x \in Way("phone") : x \in Way("phone")' \/ (x = Head(down["host"]) /\ down' # down)
    BY <1>2, <2>1, <2>2, <2>3, CalmDevice, Directions DEF Sane
  <2>5. pending = 1 /\ Under("phone", "hs1")
    BY <1>2, <2>1, <2>3 DEF Stage
  <2>6. Under("phone", "hs1")'
    <3>1. \A x \in Way("phone") : x.kind = "hs1" => x \in Way("phone")'
      BY <2>1, <2>4
    <3> QED
      BY <2>5, <3>1 DEF Under
  <2> QED
    BY <1>2, <2>4, <2>5, <2>6 DEF CalmNext, Stage
<1> QED
  BY <1>3, <1>4

(* The steps of the host.                                                  *)
LEMMA HostCalm ==
  ASSUME Sane, Registered, Calm, Calm', First, HostNext \/ HostEmits,
         \A s \in Side : ~HangUp(s)
  PROVE  CalmNext
<1>0. "host" \in Side
  BY DEF Side
<1>1. CASE HostShakes
  BY <1>1, HostShakesCalm
<1>2. CASE HostResumes \/ HostRenews
  BY <1>2, HostAnswersCalm
<1>3. CASE HostIgnores
  BY <1>3, HostIgnoresCalm
<1>4. CASE HostTrims \/ HostForwards
  <2>1. PICK kind \in {"ack", "ask"} : Reads("host", kind)
    BY <1>4 DEF HostTrims, HostForwards, HostOpens
  <2>2. /\ UNCHANGED <<dialed, ws, relayVars, up, shakes, pending>>
        /\ phoneChan' = phoneChan /\ hostChan' = hostChan /\ hostAtt' = hostAtt /\ phoneAtt' = phoneAtt
    BY <1>4 DEF HostTrims, HostForwards, hostVars, phoneVars
  <2> QED
    BY <1>0, <2>1, <2>2, ReadsCalm DEF ShakeKind
<1>5. CASE HostDetaches
  <2>1. PICK kind \in {"down", "lost"} : Reads("host", kind)
    BY <1>5 DEF HostDetaches
  <2>2. Head(down["host"]) \in Elems(down["host"]) /\ Head(down["host"]).kind = kind
    BY <1>0, <2>1, CalmReads
  <2> QED
    BY <1>0, <2>1, <2>2 DEF First, Hushed, Heard
<1>6. CASE HostConnects
  <2>1. CASE Dial("host") /\ UNCHANGED phoneVars
    BY <1>0, <2>1, DialCalm
  <2>2. CASE ReadsOk("host") /\ UNCHANGED <<hostVars, phoneVars, restarts, dialed, ws, relayVars, up>>
    <3>1. /\ UNCHANGED <<dialed, ws, relayVars, up, shakes, pending>>
          /\ phoneChan' = phoneChan /\ hostChan' = hostChan /\ hostAtt' = hostAtt /\ phoneAtt' = phoneAtt
      BY <2>2 DEF hostVars, phoneVars
    <3> QED
      BY <1>0, <2>2, <3>1, ReadsCalm DEF ShakeKind
  <2> QED
    BY <1>6, <2>1, <2>2 DEF HostConnects
<1>7. CASE HostHangsUp
  BY <1>0, <1>7 DEF HostHangsUp
<1>8. CASE HostEmits
  <2> DEFINE f == Frame("rpc", hostChan, app, emitted[app] + 1, FALSE)
  <2>1. /\ IF hostAtt /\ hostChan # 0 THEN HostSends(hostChan, hostAtt, <<f>>) ELSE UNCHANGED <<up, hostChan, hostAtt>>
        /\ UNCHANGED <<dialed, ws, relayVars, shakes, pending>> /\ down' = down
        /\ phoneChan' = phoneChan /\ phoneAtt' = phoneAtt /\ app # 0
    BY <1>8 DEF HostEmits, phoneVars
  <2>2. hostChan \in Nat /\ app \in Nat /\ emitted[app] + 1 \in Nat /\ hostAtt \in BOOLEAN
    <3>1. HostTypes
      BY Types DEF Sane, IInv
    <3>2. app \in Session /\ app \in Nat
      BY <2>1, <3>1, LinkAssumption DEF HostTypes, Session
    <3> QED
      BY <3>1, <3>2 DEF HostTypes
  <2>3. f \in Msg /\ f.kind \notin NoteKind
    BY <2>2 DEF Frame, Msg, Kind, NoteKind
  <2> HIDE DEF f
  <2>4. CASE hostAtt /\ hostChan # 0
    <3>1. shakes = 1 /\ WriteErr("host") = {FALSE}
      <4>1. shakes = 1 /\ shakes # 0 /\ Hushed
        BY <2>4, NoChannels DEF First
      <4> QED
        BY <1>0, <4>1, CalmWrites
    <3>2. up' = Written("host", <<f>>) /\ hostChan' = hostChan /\ hostAtt' = hostAtt
      BY <2>1, <2>2, <2>4, <3>1 DEF HostSends
    <3> QED
      BY <1>0, <2>1, <2>3, <3>1, <3>2, WritesCalm
  <2>5. CASE ~(hostAtt /\ hostChan # 0)
    <3>1. UNCHANGED <<up, shakes>> /\ hostChan' = hostChan /\ hostAtt' = hostAtt
      BY <2>1, <2>5
    <3>2. <<>> \in Seq(Msg) /\ WritesOrNot("host", <<>>) /\ ReadsOrNot("host")
      BY <2>1, <3>1, Silent DEF ReadsOrNot
    <3> QED
      BY <1>0, <2>1, <3>1, <3>2, CalmIdle
  <2> QED
    BY <2>4, <2>5
<1> QED
  BY <1>1, <1>2, <1>3, <1>4, <1>5, <1>6, <1>7, <1>8 DEF HostNext

(* The phone starts the handshake on what it reads, when the host is there.*)
LEMMA PhoneShakesCalm ==
  ASSUME Sane, Registered, Calm, Calm', First, NEW kind \in {"ok", "up"},
         Reads("phone", kind) \/ (ReadsOk("phone") /\ kind = "ok" /\ Head(down["phone"]).yes),
         kind = "ok" => Head(down["phone"]).yes,
         PhoneShakes, UNCHANGED <<dialed, ws, relayVars>>
  PROVE  CalmNext
<1> DEFINE f == Frame("hs1", shakes + 1, 0, 0, FALSE)
           m == Head(down["phone"])
<1>1. /\ shakes' = shakes + 1 /\ pending' = shakes + 1 /\ up' = Written("phone", <<f>>)
  BY DEF PhoneShakes
<1>2. shakes \in Nat /\ shakes + 1 \in Nat
  BY Types DEF Sane, IInv, PhoneTypes
<1>3. shakes = 0 /\ shakes' = 1
  BY <1>1, <1>2 DEF Calm
<1>4. f \in Msg /\ f.kind = "hs1"
  BY <1>2 DEF Frame, Msg, Kind
<1>5. /\ ReadsOrNot("phone") /\ m \in Elems(down["phone"]) /\ m.kind = kind
      /\ dialed["phone"] = 1 /\ ws["phone"] # 0 /\ WriteErr("phone") = {FALSE}
  BY CalmReads, Directions
<1> HIDE DEF f, m
<1>6. Hushed
  BY DEF First
<1>7. dialed["host"] # 0
  <2>1. dialed["host"] = 0 => m.kind = "ok" /\ ~m.yes
    BY <1>5, <1>6 DEF Hushed, Heard
  <2> QED
    BY <1>5, <2>1 DEF m
<1>8. <<f>> \in Seq(Msg) /\ Elems(<<f>>) = {f} /\ f.kind \notin NoteKind
  BY <1>4, OneFrame DEF NoteKind
<1>9. WritesOrNot("phone", <<f>>)
  <2>1. \A t \in Side : dialed[t] # 0
    BY <1>5, <1>7 DEF Side
  <2> QED
    BY <1>1, <1>3, <1>5, <1>8, <2>1 DEF WritesOrNot
<1>10. Hushed' /\ f \in Way("phone")'
  <2>1. Hushed' /\ Elems(<<f>>) \subseteq Way("phone")'
    BY <1>5, <1>6, <1>8, <1>9, CalmDevice, Directions DEF Sane
  <2> QED
    BY <1>8, <2>1
<1>11. pending' = 1 /\ Under("phone", "hs1")'
  <2>1. \E x \in Way("phone")' : x.kind = "hs1"
    BY <1>4, <1>10
  <2> QED
    BY <1>1, <1>3, <2>1 DEF Under
<1> QED
  BY <1>10, <1>11 DEF CalmNext, Stage

(* The phone has its channel and attaches, or had it already.              *)
LEMMA PhoneCompletesCalm ==
  ASSUME Sane, Registered, Calm, First, PhoneCompletes
  PROVE  CalmNext
<1> DEFINE m == Head(down["phone"])
           f == Frame("attach", m.chan, contID, lastRecv, FALSE)
<1>1. /\ Reads("phone", "hs2") /\ pending' = 0 /\ shakes' = shakes
      /\ UNCHANGED <<dialed, ws, relayVars>> /\ UNCHANGED hostVars /\ "hs2" \notin NoteKind
  BY DEF PhoneCompletes, NoteKind
<1>2. /\ ReadsOrNot("phone") /\ m.kind = "hs2" /\ m \in ToPhone /\ m.chan = 1 /\ shakes = 1 /\ ws["phone"] # 0
      /\ WriteErr("phone") = {FALSE}
  BY <1>1, CalmReads, Directions
<1>3. Hushed /\ Stage /\ "phone" \in Side
  BY <1>2, Directions DEF First
<1>4. CASE pending = 1
  <2>1. hostChan = 1
    <3>1. ~Under("phone", "hs1")
      <4> SUFFICES ASSUME NEW x \in Way("phone"), x.kind = "hs1" PROVE FALSE
        BY DEF Under
      <4>1. x \in ToHost
        BY <1>3, WayFlight, Directions DEF Sane, NoteKind
      <4>2. x.chan = 1 /\ \A y \in ToPhone : y.chan # x.chan
        BY <4>1, OneChannel DEF Sane, Talk, Opened
      <4> QED
        BY <1>2, <4>2
    <3>2. phoneChan = 0
      BY <1>4 DEF Sane, Talk, Ends
    <3> QED
      BY <1>3, <3>1, <3>2 DEF Stage
  <2>2. phoneChan' = 1 /\ up' = Written("phone", <<f>>)
    <3>1. pending # 0 /\ pending = m.chan
      BY <1>2, <1>4
    <3>2. \E failed \in WriteErr("phone") :
            phoneChan' = (IF failed THEN 0 ELSE m.chan) /\ up' = Written("phone", <<f>>)
      BY <3>1 DEF PhoneCompletes
    <3> QED
      BY <1>2, <3>2
  <2>3. f \in Msg /\ f.kind = "attach"
    <3>1. m.chan \in Nat /\ contID \in Nat /\ lastRecv \in Nat
      BY <1>2, Types DEF Sane, IInv, PhoneTypes
    <3> QED
      BY <3>1 DEF Frame, Msg, Kind
  <2> HIDE DEF f, m
  <2>4. <<f>> \in Seq(Msg) /\ Elems(<<f>>) = {f} /\ f.kind \notin NoteKind
    BY <2>3, OneFrame DEF NoteKind
  <2>5. WritesOrNot("phone", <<f>>)
    BY <1>1, <1>2, <2>2, <2>4 DEF WritesOrNot
  <2>6. Hushed' /\ f \in Way("phone")'
    <3>1. Hushed' /\ Elems(<<f>>) \subseteq Way("phone")'
      BY <1>1, <1>2, <1>3, <2>4, <2>5, CalmDevice DEF Sane
    <3> QED
      BY <2>4, <3>1
  <2>7. Under("phone", "attach")' /\ hostChan' = 1
    <3>1. \E x \in Way("phone")' : x.kind = "attach"
      BY <2>3, <2>6
    <3> QED
      BY <1>1, <2>1, <3>1 DEF Under, hostVars
  <2> QED
    BY <2>2, <2>6, <2>7 DEF CalmNext, Stage
<1>5. CASE pending # 1
  <2>1. UNCHANGED <<phoneChan, phoneAtt, up>>
    <3>1. ~(pending # 0 /\ pending = m.chan)
      BY <1>2, <1>5
    <3> QED
      BY <3>1 DEF PhoneCompletes
  <2>2. <<>> \in Seq(Msg) /\ WritesOrNot("phone", <<>>)
    BY <1>1, <2>1, Silent
  <2>3. /\ Hushed' /\ Way("phone") \subseteq Way("phone")'
        /\ \A x \in Way("host") : x \in Way("host")' \/ (x = m /\ down' # down)
    BY <1>1, <1>2, <1>3, <2>2, CalmDevice, Directions DEF Sane
  <2>4. Remains("phone", "attach") /\ Remains("host", "attached")
    <3>1. \A x \in Way("host") : x.kind = "attached" => x \in Way("host")'
      BY <1>2, <2>3
    <3> QED
      BY <2>3, <3>1, RemainsIf
  <2>5. Stage'
    <3>1. /\ phoneChan' = phoneChan /\ phoneAtt' = phoneAtt /\ hostChan' = hostChan /\ hostAtt' = hostAtt
      BY <1>1, <2>1 DEF hostVars
    <3> QED
      BY <1>3, <1>5, <2>4, <3>1 DEF Stage, Remains
  <2> QED
    BY <2>3, <2>5 DEF CalmNext
<1> QED
  BY <1>4, <1>5

(* The phone reads the answer to its attach.                               *)
LEMMA PhoneAttachesCalm ==
  ASSUME Sane, Registered, Calm, First, PhoneAttaches
  PROVE  CalmNext
<1> DEFINE m == Head(down["phone"])
<1>1. /\ Reads("phone", "attached") /\ m.chan = phoneChan /\ phoneAtt' = TRUE
      /\ UNCHANGED <<dialed, ws, relayVars, up, shakes, phoneChan>> /\ UNCHANGED hostVars /\ "attached" \notin NoteKind
  BY DEF PhoneAttaches, PhoneOpens, NoteKind
<1>2. /\ ReadsOrNot("phone") /\ m.kind = "attached" /\ m \in ToPhone /\ m.chan = 1 /\ shakes = 1
  BY <1>1, CalmReads, Directions
<1> HIDE DEF m
<1>3. Hushed /\ Stage /\ "phone" \in Side
  BY <1>2, Directions DEF First
<1>4. Hushed'
  <2>1. <<>> \in Seq(Msg) /\ WritesOrNot("phone", <<>>)
    BY <1>1, Silent
  <2> QED
    BY <1>1, <1>2, <1>3, <2>1, CalmDevice DEF Sane
<1>5. pending # 1
  BY <1>1, <1>2 DEF Sane, Talk, Ends
<1>6. ~Under("phone", "attach")
  <2> SUFFICES ASSUME NEW x \in Way("phone"), x.kind = "attach" PROVE FALSE
    BY DEF Under
  <2>1. x \in ToHost
    BY <1>3, WayFlight, Directions DEF Sane, NoteKind
  <2>2. x.chan = 1 /\ \A y \in ToPhone : y.chan = x.chan => y.kind = "hs2"
    BY <2>1, OneChannel DEF Sane, Talk, Attaching
  <2> QED
    BY <1>2, <2>2
<1>7. hostChan = 1 /\ hostAtt
  BY <1>3, <1>5, <1>6 DEF Stage
<1>8. Stage'
  BY <1>1, <1>2, <1>7 DEF Stage, hostVars
<1> QED
  BY <1>4, <1>8 DEF CalmNext

(* A phone that gets a frame of another channel has yet to complete its    *)
(* handshake.                                                              *)
LEMMA PhoneIgnoresCalm ==
  ASSUME Sane, Registered, Calm, First, PhoneIgnores
  PROVE  CalmNext
<1>1. PICK kind \in {"attached", "rpc"} : Reads("phone", kind)
  BY DEF PhoneIgnores
<1>2. /\ Head(down["phone"]).chan # phoneChan
      /\ UNCHANGED <<dialed, ws, relayVars, up, shakes, pending>> /\ hostChan' = hostChan
  BY DEF PhoneIgnores, hostVars, phoneVars
<1>3. /\ ReadsOrNot("phone") /\ Head(down["phone"]).kind = kind /\ Head(down["phone"]).chan = 1 /\ shakes = 1
  BY <1>1, CalmReads, Directions DEF NoteKind
<1>4. Hushed /\ Stage
  BY <1>3 DEF First
<1>5. /\ Hushed' /\ Way("phone") \subseteq Way("phone")'
      /\ \A x \in Way("host") : x \in Way("host")' \/ (x = Head(down["phone"]) /\ down' # down)
  <2>1. <<>> \in Seq(Msg) /\ WritesOrNot("phone", <<>>)
    BY <1>2, Silent
  <2> QED
    BY <1>2, <1>3, <1>4, <2>1, CalmDevice, Directions DEF Sane
<1>6. Remains("phone", "hs1") /\ Remains("host", "hs2")
  <2>1. \A x \in Way("host") : x.kind = "hs2" => x \in Way("host")'
    BY <1>3, <1>5
  <2> QED
    BY <1>5, <2>1, RemainsIf
<1>7. Stage'
  BY <1>2, <1>3, <1>4, <1>6 DEF Stage, Remains
<1> QED
  BY <1>5, <1>7 DEF CalmNext

(* The steps of the phone.                                                 *)
LEMMA PhoneCalm ==
  ASSUME Sane, Registered, Calm, Calm', First, PhoneNext \/ PhoneAcks \/ PhoneAsks,
         \A s \in Side : ~HangUp(s)
  PROVE  CalmNext
<1>0. "phone" \in Side
  BY DEF Side
<1>1. CASE PhoneCompletes
  BY <1>1, PhoneCompletesCalm
<1>2. CASE PhoneAttaches
  BY <1>2, PhoneAttachesCalm
<1>3. CASE PhoneIgnores
  BY <1>3, PhoneIgnoresCalm
<1>4. CASE PhoneApplies
  <2>1. Reads("phone", "rpc")
    BY <1>4 DEF PhoneApplies, PhoneOpens
  <2>2. /\ UNCHANGED <<dialed, ws, relayVars, up, shakes, pending>>
        /\ phoneChan' = phoneChan /\ hostChan' = hostChan /\ hostAtt' = hostAtt /\ phoneAtt' = phoneAtt
    BY <1>4 DEF PhoneApplies, hostVars
  <2> QED
    BY <1>0, <2>1, <2>2, ReadsCalm DEF ShakeKind
<1>5. CASE PhoneDetaches
  <2>1. PICK kind \in {"down", "lost"} : Reads("phone", kind)
    BY <1>5 DEF PhoneDetaches
  <2>2. Head(down["phone"]) \in Elems(down["phone"]) /\ Head(down["phone"]).kind = kind
    BY <1>0, <2>1, CalmReads
  <2> QED
    BY <1>0, <2>1, <2>2 DEF First, Hushed, Heard
<1>6. CASE PhoneReshakes
  <2>1. Reads("phone", "up") /\ PhoneShakes /\ UNCHANGED <<dialed, ws, relayVars>>
    BY <1>6 DEF PhoneReshakes
  <2> QED
    BY <2>1, PhoneShakesCalm
<1>7. CASE PhoneConnects
  <2>1. CASE Dial("phone") /\ UNCHANGED <<hostVars, phoneVars, restarts>>
    BY <1>0, <2>1, DialCalm
  <2>2. CASE /\ ReadsOk("phone")
             /\ IF Head(down["phone"]).yes
                THEN PhoneShakes ELSE UNCHANGED <<pending, phoneChan, phoneAtt, shakes, up>>
             /\ UNCHANGED <<hostVars, contID, lastRecv, dirty, asks, restarts, dialed, ws, relayVars>>
    <3>1. CASE Head(down["phone"]).yes
      BY <2>2, <3>1, PhoneShakesCalm
    <3>2. CASE ~Head(down["phone"]).yes
      <4>1. /\ UNCHANGED <<dialed, ws, relayVars, up, shakes, pending>>
            /\ phoneChan' = phoneChan /\ hostChan' = hostChan /\ hostAtt' = hostAtt /\ phoneAtt' = phoneAtt
        BY <2>2, <3>2 DEF hostVars
      <4> QED
        BY <1>0, <2>2, <4>1, ReadsCalm DEF ShakeKind
    <3> QED
      BY <3>1, <3>2
  <2> QED
    BY <1>7, <2>1, <2>2 DEF PhoneConnects
<1>8. CASE PhoneHangsUp
  BY <1>0, <1>8 DEF PhoneHangsUp
<1>9. CASE PhoneAcks \/ PhoneAsks
  <2>1. PICK frame \in {Frame("ack", phoneChan, contID, lastRecv, FALSE), Frame("ask", phoneChan, contID, 0, FALSE)} :
          PhoneSends(frame)
    BY <1>9 DEF PhoneAcks, PhoneAsks
  <2>2. /\ phoneChan # 0 /\ UNCHANGED <<dialed, ws, relayVars, shakes, pending>> /\ down' = down
        /\ hostChan' = hostChan /\ hostAtt' = hostAtt
    BY <1>9 DEF PhoneAcks, PhoneAsks, hostVars
  <2>3. frame \in Msg /\ frame.kind \notin NoteKind
    <3>1. phoneChan \in Nat /\ contID \in Nat /\ lastRecv \in Nat
      BY Types DEF Sane, IInv, PhoneTypes
    <3> DEFINE no == FALSE
    <3>2. no \in BOOLEAN
      OBVIOUS
    <3>3. \/ frame = Frame("ack", phoneChan, contID, lastRecv, no)
          \/ frame = Frame("ask", phoneChan, contID, 0, no)
      BY <2>1
    <3> HIDE DEF no
    <3>4. CASE frame = Frame("ack", phoneChan, contID, lastRecv, no)
      BY <3>1, <3>2, <3>4 DEF Frame, Msg, Kind, NoteKind
    <3>5. CASE frame = Frame("ask", phoneChan, contID, 0, no)
      BY <3>1, <3>2, <3>5 DEF Frame, Msg, Kind, NoteKind
    <3> QED
      BY <3>3, <3>4, <3>5
  <2>4. shakes = 1 /\ WriteErr("phone") = {FALSE}
    <3>1. shakes = 1 /\ shakes # 0 /\ Hushed
      BY <2>2, NoChannels DEF First
    <3> QED
      BY <1>0, <3>1, CalmWrites
  <2>5. up' = Written("phone", <<frame>>) /\ phoneChan' = phoneChan /\ phoneAtt' = phoneAtt
    <3>1. phoneAtt \in BOOLEAN
      BY Types DEF Sane, IInv, PhoneTypes
    <3> QED
      BY <2>1, <2>4, <3>1 DEF PhoneSends
  <2> QED
    BY <1>0, <2>2, <2>3, <2>4, <2>5, WritesCalm
<1> QED
  BY <1>1, <1>2, <1>3, <1>4, <1>5, <1>6, <1>7, <1>8, <1>9 DEF PhoneNext

(* As long as nothing has been lost, the first handshake goes on.          *)
LEMMA NextFirst ==
  ASSUME Sane, Registered, First, [Next]_vars
  PROVE  First'
<1> SUFFICES ASSUME Calm' PROVE CalmNext
  BY DEF First, CalmNext
<1>1. Calm /\ \A s \in Side : ~HangUp(s)
  BY CalmBefore DEF Sane
<1>2. CASE RelayNext
  BY <1>1, <1>2, RelayCalm
<1>3. CASE HostNext \/ HostEmits
  BY <1>1, <1>3, HostCalm
<1>4. CASE PhoneNext \/ PhoneAcks \/ PhoneAsks
  BY <1>1, <1>4, PhoneCalm
<1>5. CASE HostRestarts \/ PhoneRestarts
  BY <1>1, <1>5 DEF HostRestarts, PhoneRestarts, Side
<1>6. CASE UNCHANGED vars
  <2>1. /\ UNCHANGED <<dialed, ws, relayVars, up, shakes, pending>> /\ down' = down
        /\ phoneChan' = phoneChan /\ hostChan' = hostChan /\ hostAtt' = hostAtt /\ phoneAtt' = phoneAtt
    BY <1>6 DEF vars, netVars, hostVars, phoneVars
  <2>2. <<>> \in Seq(Msg) /\ WritesOrNot("host", <<>>) /\ ReadsOrNot("host") /\ "host" \in Side
    BY <2>1, Silent DEF ReadsOrNot, Side
  <2> QED
    BY <1>1, <2>1, <2>2, CalmIdle
<1> QED
  BY <1>2, <1>3, <1>4, <1>5, <1>6 DEF Next

(* A phone and a host that dialed once, and whose one handshake nothing    *)
(* crossed, are attached when all is quiet: no write of the two fails, the *)
(* relay loses nothing and neither end forgets its channel in between      *)
(* (handleHandshake, handleHS2, handleAttachLocked, routeFrame).           *)
THEOREM FirstHandshakesAttach == Spec => []FirstHandshakeAttaches
<1>1. Init => First
  <2> SUFFICES ASSUME Init PROVE Hushed /\ shakes # 1
    BY DEF First
  <2>1. 1 \in 1 .. MaxConns /\ shakes = 0 /\ \A s \in Side : <<s, 1>> \in Conn
    BY ConnsAssumption DEF Init, Conn
  <2>2. \A s \in Side : down[s] = <<>> /\ phase[<<s, 1>>] = "none" /\ up[<<s, 1>>] = <<>>
    BY <2>1 DEF Init, RelayInit
  <2>3. \A s \in Side : Elems(down[s]) = {} /\ Pipe(s, 1) = {}
    BY <2>2, NoElems DEF Pipe, InHand
  <2> QED
    BY <2>1, <2>2, <2>3 DEF Hushed, Heard, Said, Alone, Side
<1>2. Sane /\ Registered /\ First /\ [Next]_vars => First'
  BY NextFirst
<1>3. Registered /\ First => FirstHandshakeAttaches
  <2> SUFFICES ASSUME Registered, First, Quiet, shakes = 1, dialed = [s \in Side |-> 1] PROVE Attached
    BY DEF FirstHandshakeAttaches
  <2>1. \A s \in Side : ws[s] = 1 /\ Connected(s) /\ dialed[s] = 1
    BY DEF Quiet, Registered, Connected, Holds
  <2>2. Stage
    BY <2>1 DEF First, Calm
  <2>3. ASSUME NEW s \in Side PROVE Way(s) = {}
    <3>1. Peer(s) \in Side /\ <<s, 1>> \in Conn
      BY Peers, ConnsAssumption DEF Conn
    <3>2. down[Peer(s)] = <<>> /\ up[<<s, 1>>] = <<>> /\ phase[<<s, 1>>] # "routing"
      BY <3>1 DEF Quiet
    <3> QED
      BY <3>2, NoElems DEF Way, Pipe, InHand
  <2>4. \A s \in Side, kind \in ShakeKind : ~Under(s, kind)
    BY <2>3 DEF Under
  <2> QED
    BY <2>2, <2>4 DEF Stage, ShakeKind, Side, Attached
<1> QED
  BY <1>1, <1>2, <1>3, LinkTalks, PTL DEF Spec
=============================================================================
