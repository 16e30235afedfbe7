------------------------------ MODULE RemoteLink ------------------------------
(***************************************************************************)
(* Remote control between a phone and its host over the relay:             *)
(* internal/remote/phone/phone.go, host/host.go, host/session.go and       *)
(* host/spool.go.  A handshake gives the two a channel; over it the phone  *)
(* attaches to an app-server connection (a session) of the host, whose     *)
(* output lines are numbered, kept in a spool until the phone acknowledges *)
(* them, and replayed when a phone that was cut off attaches again.        *)
(*                                                                         *)
(* A channel is named by its handshake: its keys come from the ephemerals  *)
(* of both ends, so a frame opens only at the other end of that handshake. *)
(* A channel lives on one socket at each end, and both are FIFO, so the    *)
(* frame counters of secure.Channel are left out.  Ping, state snapshots   *)
(* and push hints are left out, and so is the content of a line.           *)
(***************************************************************************)
EXTENDS RemoteRelay

CONSTANTS
  SpoolLimit,      \* maxEntries of a spool
  MaxSessions,     \* bound: app-server connections the host starts
  MaxLines,        \* bound: lines of the first of them; each later one emits one fewer
  MaxHandshakes,   \* bound: handshakes the phone starts
  MaxAsks,         \* bound: requests the phone sends
  MaxRestarts      \* bound: restarts of the host and the phone process

ASSUME LinkAssumption ==
  /\ SpoolLimit \in Nat /\ MaxSessions \in Nat /\ MaxLines \in Nat
  /\ MaxHandshakes \in Nat /\ MaxAsks \in Nat /\ MaxRestarts \in Nat

VARIABLES
  hostChan,   \* deviceSession.channel, 0 for nil
  hostAtt,    \* deviceSession.attached
  app,        \* appConn.contID of deviceSession.app, 0 for nil
  emitted,    \* appConn.seq of every app-server connection there was
  spool,      \* its spool
  started,    \* app-server connections started
  pending,    \* Client.pendingHS, 0 for nil
  phoneChan,  \* Client.channel
  phoneAtt,   \* Client.attached
  contID,     \* Client.contID, 0 before the first attach (Client.proto is nil)
  lastRecv,   \* Client.lastRecv
  dirty,      \* Client.ackDirty
  shakes,     \* handshakes started
  asks, restarts

hostVars == <<hostChan, hostAtt, app, emitted, spool, started>>
phoneVars == <<pending, phoneChan, phoneAtt, contID, lastRecv, dirty, shakes, asks>>
vars == <<netVars, hostVars, phoneVars, restarts>>

Session == 1 .. MaxSessions
NewSpool == [entries |-> <<>>, base |-> 1, broken |-> FALSE]
Frame(kind, chan, sess, n, yes) ==
  [kind |-> kind, chan |-> chan, sess |-> sess, n |-> n, yes |-> yes]

Init ==
  /\ RelayInit
  /\ hostChan = 0 /\ hostAtt = FALSE /\ app = 0 /\ started = 0
  /\ emitted = [s \in Session |-> 0] /\ spool = NewSpool
  /\ pending = 0 /\ phoneChan = 0 /\ phoneAtt = FALSE /\ contID = 0
  /\ lastRecv = 0 /\ dirty = FALSE /\ shakes = 0 /\ asks = 0 /\ restarts = 0

TypeOK ==
  /\ RelayTypeOK
  /\ hostChan \in Nat /\ hostAtt \in BOOLEAN
  /\ app \in 0 .. MaxSessions /\ started \in 0 .. MaxSessions
  /\ emitted \in [Session -> Nat]
  /\ spool \in [entries : Seq(Nat), base : Nat, broken : BOOLEAN]
  /\ pending \in Nat /\ phoneChan \in Nat /\ phoneAtt \in BOOLEAN
  /\ contID \in Nat /\ lastRecv \in Nat /\ dirty \in BOOLEAN
  /\ shakes \in Nat /\ asks \in Nat /\ restarts \in Nat

(***************************************************************************)
(* The spool.                                                              *)
(***************************************************************************)
(* Mutant: the overflow that empties the spool forgets to mark it broken.  *)
KeptUnbroken(sp, seq) ==
  IF Len(sp.entries) >= SpoolLimit THEN [sp EXCEPT !.entries = <<>>]
  ELSE [sp EXCEPT !.entries = Append(@, seq)]

(* append: a spool that overflows is broken and keeps nothing.             *)
Kept(sp, seq) ==
  IF sp.broken THEN sp
  ELSE IF Len(sp.entries) >= SpoolLimit THEN [sp EXCEPT !.broken = TRUE, !.entries = <<>>]
  ELSE [sp EXCEPT !.entries = Append(@, seq)]

(* The entries after seq.  The spool is in ascending order, so the loops   *)
(* of ackTo and replayFrom pass over the first of them and keep the rest.  *)
Passed(entries, seq) ==
  CHOOSE i \in 0 .. Len(entries) :
    /\ \A j \in 1 .. i : entries[j] <= seq
    /\ i < Len(entries) => entries[i + 1] > seq
After(entries, seq) == SubSeq(entries, Passed(entries, seq) + 1, Len(entries))

(* Mutant: the loop of ackTo stops one entry late.                         *)
AckPast(sp, seq) ==
  [sp EXCEPT !.entries = After(@, seq + 1), !.base = IF seq + 1 > @ THEN seq + 1 ELSE @]

(* ackTo.                                                                  *)
AckTo(sp, seq) ==
  [sp EXCEPT !.entries = After(@, seq), !.base = IF seq + 1 > @ THEN seq + 1 ELSE @]

(* replayFrom: whether the spool bridges the gap, and with which entries.  *)
Bridges(sp, seq) == ~sp.broken /\ seq + 1 >= sp.base

(***************************************************************************)
(* The host.                                                               *)
(***************************************************************************)
(* sendSealedLocked, for each frame in turn: after a write that fails the  *)
(* channel is dropped and the rest is not sent.                            *)
HostSends(chan, att, frames) ==
  \E failed \in WriteErr("host") :
    /\ up' = Written("host", frames)
    /\ hostChan' = IF failed THEN 0 ELSE chan
    /\ hostAtt' = (att /\ ~failed)

(* onAppLine: a line of the app-server is numbered and kept, and goes out  *)
(* when the phone is attached.                                             *)
HostEmits ==
  /\ app # 0 /\ emitted[app] + started <= MaxLines
  /\ emitted' = [emitted EXCEPT ![app] = @ + 1]
  /\ spool' = Kept(spool, emitted[app] + 1)
  /\ IF hostAtt /\ hostChan # 0
     THEN HostSends(hostChan, hostAtt, <<Frame("rpc", hostChan, app, emitted[app] + 1, FALSE)>>)
     ELSE UNCHANGED <<up, hostChan, hostAtt>>
  /\ UNCHANGED <<app, started, phoneVars, restarts, dialed, ws, authed, relayVars, down>>

(* handleHandshake: a new channel in place of the one there is, not        *)
(* attached, and the answer to the phone.                                  *)
HostShakes ==
  /\ Reads("host", "hs1")
  /\ LET h == Head(down["host"]).chan IN
       HostSends(h, FALSE, <<Frame("hs2", h, 0, 0, FALSE)>>)
  /\ UNCHANGED <<app, emitted, spool, started, phoneVars, restarts, dialed, ws, authed, relayVars>>

(* Mutant: a frame is taken whatever channel sealed it.                    *)
HostOpensAny(kind) == Reads("host", kind)

(* handleSealed opens a frame with the channel it has.                     *)
HostOpens(kind) == Reads("host", kind) /\ Head(down["host"]).chan = hostChan
HostIgnores ==
  /\ \E kind \in {"attach", "ack", "ask"} : Reads("host", kind)
  /\ Head(down["host"]).chan # hostChan
  /\ UNCHANGED <<hostVars, phoneVars, restarts, dialed, ws, authed, relayVars, up>>

(* handleAttachLocked, when the spool of the phone's session bridges what  *)
(* it missed: everything after is replayed.                                *)
HostResumes ==
  /\ HostOpens("attach")
  /\ LET m == Head(down["host"]) IN
       /\ app # 0 /\ m.sess = app /\ Bridges(spool, m.n)
       /\ spool' = AckTo(spool, m.n)
       /\ LET replay == After(spool.entries, m.n) IN
            HostSends(hostChan, TRUE,
              <<Frame("attached", hostChan, app, 0, TRUE)>> \o
              [i \in 1 .. Len(replay) |-> Frame("rpc", hostChan, app, replay[i], FALSE)])
  /\ UNCHANGED <<app, emitted, started, phoneVars, restarts, dialed, ws, authed, relayVars>>

(* Otherwise the app-server connection is replaced by a fresh one.         *)
HostRenews ==
  /\ HostOpens("attach") /\ started < MaxSessions
  /\ LET m == Head(down["host"]) IN
       ~(app # 0 /\ m.sess = app /\ Bridges(spool, m.n))
  /\ started' = started + 1 /\ app' = started + 1 /\ spool' = NewSpool
  /\ HostSends(hostChan, TRUE, <<Frame("attached", hostChan, started + 1, 0, FALSE)>>)
  /\ UNCHANGED <<emitted, phoneVars, restarts, dialed, ws, authed, relayVars>>

(* An ack says nothing of the session it is for.                           *)
HostTrims ==
  /\ HostOpens("ack")
  /\ spool' = IF app # 0 THEN AckTo(spool, Head(down["host"]).n) ELSE spool
  /\ UNCHANGED <<hostChan, hostAtt, app, emitted, started, phoneVars, restarts, dialed, ws, authed,
                 relayVars, up>>

(* A request goes to the app-server connection there is, when the phone is *)
(* attached.                                                               *)
HostForwards ==
  /\ HostOpens("ask")
  /\ UNCHANGED <<hostVars, phoneVars, restarts, dialed, ws, authed, relayVars, up>>

(* dispatch: presence offline and deliver_err detach the session.     *)
HostDetaches ==
  /\ \E kind \in {"down", "lost"} : Reads("host", kind)
  /\ hostChan' = 0 /\ hostAtt' = FALSE
  /\ UNCHANGED <<app, emitted, spool, started, phoneVars, restarts, dialed, ws, authed, relayVars, up>>

HostConnects ==
  \/ Dial("host") /\ UNCHANGED <<hostVars, phoneVars, restarts>>
  \/ ReadsOk("host") /\ UNCHANGED <<hostVars, phoneVars, restarts, dialed, ws, relayVars, up>>

(* runOnce ends with detachAllSessions.                                    *)
HostHangsUp ==
  /\ HangUp("host") /\ hostChan' = 0 /\ hostAtt' = FALSE
  /\ UNCHANGED <<app, emitted, spool, started, phoneVars, restarts>>

(* Run ends with shutdownSessions; the host process starts anew.           *)
HostRestarts ==
  /\ restarts < MaxRestarts /\ restarts' = restarts + 1
  /\ HangUp("host") /\ hostChan' = 0 /\ hostAtt' = FALSE
  /\ app' = 0 /\ spool' = NewSpool
  /\ UNCHANGED <<emitted, started, phoneVars>>

(***************************************************************************)
(* The phone.                                                              *)
(***************************************************************************)
(* startHandshake.                                                         *)
PhoneShakes ==
  /\ shakes < MaxHandshakes /\ shakes' = shakes + 1
  /\ pending' = shakes + 1 /\ phoneChan' = 0 /\ phoneAtt' = FALSE
  /\ up' = Written("phone", <<Frame("hs1", shakes + 1, 0, 0, FALSE)>>)

(* authenticate, and the handshake that follows when the host is online.   *)
PhoneConnects ==
  \/ Dial("phone") /\ UNCHANGED <<hostVars, phoneVars, restarts>>
  \/ /\ ReadsOk("phone")
     /\ IF Head(down["phone"]).yes
        THEN PhoneShakes ELSE UNCHANGED <<pending, phoneChan, phoneAtt, shakes, up>>
     /\ UNCHANGED <<hostVars, contID, lastRecv, dirty, asks, restarts, dialed, ws, relayVars>>

(* dispatch: the host is back.                                             *)
PhoneReshakes ==
  /\ Reads("phone", "up") /\ PhoneShakes
  /\ UNCHANGED <<hostVars, contID, lastRecv, dirty, asks, restarts, dialed, ws, authed, relayVars>>

(* dispatch: markDetached on presence offline and deliver_err.             *)
PhoneDetaches ==
  /\ \E kind \in {"down", "lost"} : Reads("phone", kind)
  /\ phoneChan' = 0 /\ phoneAtt' = FALSE
  /\ UNCHANGED <<hostVars, pending, contID, lastRecv, dirty, shakes, asks, restarts, dialed, ws, authed,
                 relayVars, up>>

(* Mutant: the answer is stored, and the attach left to the next tick.     *)
PhoneCompletesOnly ==
  /\ Reads("phone", "hs2")
  /\ LET h == Head(down["phone"]).chan IN
       phoneChan' = IF pending # 0 /\ pending = h THEN h ELSE phoneChan
  /\ pending' = 0
  /\ UNCHANGED <<hostVars, phoneAtt, contID, lastRecv, dirty, shakes, asks, restarts, dialed, ws, authed,
                 relayVars, up>>

(* handleHS2: the answer to the pending handshake completes it and the     *)
(* phone attaches, quoting its session and the last line it applied; the   *)
(* answer to another one fails the signature check and clears it.          *)
PhoneCompletes ==
  /\ Reads("phone", "hs2")
  /\ LET h == Head(down["phone"]).chan IN
       IF pending # 0 /\ pending = h
       THEN \E failed \in WriteErr("phone") :
              /\ phoneChan' = (IF failed THEN 0 ELSE h) /\ phoneAtt' = (phoneAtt /\ ~failed)
              /\ up' = Written("phone", <<Frame("attach", h, contID, lastRecv, FALSE)>>)
       ELSE UNCHANGED <<phoneChan, phoneAtt, up>>
  /\ pending' = 0
  /\ UNCHANGED <<hostVars, contID, lastRecv, dirty, shakes, asks, restarts, dialed, ws, authed, relayVars>>

PhoneOpens(kind) == Reads("phone", kind) /\ Head(down["phone"]).chan = phoneChan
PhoneIgnores ==
  /\ \E kind \in {"attached", "rpc"} : Reads("phone", kind)
  /\ Head(down["phone"]).chan # phoneChan
  /\ UNCHANGED <<hostVars, phoneVars, restarts, dialed, ws, authed, relayVars, up>>

(* Mutant: a fresh session keeps the last line applied.                    *)
PhoneAttachesWithOld ==
  /\ PhoneOpens("attached")
  /\ contID' = Head(down["phone"]).sess
  /\ phoneAtt' = TRUE /\ dirty' = FALSE
  /\ UNCHANGED <<hostVars, pending, phoneChan, lastRecv, shakes, asks, restarts, dialed, ws, authed,
                 relayVars, up>>

(* handleAttachedLocked: a session that was not resumed starts over.       *)
PhoneAttaches ==
  /\ PhoneOpens("attached")
  /\ LET m == Head(down["phone"])
         fresh == ~m.yes \/ contID = 0 \/ m.sess # contID IN
       /\ contID' = m.sess
       /\ lastRecv' = IF fresh THEN 0 ELSE lastRecv
  /\ phoneAtt' = TRUE /\ dirty' = FALSE
  /\ UNCHANGED <<hostVars, pending, phoneChan, shakes, asks, restarts, dialed, ws, authed, relayVars, up>>

(* handleSealed, rpc: a line already applied is skipped, any other is fed  *)
(* to the protocol client.                                                 *)
PhoneApplies ==
  /\ PhoneOpens("rpc")
  /\ LET m == Head(down["phone"]) IN
       IF phoneAtt /\ m.n > lastRecv
       THEN lastRecv' = m.n /\ dirty' = TRUE
       ELSE UNCHANGED <<lastRecv, dirty>>
  /\ UNCHANGED <<hostVars, pending, phoneChan, phoneAtt, contID, shakes, asks, restarts, dialed, ws, authed,
                 relayVars, up>>

(* sendSealedLocked of the phone.                                          *)
PhoneSends(frame) ==
  \E failed \in WriteErr("phone") :
    /\ up' = Written("phone", <<frame>>)
    /\ phoneChan' = (IF failed THEN 0 ELSE phoneChan)
    /\ phoneAtt' = (phoneAtt /\ ~failed)

(* A tick of ackLoop.                                                      *)
PhoneAcks ==
  /\ phoneAtt /\ dirty /\ phoneChan # 0
  /\ dirty' = FALSE
  /\ PhoneSends(Frame("ack", phoneChan, contID, lastRecv, FALSE))
  /\ UNCHANGED <<hostVars, pending, contID, lastRecv, shakes, asks, restarts, dialed, ws, authed,
                 relayVars, down>>

(* protoWriter.Write: a request of the phone's protocol client.            *)
PhoneAsks ==
  /\ phoneAtt /\ phoneChan # 0 /\ asks < MaxAsks
  /\ asks' = asks + 1
  /\ PhoneSends(Frame("ask", phoneChan, contID, 0, FALSE))
  /\ UNCHANGED <<hostVars, pending, contID, lastRecv, dirty, shakes, restarts, dialed, ws, authed,
                 relayVars, down>>

(* The deferred part of runOnce.                                           *)
PhoneHangsUp ==
  /\ HangUp("phone")
  /\ pending' = 0 /\ phoneChan' = 0 /\ phoneAtt' = FALSE
  /\ UNCHANGED <<hostVars, contID, lastRecv, dirty, shakes, asks, restarts>>

(* The phone keeps its session in memory only.                             *)
PhoneRestarts ==
  /\ restarts < MaxRestarts /\ restarts' = restarts + 1
  /\ HangUp("phone")
  /\ pending' = 0 /\ phoneChan' = 0 /\ phoneAtt' = FALSE
  /\ contID' = 0 /\ lastRecv' = 0 /\ dirty' = FALSE
  /\ UNCHANGED <<hostVars, shakes, asks>>

HostNext ==
  \/ HostConnects \/ HostShakes \/ HostIgnores \/ HostResumes \/ HostRenews \/ HostTrims
  \/ HostForwards \/ HostDetaches \/ HostHangsUp
PhoneNext ==
  \/ PhoneConnects \/ PhoneReshakes \/ PhoneDetaches \/ PhoneCompletes \/ PhoneIgnores
  \/ PhoneAttaches \/ PhoneApplies \/ PhoneHangsUp
RelayNext == RelayStep /\ UNCHANGED <<hostVars, phoneVars, restarts>>
Next ==
  \/ HostNext \/ HostEmits \/ HostRestarts
  \/ PhoneNext \/ PhoneAcks \/ PhoneAsks \/ PhoneRestarts
  \/ RelayNext
Spec == Init /\ [][Next]_vars
(***************************************************************************)
(* Properties.                                                             *)
(***************************************************************************)
(* Nothing is on its way: both sockets are up and known to the relay, all  *)
(* queues are empty and no goroutine of the relay is about to send.        *)
Quiet ==
  /\ \A s \in Side : ws[s] # 0 /\ authed[s] /\ registered[s] = ws[s] /\ down[s] = <<>>
  /\ \A c \in Conn : phase[c] \in {"none", "serving", "gone"} /\ up[c] = <<>>
Attached == hostAtt /\ phoneAtt /\ hostChan = phoneChan

(* When nothing is on its way on an attached link, the phone has applied   *)
(* every line of the session it shares with the host, whatever was cut     *)
(* off, replayed, acknowledged or dropped before.                          *)
QuietLinkIsDelivered == Quiet /\ Attached => contID = app /\ lastRecv = emitted[app]

(* While host and phone hold the same session and its spool did not        *)
(* overflow, no ack, however late, was for a line the phone has yet to     *)
(* apply.  (ackTo, handleSealed)                                           *)
SpoolKeepsUnreceived ==
  app # 0 /\ contID = app /\ ~spool.broken => spool.base <= lastRecv + 1

(* Whenever the host would resume a phone that applied the first n lines,  *)
(* it replays all the lines after them, in order.  (append, ackTo,         *)
(* replayFrom)                                                             *)
ReplayIsComplete ==
  app # 0 => \A n \in 0 .. emitted[app] : Bridges(spool, n) =>
    After(spool.entries, n) = [i \in 1 .. emitted[app] - n |-> n + i]

(* A request is handed to the app-server connection the phone sent it to,  *)
(* and a line is applied in the session it was emitted in.                 *)
FramesReachTheirSession ==
  [][/\ HostForwards /\ hostAtt => Head(down["host"]).sess = app
     /\ PhoneApplies /\ lastRecv' # lastRecv => Head(down["phone"]).sess = contID]_vars

(* A phone and a host that dialed once, and whose handshake nothing        *)
(* crossed, are attached when all is quiet.                                *)
FirstHandshakeAttaches ==
  Quiet /\ shakes = 1 /\ dialed = [s \in Side |-> 1] => Attached

(* What the phone sees is the abstract link: the lines of its session, in  *)
(* order, each once.                                                       *)
Delivery == INSTANCE RemoteDelivery WITH made <- emitted, session <- contID, applied <- lastRecv
DeliverySpec == Delivery!Spec
==============================================================================
