----------------------------- MODULE RemoteRelay -----------------------------
(***************************************************************************)
(* The relay of remote control (internal/remote/relay/relay.go): a blind   *)
(* switchboard between one host and its enrolled phone.  Every websocket   *)
(* is served by a goroutine of its own; s.conns (registered) is the only   *)
(* state they share, read and written under s.mu, while every send to a    *)
(* socket happens outside of it.  What a goroutine looked up under the     *)
(* mutex is therefore old by the time it sends, and the messages of two    *)
(* goroutines to one device arrive in either order.                        *)
(*                                                                         *)
(* The module holds the sockets as well: up is what a device wrote and the *)
(* relay has not read, down what the relay wrote to the socket the device  *)
(* uses now.  Each is FIFO; what is left in one when it breaks is lost.    *)
(***************************************************************************)
EXTENDS Integers, Sequences

CONSTANTS
  MaxConns,          \* bound: sockets one device dials
  MaxDials           \* bound: sockets the two dial between them

ASSUME ConnsAssumption == MaxConns \in Nat \ {0} /\ MaxDials \in Nat

Side == {"host", "phone"}
Peer(s) == IF s = "host" THEN "phone" ELSE "host"
Conn == Side \X (1 .. MaxConns)

(* wire.RelayMsg, with wire.E2EMsg where the payload is a frame: ok is     *)
(* auth_ok, up and down are presence, lost is deliver_err, the others are  *)
(* the end-to-end messages.  chan names the handshake whose keys seal the  *)
(* frame, sess the app-server connection, n a line or the last one applied,*)
(* yes the flag of the message (online, resumed).                          *)
Kind == {"ok", "up", "down", "lost", "hs1", "hs2", "attach", "attached", "rpc", "ack", "ask"}
Msg == [kind : Kind, chan : Nat, sess : Nat, n : Nat, yes : BOOLEAN]
Note(kind, yes) == [kind |-> kind, chan |-> 0, sess |-> 0, n |-> 0, yes |-> yes]

VARIABLES
  dialed,      \* sockets each device has dialed so far
  ws,          \* the one it uses, 0 for none
  authed,      \* it has read auth_ok from it
  registered,  \* s.conns
  phase,       \* where the goroutine of each socket is
  held,        \* the message it is about to send, and to which socket
  up, down

relayVars == <<registered, phase, held>>
netVars == <<dialed, ws, authed, relayVars, up, down>>

(* Phases in which the relay has not closed the socket.                    *)
Working == {"greeting", "telling", "serving", "routing"}
Phase == Working \cup {"none", "leaving", "parting", "gone"}

NoMsg == [msg |-> Note("ok", FALSE), dest |-> 0]

RelayInit ==
  /\ dialed = [s \in Side |-> 0] /\ ws = [s \in Side |-> 0]
  /\ authed = [s \in Side |-> FALSE] /\ registered = [s \in Side |-> 0]
  /\ phase = [c \in Conn |-> "none"] /\ held = [c \in Conn |-> NoMsg]
  /\ up = [c \in Conn |-> <<>>] /\ down = [s \in Side |-> <<>>]

RelayTypeOK ==
  /\ dialed \in [Side -> 0 .. MaxConns] /\ ws \in [Side -> 0 .. MaxConns]
  /\ authed \in [Side -> BOOLEAN] /\ registered \in [Side -> 0 .. MaxConns]
  /\ phase \in [Conn -> Phase]
  /\ held \in [Conn -> [msg : Msg, dest : 0 .. MaxConns]]
  /\ up \in [Conn -> Seq(Msg)] /\ down \in [Side -> Seq(Msg)]

Holds(s, n) == n # 0 /\ phase[<<s, n>>] \in Working
(* What a device writes: queued while the relay keeps the socket, else it  *)
(* goes into a dead one.  A write to a dead socket may report an error.    *)
Connected(s) == Holds(s, ws[s])
Written(s, msgs) ==
  IF Connected(s) THEN [up EXCEPT ![<<s, ws[s]>>] = @ \o msgs] ELSE up
WriteErr(s) == IF Connected(s) THEN {FALSE} ELSE BOOLEAN

(* conn.send to socket n of a device: an error when the relay has closed   *)
(* it, lost or an error when the device has left it.                       *)
SendErr(s, n) ==
  IF ~Holds(s, n) THEN {TRUE} ELSE IF n = ws[s] THEN {FALSE} ELSE BOOLEAN
Sent(s, n, msg) ==
  IF Holds(s, n) /\ n = ws[s] THEN [down EXCEPT ![s] = Append(@, msg)] ELSE down

(***************************************************************************)
(* handleConnect: one goroutine per socket.                                *)
(***************************************************************************)
(* A device dials and answers the challenge; authenticate registers the    *)
(* socket, in place of any earlier one of the device, and reads under the  *)
(* same lock whether the phone's host is online.                           *)
Dial(s) ==
  LET n == dialed[s] + 1 IN
  /\ ws[s] = 0 /\ dialed[s] < MaxConns /\ dialed["host"] + dialed["phone"] < MaxDials
  /\ dialed' = [dialed EXCEPT ![s] = n] /\ ws' = [ws EXCEPT ![s] = n]
  /\ authed' = [authed EXCEPT ![s] = FALSE]
  /\ registered' = [registered EXCEPT ![s] = n]
  /\ phase' = [phase EXCEPT ![<<s, n>>] = "greeting"]
  /\ held' = [held EXCEPT ![<<s, n>>] =
               [msg |-> Note("ok", s = "phone" /\ registered["host"] # 0), dest |-> 0]]
  /\ UNCHANGED <<up, down>>

(* auth_ok goes out after the lock is released, and then                   *)
(* broadcastPresence looks up, under the lock again, whom to tell that the *)
(* device is online.  The two are one step: nobody but the device itself   *)
(* can tell when auth_ok was sent.  A host makes nothing of the news that  *)
(* a phone is online, so that is left out.                                 *)
Greet(s, n) ==
  LET c == <<s, n>> IN
  /\ phase[c] = "greeting"
  /\ down' = Sent(s, n, held[c].msg)
  /\ IF s = "host"
     THEN /\ held' = [held EXCEPT ![c] =
                        [msg |-> Note("up", FALSE), dest |-> registered["phone"]]]
          /\ phase' = [phase EXCEPT ![c] = "telling"]
     ELSE /\ held' = [held EXCEPT ![c] = NoMsg]
          /\ phase' = [phase EXCEPT ![c] = "serving"]
  /\ UNCHANGED <<dialed, ws, authed, registered, up>>

(* broadcastPresence of a device that left: the lookup ...                 *)
Announce(s, n) ==
  LET c == <<s, n>> IN
  /\ phase[c] = "leaving"
  /\ held' = [held EXCEPT ![c] = [msg |-> Note("down", FALSE), dest |-> registered[Peer(s)]]]
  /\ phase' = [phase EXCEPT ![c] = "parting"]
  /\ UNCHANGED <<dialed, ws, authed, registered, up, down>>

(* ... and the send, in either direction.                                  *)
Tell(s, n) ==
  LET c == <<s, n>> IN
  /\ phase[c] \in {"telling", "parting"}
  /\ down' = Sent(Peer(s), held[c].dest, held[c].msg)
  /\ phase' = [phase EXCEPT ![c] = IF @ = "telling" THEN "serving" ELSE "gone"]
  /\ held' = [held EXCEPT ![c] = NoMsg]
  /\ UNCHANGED <<dialed, ws, authed, registered, up>>

(* serveAuthed reads a frame and routeFrame looks its target up under s.mu.*)
Route(s, n) ==
  LET c == <<s, n>> IN
  /\ phase[c] = "serving" /\ up[c] # <<>>
  /\ held' = [held EXCEPT ![c] = [msg |-> Head(up[c]), dest |-> registered[Peer(s)]]]
  /\ up' = [up EXCEPT ![c] = Tail(@)]
  /\ phase' = [phase EXCEPT ![c] = "routing"]
  /\ UNCHANGED <<dialed, ws, authed, registered, down>>

(* Then it sends: no target, or a send that fails, is reported back.       *)
Forward(s, n) ==
  LET c == <<s, n>>
      d == held[c].dest IN
  /\ phase[c] = "routing"
  /\ \E failed \in SendErr(Peer(s), d) :
       down' = IF failed THEN Sent(s, n, Note("lost", FALSE)) ELSE Sent(Peer(s), d, held[c].msg)
  /\ phase' = [phase EXCEPT ![c] = "serving"]
  /\ held' = [held EXCEPT ![c] = NoMsg]
  /\ UNCHANGED <<dialed, ws, authed, registered, up>>

(* dropConn: the read failed, because the device has left, the network     *)
(* broke, or a newer socket took over; only the owner of the registration  *)
(* tells the peer.                                                         *)
Drop(s, n) ==
  LET c == <<s, n>> IN
  /\ phase[c] \in {"greeting", "serving"} /\ (phase[c] = "greeting" => n # ws[s])
  /\ up' = [up EXCEPT ![c] = <<>>] /\ held' = [held EXCEPT ![c] = NoMsg]
  /\ IF registered[s] = n
     THEN /\ registered' = [registered EXCEPT ![s] = 0]
          /\ phase' = [phase EXCEPT ![c] = "leaving"]
     ELSE /\ phase' = [phase EXCEPT ![c] = "gone"]
          /\ UNCHANGED registered
  /\ UNCHANGED <<dialed, ws, authed, down>>

RelayStep ==
  \E s \in Side, n \in 1 .. MaxConns :
    Greet(s, n) \/ Announce(s, n) \/ Tell(s, n) \/ Route(s, n) \/ Forward(s, n) \/ Drop(s, n)

(***************************************************************************)
(* A device's end of its socket.                                           *)
(***************************************************************************)
(* authenticate of the device: the first message must be auth_ok.          *)
ReadsOk(s) ==
  /\ ws[s] # 0 /\ ~authed[s] /\ down[s] # <<>> /\ Head(down[s]).kind = "ok"
  /\ authed' = [authed EXCEPT ![s] = TRUE]
  /\ down' = [down EXCEPT ![s] = Tail(@)]

(* readRelayMsg, once authenticated.                                       *)
Reads(s, kind) ==
  /\ ws[s] # 0 /\ authed[s] /\ down[s] # <<>> /\ Head(down[s]).kind = kind
  /\ down' = [down EXCEPT ![s] = Tail(@)]

(* runOnce returns: the read failed, or the first message was another one. *)
HangUp(s) ==
  /\ ws[s] # 0
  /\ ws' = [ws EXCEPT ![s] = 0] /\ authed' = [authed EXCEPT ![s] = FALSE]
  /\ down' = [down EXCEPT ![s] = <<>>]
  /\ UNCHANGED <<dialed, registered, phase, held, up>>
=============================================================================
