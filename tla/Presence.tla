------------------------------ MODULE Presence ------------------------------
(***************************************************************************)
(* A presence channel: the Socket of each client, which connects, drops,   *)
(* reconnects and subscribes again, and the server's BroadcastManager.     *)
(* Frames travel in order on each connection.  A subscription is signed    *)
(* beforehand, for one connection, by a request to the auth endpoint; or,  *)
(* without the endpoint, the server asks its authorize callback.           *)
(***************************************************************************)
EXTENDS Integers, Sequences, FiniteSets

CONSTANTS
  Client, Conn,
  Owner,   \* Conn -> the client that may open it
  First,   \* Client -> the connection its constructor opens
  Signing, \* whether subscriptions are signed: a subset of BOOLEAN
  Events,  \* what a behaviour may contain: each member bounds its events
  None

EventCount == [drop: Nat, leave: Nat, disconnect: Nat, hasty: Nat, refuse: Nat]

ASSUME PresenceAssumption ==
  /\ Owner \in [Conn -> Client] /\ First \in [Client -> Conn]
  /\ \A c \in Client : Owner[First[c]] = c
  /\ Signing \subseteq BOOLEAN /\ Events \subseteq EventCount
  /\ None \notin Conn

VARIABLES
  signed,
  client,  \* Client -> its Socket and the one channel it may hold
  phase,   \* Conn -> the client's end
  server,  \* Conn -> the server's end
  up,      \* Conn -> frames to the server
  down,    \* Conn -> frames to the client
  fetches, \* Conn -> requests to sign a subscription of it, under way
  asked,   \* Conn -> authorize callbacks for it, under way
  members, \* _members and _subs of the channel: connections
  spent    \* how many of each event there were

wires == <<phase, server, up, down>>
vars == <<signed, client, wires, fetches, asked, members, spent>>

Up == [event: {"subscribe", "unsubscribe"}, auth: Conn \cup {None}]
Down == [event: {"connected", "here", "added", "removed", "denied", "error"},
         members: SUBSET Conn]

SocketState == [
  ws: Conn \cup {None}, socketId: Conn \cup {None},
  state: {"connecting", "connected", "disconnected", "error"},
  wanted: BOOLEAN,        \* is the channel in _channels?
  closedByUser: BOOLEAN,
  timer: BOOLEAN,         \* _reconnectTimer
  told: {"nothing", "here", "denied"}, \* the channel's last word on its subscription
  view: SUBSET Conn]      \* the members here, joining and leaving made known

(* A client's end opens, may break unnoticed, is shut, and its close event is *)
(* delivered.                                                                 *)
Phase == {"unused", "opening", "open", "broken", "shut", "over"}

(* Types; and a member's connection was opened. *)
TypeOK ==
  /\ signed \in Signing
  /\ client \in [Client -> SocketState]
  /\ phase \in [Conn -> Phase]
  /\ server \in [Conn -> {"none", "open", "closed"}]
  /\ up \in [Conn -> Seq(Up)] /\ down \in [Conn -> Seq(Down)]
  /\ fetches \in [Conn -> Nat] /\ asked \in [Conn -> Nat]
  /\ members \subseteq {k \in Conn : server[k] # "none"}
  /\ spent \in EventCount
  /\ \A c \in Client : LET s == client[c] IN
       /\ s.state = "connected" => s.socketId # None
       /\ s.ws # None => Owner[s.ws] = c

(* Every Socket has been constructed with its channel, and connects. *)
Init ==
  /\ signed \in Signing
  /\ client = [c \in Client |->
       [ws |-> First[c], socketId |-> None, state |-> "connecting", wanted |-> TRUE,
        closedByUser |-> FALSE, timer |-> FALSE, told |-> "nothing", view |-> {}]]
  /\ phase = [k \in Conn |-> IF First[Owner[k]] = k THEN "opening" ELSE "unused"]
  /\ server = [k \in Conn |-> "none"]
  /\ up = [k \in Conn |-> << >>] /\ down = [k \in Conn |-> << >>]
  /\ fetches = [k \in Conn |-> 0] /\ asked = [k \in Conn |-> 0]
  /\ members = {}
  /\ spent = [drop |-> 0, leave |-> 0, disconnect |-> 0, hasty |-> 0, refuse |-> 0]

Spend(what) ==
  /\ spent' = [spent EXCEPT ![what] = @ + 1]
  /\ \E f \in Events : \A k \in DOMAIN f : spent'[k] <= f[k]
Becomes(c, s) == client' = [client EXCEPT ![c] = s]
Frame(event, list) == [event |-> event, members |-> list]

(* _sendRaw of a Socket in state s. *)
Sent(s, event, auth) ==
  IF s.ws # None /\ phase[s.ws] = "open"
  THEN [up EXCEPT ![s.ws] = Append(@, [event |-> event, auth |-> auth])]
  ELSE up

(* send() to each of a set of connections: one that is broken loses it. *)
To(conns, frame) ==
  [k \in Conn |-> IF k \in conns /\ phase[k] = "open" THEN Append(down[k], frame)
                  ELSE down[k]]
-----------------------------------------------------------------------------
(* The client: Socket. *)

(* _subscribeChannel, in state s. *)
SubscribeChannel(s) ==
  IF s.state # "connected" \/ ~s.wanted THEN UNCHANGED <<up, fetches>>
  ELSE IF signed
  THEN fetches' = [fetches EXCEPT ![s.socketId] = @ + 1] /\ UNCHANGED up
  ELSE up' = Sent(s, "subscribe", None) /\ UNCHANGED fetches

(* presence() after leave(). *)
Join(c) ==
  LET s == [client[c] EXCEPT !.wanted = TRUE, !.told = "nothing", !.view = {}]
  IN /\ ~client[c].wanted
     /\ Becomes(c, s) /\ SubscribeChannel(s)
     /\ UNCHANGED <<signed, phase, server, down, asked, members, spent>>

Leave(c) ==
  /\ client[c].wanted /\ Spend("leave")
  /\ Becomes(c, [client[c] EXCEPT !.wanted = FALSE, !.told = "nothing", !.view = {}])
  /\ up' = Sent(client[c], "unsubscribe", None)
  /\ UNCHANGED <<signed, phase, server, down, fetches, asked, members>>

(* The signature arrives, or none does. *)
AuthAnswer_anyChannel(k) ==
  LET c == Owner[k]
  IN /\ fetches[k] > 0 /\ fetches' = [fetches EXCEPT ![k] = @ - 1]
     /\ IF client[c].state # "connected"
        THEN UNCHANGED <<client, up, spent>>
        ELSE \/ up' = Sent(client[c], "subscribe", k) /\ UNCHANGED <<client, spent>>
             \/ /\ Spend("refuse") /\ Becomes(c, [client[c] EXCEPT !.told = "denied"])
                /\ UNCHANGED up
     /\ UNCHANGED <<signed, phase, server, down, asked, members>>
AuthAnswer(k) ==
  LET c == Owner[k]
  IN /\ fetches[k] > 0 /\ fetches' = [fetches EXCEPT ![k] = @ - 1]
     /\ IF ~client[c].wanted \/ client[c].state # "connected"
        THEN UNCHANGED <<client, up, spent>>
        ELSE \/ up' = Sent(client[c], "subscribe", k) /\ UNCHANGED <<client, spent>>
             \/ /\ Spend("refuse") /\ Becomes(c, [client[c] EXCEPT !.told = "denied"])
                /\ UNCHANGED up
     /\ UNCHANGED <<signed, phase, server, down, asked, members>>

(* What the channel's callbacks are told. *)
Dispatched(s, frame) ==
  IF ~s.wanted THEN s
  ELSE CASE frame.event = "here" -> [s EXCEPT !.told = "here", !.view = frame.members]
         [] frame.event = "added" -> [s EXCEPT !.view = @ \cup frame.members]
         [] frame.event = "removed" -> [s EXCEPT !.view = @ \ frame.members]
         [] OTHER -> [s EXCEPT !.told = "denied"]

(* _onMessage, of any connection of the client that is still open. *)
Receive(k) ==
  LET c == Owner[k]
      frame == Head(down[k])
      s == CASE frame.event = "connected" ->
                  [client[c] EXCEPT !.socketId = k, !.state = "connected"]
             [] frame.event = "error" -> [client[c] EXCEPT !.state = "error"]
             [] OTHER -> Dispatched(client[c], frame)
  IN /\ phase[k] = "open" /\ down[k] # << >>
     /\ down' = [down EXCEPT ![k] = Tail(@)]
     /\ Becomes(c, s)
     /\ IF frame.event = "connected" THEN SubscribeChannel(s) ELSE UNCHANGED <<up, fetches>>
     /\ UNCHANGED <<signed, phase, server, asked, members, spent>>

(* connect(): nothing to do if _ws is open or opening.  It is hasty if a      *)
(* close event is still to come, which will be taken for the new connection's.*)
Fresh(c) == {k \in Conn : Owner[k] = c /\ phase[k] = "unused"}
Opens(c, timer) ==
  LET k == CHOOSE x \in Fresh(c) : TRUE
  IN /\ Fresh(c) # {}
     /\ IF \E l \in Conn : Owner[l] = c /\ phase[l] = "shut" THEN Spend("hasty")
        ELSE UNCHANGED spent
     /\ Becomes(c, [client[c] EXCEPT !.ws = k, !.state = "connecting",
                                     !.closedByUser = FALSE, !.timer = timer])
     /\ phase' = [phase EXCEPT ![k] = "opening"]

Connect_again(c, timer) == Opens(c, timer)
Connect(c, timer) ==
  IF client[c].ws # None /\ phase[client[c].ws] \in {"opening", "open", "broken"}
  THEN Becomes(c, [client[c] EXCEPT !.timer = timer]) /\ UNCHANGED <<phase, spent>>
  ELSE Opens(c, timer)

Reconnect(c) ==
  /\ client[c].timer /\ Connect(c, FALSE)
  /\ UNCHANGED <<signed, server, up, down, fetches, asked, members>>

(* The user calls connect(); a timer that is set stays so. *)
UserConnect(c) ==
  /\ Connect(c, client[c].timer)
  /\ UNCHANGED <<signed, server, up, down, fetches, asked, members>>

(* disconnect(): what was sent before is delivered, what comes is not. *)
Disconnect(c) ==
  LET k == client[c].ws
  IN /\ ~client[c].closedByUser /\ Spend("disconnect")
     /\ Becomes(c, [client[c] EXCEPT !.closedByUser = TRUE, !.timer = FALSE, !.ws = None,
                                     !.state = "disconnected"])
     /\ IF k = None THEN UNCHANGED <<phase, down>>
        ELSE /\ phase' = [phase EXCEPT ![k] = "shut"]
             /\ down' = [down EXCEPT ![k] = << >>]
     /\ UNCHANGED <<signed, server, up, fetches, asked, members>>

(* onerror, of a connection that failed: its close event is still to come.    *)
OnError(k) ==
  /\ phase[k] = "shut"
  /\ Becomes(Owner[k], [client[Owner[k]] EXCEPT !.state = "error"])
  /\ UNCHANGED <<signed, wires, fetches, asked, members, spent>>

(* _onClose, whichever connection of the client it is about. *)
OnClose(k) ==
  LET c == Owner[k]
  IN /\ phase[k] = "shut" /\ phase' = [phase EXCEPT ![k] = "over"]
     /\ Becomes(c, [client[c] EXCEPT !.ws = None, !.socketId = None,
                                     !.state = "disconnected",
                                     !.timer = ~client[c].closedByUser])
     /\ UNCHANGED <<signed, server, up, down, fetches, asked, members, spent>>
-----------------------------------------------------------------------------
(* The network. *)

Open(k) ==
  /\ phase[k] = "opening" /\ server[k] = "none"
  /\ phase' = [phase EXCEPT ![k] = "open"] /\ server' = [server EXCEPT ![k] = "open"]
  /\ down' = [down EXCEPT ![k] = <<Frame("connected", {})>>]
  /\ UNCHANGED <<signed, client, up, fetches, asked, members, spent>>

(* A connection fails; frames under way may have arrived. *)
Drop(k) ==
  /\ phase[k] \in {"opening", "open"} /\ Spend("drop")
  /\ phase' = [phase EXCEPT ![k] = IF @ = "open" THEN "broken" ELSE "shut"]
  /\ down' = [down EXCEPT ![k] = << >>]
  /\ \E rest \in {up[k], << >>} : up' = [up EXCEPT ![k] = rest]
  /\ UNCHANGED <<signed, client, server, fetches, asked, members>>

Notice(k) ==
  /\ phase[k] = "broken" /\ phase' = [phase EXCEPT ![k] = "shut"]
  /\ UNCHANGED <<signed, client, server, up, down, fetches, asked, members, spent>>
-----------------------------------------------------------------------------
(* The server: BroadcastManager. *)

(* The others are told, then the newcomer who is here. *)
Add(k) ==
  /\ members' = members \cup {k}
  /\ down' = LET told == To(members, Frame("added", {k}))
             IN IF phase[k] = "open"
                THEN [told EXCEPT ![k] = Append(@, Frame("here", members'))]
                ELSE told

Remove(k) ==
  /\ members' = members \ {k}
  /\ down' = IF k \in members THEN To(members', Frame("removed", {k})) ELSE down

Refuse(k, event) == UNCHANGED members /\ down' = To({k}, Frame(event, {}))

(* handleMessage, up to an await: a signature is for its connection only. *)
Handle(k) ==
  LET msg == Head(up[k])
  IN /\ server[k] = "open" /\ up[k] # << >>
     /\ up' = [up EXCEPT ![k] = Tail(@)]
     /\ \/ msg.event = "unsubscribe" /\ Remove(k) /\ UNCHANGED asked
        \/ /\ msg.event = "subscribe" /\ signed /\ UNCHANGED asked
           /\ IF msg.auth = k THEN Add(k) ELSE Refuse(k, "denied")
        \/ /\ msg.event = "subscribe" /\ ~signed
           /\ asked' = [asked EXCEPT ![k] = @ + 1] /\ UNCHANGED <<members, down>>
     /\ UNCHANGED <<signed, client, phase, server, fetches, spent>>

(* The authorize callback allows, denies or throws, while the connection may  *)
(* have closed.                                                               *)
Authorized(k) ==
  /\ asked[k] > 0 /\ asked' = [asked EXCEPT ![k] = @ - 1]
  /\ \/ Add(k) /\ UNCHANGED spent
     \/ Refuse(k, "denied") /\ Spend("refuse")
     \/ Refuse(k, "error") /\ Spend("refuse")
  /\ UNCHANGED <<signed, client, phase, server, up, fetches>>

(* handleClose, after the frames that arrived. *)
ServerClose_forgetsMembers(k) ==
  /\ server[k] = "open" /\ phase[k] \in {"broken", "shut", "over"} /\ up[k] = << >>
  /\ server' = [server EXCEPT ![k] = "closed"]
  /\ UNCHANGED <<signed, client, phase, up, down, fetches, asked, members, spent>>
ServerClose_noNotice(k) ==
  /\ server[k] = "open" /\ phase[k] \in {"broken", "shut", "over"} /\ up[k] = << >>
  /\ server' = [server EXCEPT ![k] = "closed"]
  /\ members' = members \ {k}
  /\ UNCHANGED <<signed, client, phase, up, down, fetches, asked, spent>>
ServerClose(k) ==
  /\ server[k] = "open" /\ phase[k] \in {"broken", "shut", "over"} /\ up[k] = << >>
  /\ server' = [server EXCEPT ![k] = "closed"]
  /\ Remove(k)
  /\ UNCHANGED <<signed, client, phase, up, fetches, asked, spent>>

Works(k) ==
  \/ AuthAnswer(k) \/ Receive(k) \/ OnClose(k) \/ Open(k) \/ Notice(k)
  \/ Handle(k) \/ Authorized(k) \/ ServerClose(k)

Next ==
  \/ \E k \in Conn : Works(k) \/ Drop(k) \/ OnError(k)
  \/ \E c \in Client : Join(c) \/ Leave(c) \/ Reconnect(c) \/ UserConnect(c) \/ Disconnect(c)

Spec == Init /\ [][Next]_vars

(* Sent frames arrive or their connection breaks, which both ends notice;     *)
(* requests and callbacks are answered; timers fire.  Users owe nothing.      *)
Fairness ==
  /\ \A k \in Conn :
       /\ WF_vars(AuthAnswer(k)) /\ WF_vars(Receive(k)) /\ WF_vars(OnClose(k))
       /\ WF_vars(Open(k)) /\ WF_vars(Notice(k)) /\ WF_vars(Handle(k))
       /\ WF_vars(Authorized(k)) /\ WF_vars(ServerClose(k))
  /\ \A c \in Client : WF_vars(Reconnect(c))
FairSpec == Spec /\ Fairness
-----------------------------------------------------------------------------
(* Properties. *)

(* A Socket keeps one connection: connect() is a no-op if it is already open  *)
(* or connecting (Socket.connect), unless it was called hastily.              *)
OneConnection ==
  spent.hasty = 0 => \A k, l \in Conn :
    Owner[k] = Owner[l] /\ {phase[k], phase[l]} \subseteq {"opening", "open"} => k = l

(* No member of a signed channel outlives its connection (handleClose).       *)
NoGhost == signed => members \subseteq {k \in Conn : server[k] = "open"}

(* What here, joining and leaving told a subscriber is who is there, once the *)
(* frames on their way have arrived, whatever was dropped, left and joined    *)
(* again meanwhile.                                                           *)
ViewsAgree ==
  \A c \in Client : LET k == client[c].ws IN
    k \in members /\ phase[k] = "open" /\ down[k] = << >>
      /\ client[c].wanted /\ client[c].told = "here"
    => client[c].view = members

(* In the end a client that wants the channel is in it by its one connection, *)
(* or knows that it was refused; and one that left, or closed, is not.        *)
Settled(c) ==
  LET s == client[c]
      mine == {k \in members : Owner[k] = c}
  IN IF s.wanted /\ ~s.closedByUser
     THEN (s.told = "here" /\ s.ws # None /\ s.ws \in mine) \/ s.told = "denied"
            \/ s.state = "error"
     ELSE signed => mine = {}
MembershipFollows == \A c \in Client : <>[]Settled(c)
=============================================================================
