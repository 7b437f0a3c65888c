--------------------------- MODULE Presence_proofs ---------------------------
(* Theorems about Presence, for any number of clients and connections and any *)
(* number of drops, leaves, disconnects, hasty connects and refusals.         *)
EXTENDS Presence, TLAPS

Live == {"opening", "open", "broken"}

(* The types of the clients; and of the wires and of what waits for an answer.*)
ClientsOK ==
  /\ client \in [Client -> SocketState]
  /\ \A c \in Client : /\ client[c].state = "connected" => client[c].socketId # None
                       /\ client[c].ws # None => Owner[client[c].ws] = c

WiresOK ==
  /\ signed \in Signing
  /\ phase \in [Conn -> Phase]
  /\ server \in [Conn -> {"none", "open", "closed"}]
  /\ up \in [Conn -> Seq(Up)] /\ down \in [Conn -> Seq(Down)]
  /\ fetches \in [Conn -> Nat] /\ asked \in [Conn -> Nat]
  /\ members \subseteq {k \in Conn : server[k] # "none"}
  /\ spent \in EventCount

(* Callbacks are only asked for connections the server has opened, and never  *)
(* on a signed channel: there nothing is left to be added after handleClose.  *)
Asked == \A k \in Conn : asked[k] > 0 => ~signed /\ server[k] # "none"

(* What makes connect() keep one connection: it is the one in _ws, and no     *)
(* close event still to come is about another.                                *)
Sole ==
  spent.hasty = 0 => \A k \in Conn :
    /\ phase[k] \in Live => client[Owner[k]].ws = k
    /\ phase[k] = "shut" => client[Owner[k]].ws \in {k, None}

IInv == ClientsOK /\ WiresOK /\ NoGhost /\ Asked /\ Sole

(* The invariant implies what the theorem states.                             *)
LEMMA IInvSuffices == IInv => TypeOK /\ OneConnection /\ NoGhost
BY DEF IInv, ClientsOK, WiresOK, TypeOK, Sole, Live, OneConnection

(* Every client is opening its first connection.                              *)
LEMMA InitIInv == Init => IInv
<1> SUFFICES ASSUME Init PROVE IInv
  OBVIOUS
<1> USE PresenceAssumption DEF Init
<1>1. client \in [Client -> SocketState]
  BY DEF SocketState
<1>2. up \in [Conn -> Seq(Up)] /\ down \in [Conn -> Seq(Down)]
  OBVIOUS
<1>3. spent \in EventCount
  BY DEF EventCount
<1>4. /\ signed \in Signing /\ phase \in [Conn -> Phase]
      /\ server \in [Conn -> {"none", "open", "closed"}]
      /\ fetches \in [Conn -> Nat] /\ asked \in [Conn -> Nat]
      /\ members \subseteq {k \in Conn : server[k] # "none"}
  BY DEF Phase
<1>5. \A c \in Client : /\ client[c].state = "connected" => client[c].socketId # None
                        /\ client[c].ws # None => Owner[client[c].ws] = c
  OBVIOUS
<1>6. ClientsOK /\ WiresOK
  BY <1>1, <1>2, <1>3, <1>4, <1>5 DEF ClientsOK, WiresOK
<1>7. NoGhost /\ Asked
  BY DEF NoGhost, Asked
<1>8. Sole
  BY DEF Sole, Live
<1> QED BY <1>6, <1>7, <1>8 DEF IInv

-----------------------------------------------------------------------------
(* Types of what is sent and kept. *)

(* What is spent remains a count, and nothing spent is given back.            *)
LEMMA Spends ==
  ASSUME spent \in EventCount,
         NEW what \in {"drop", "leave", "disconnect", "hasty", "refuse"}, Spend(what)
  PROVE  spent' \in EventCount /\ spent'[what] > 0 /\ (spent'.hasty = 0 => spent.hasty = 0)
BY DEF Spend, EventCount

(* _sendRaw keeps the frames' types.                                          *)
LEMMA SentType ==
  ASSUME up \in [Conn -> Seq(Up)], NEW s, NEW event \in {"subscribe", "unsubscribe"},
         s.ws \in Conn \cup {None}, NEW auth \in Conn \cup {None}
  PROVE  Sent(s, event, auth) \in [Conn -> Seq(Up)]
<1>1. [event |-> event, auth |-> auth] \in Up
  BY DEF Up
<1> QED BY <1>1 DEF Sent

(* So does the server's send.                                                 *)
LEMMA ToType ==
  ASSUME down \in [Conn -> Seq(Down)], NEW conns, NEW frame \in Down
  PROVE  To(conns, frame) \in [Conn -> Seq(Down)]
BY DEF To

(* The state a client may change to. *)
Fits(c, s) ==
  /\ s \in SocketState
  /\ s.state = "connected" => s.socketId # None
  /\ s.ws # None => Owner[s.ws] = c
(* Every client's state fits it.                                              *)
LEMMA ClientFits ==
  ASSUME ClientsOK, NEW c \in Client PROVE Fits(c, client[c])
BY DEF ClientsOK, Fits

(* A client that changes to a state that fits keeps all of them fit.          *)
LEMMA BecomesFits ==
  ASSUME ClientsOK, NEW c \in Client, NEW s, Fits(c, s), Becomes(c, s) PROVE ClientsOK'
<1>1. client' \in [Client -> SocketState]
  BY DEF ClientsOK, Becomes, Fits
<1>2. \A d \in Client : client'[d] = IF d = c THEN s ELSE client[d]
  BY DEF ClientsOK, Becomes
<1> QED BY <1>1, <1>2 DEF ClientsOK, Fits

(* _subscribeChannel keeps the types.                                         *)
LEMMA SubscribeTypes ==
  ASSUME WiresOK, NEW c \in Client, NEW s, Fits(c, s), SubscribeChannel(s)
  PROVE  up' \in [Conn -> Seq(Up)] /\ fetches' \in [Conn -> Nat]
<1>1. Sent(s, "subscribe", None) \in [Conn -> Seq(Up)]
  BY SentType DEF WiresOK, Fits, SocketState
<1>2. s.state = "connected" => s.socketId \in Conn
  BY DEF Fits, SocketState
<1>3. \/ fetches' = fetches /\ up' = up
      \/ fetches' = fetches /\ up' = Sent(s, "subscribe", None)
      \/ s.state = "connected" /\ fetches' = [fetches EXCEPT ![s.socketId] = @ + 1] /\ up' = up
  BY DEF SubscribeChannel
<1>4. CASE s.state = "connected" /\ fetches' = [fetches EXCEPT ![s.socketId] = @ + 1]
              /\ up' = up
  <2>1. s.socketId \in Conn /\ fetches \in [Conn -> Nat] /\ up \in [Conn -> Seq(Up)]
    BY <1>2, <1>4 DEF WiresOK
  <2>2. [fetches EXCEPT ![s.socketId] = @ + 1] \in [Conn -> Nat]
    BY <2>1
  <2> QED BY <1>4, <2>1, <2>2
<1> QED BY <1>1, <1>3, <1>4 DEF WiresOK

-----------------------------------------------------------------------------
(* The client's steps. *)

(* What the invariant needs of a step that leaves both ends of every          *)
(* connection, the members, the callbacks and each _ws as they are.           *)
LEMMA Quiet ==
  ASSUME IInv, UNCHANGED <<signed, phase, server, asked, members>>,
         \A c \in Client : client'[c].ws = client[c].ws,
         spent' = spent \/ (spent'.hasty = 0 => spent.hasty = 0)
  PROVE  NoGhost' /\ Asked' /\ Sole'
<1>1. NoGhost' /\ Asked'
  BY DEF IInv, NoGhost, Asked
<1>2. \A k \in Conn : Owner[k] \in Client
  BY PresenceAssumption
<1>3. Sole'
  BY <1>2 DEF IInv, Sole
<1> QED BY <1>1, <1>3

(* A change that leaves _ws alone.                                            *)
LEMMA BecomesWs ==
  ASSUME ClientsOK, NEW c \in Client, NEW s, Becomes(c, s), s.ws = client[c].ws
  PROVE  \A d \in Client : client'[d].ws = client[d].ws
BY DEF Becomes, ClientsOK

(* presence() after leave().                                                  *)
LEMMA JoinIInv == ASSUME IInv, NEW c \in Client, Join(c) PROVE IInv'
<1> DEFINE s == [client[c] EXCEPT !.wanted = TRUE, !.told = "nothing", !.view = {}]
<1>1. ClientsOK /\ WiresOK
  BY DEF IInv
<1>2. Fits(c, s) /\ s.ws = client[c].ws
  BY <1>1, ClientFits DEF Fits, SocketState
<1>3. Becomes(c, s) /\ SubscribeChannel(s)
      /\ UNCHANGED <<signed, phase, server, down, asked, members, spent>>
  BY DEF Join
<1>4. ClientsOK'
  BY <1>1, <1>2, <1>3, BecomesFits
<1>5. WiresOK'
  BY <1>1, <1>2, <1>3, SubscribeTypes DEF WiresOK
<1>6. NoGhost' /\ Asked' /\ Sole'
  BY <1>1, <1>2, <1>3, BecomesWs, Quiet
<1> QED BY <1>4, <1>5, <1>6 DEF IInv

(* leave().                                                                   *)
LEMMA LeaveIInv == ASSUME IInv, NEW c \in Client, Leave(c) PROVE IInv'
<1> DEFINE s == [client[c] EXCEPT !.wanted = FALSE, !.told = "nothing", !.view = {}]
<1>1. ClientsOK /\ WiresOK
  BY DEF IInv
<1>2. Fits(c, client[c]) /\ Fits(c, s) /\ s.ws = client[c].ws
  BY <1>1, ClientFits DEF Fits, SocketState
<1>3. Becomes(c, s) /\ Spend("leave") /\ up' = Sent(client[c], "unsubscribe", None)
      /\ UNCHANGED <<signed, phase, server, down, fetches, asked, members>>
  BY DEF Leave
<1>4. spent' \in EventCount /\ (spent'.hasty = 0 => spent.hasty = 0)
  BY <1>1, <1>3, Spends DEF WiresOK
<1>5. ClientsOK'
  BY <1>1, <1>2, <1>3, BecomesFits
<1>6. up' \in [Conn -> Seq(Up)]
  BY <1>1, <1>2, <1>3, SentType DEF WiresOK, Fits, SocketState
<1>7. WiresOK'
  BY <1>1, <1>3, <1>4, <1>6 DEF WiresOK
<1>8. NoGhost' /\ Asked' /\ Sole'
  BY <1>1, <1>2, <1>3, <1>4, BecomesWs, Quiet
<1> QED BY <1>5, <1>7, <1>8 DEF IInv

(* The auth endpoint's answer.                                                *)
LEMMA AuthAnswerIInv == ASSUME IInv, NEW k \in Conn, AuthAnswer(k) PROVE IInv'
<1> DEFINE c == Owner[k]
           s == [client[c] EXCEPT !.told = "denied"]
<1>1. ClientsOK /\ WiresOK /\ c \in Client
  BY PresenceAssumption DEF IInv
<1>2. Fits(c, client[c]) /\ Fits(c, s) /\ s.ws = client[c].ws
  BY <1>1, ClientFits DEF Fits, SocketState
<1>3. /\ fetches[k] > 0 /\ fetches' = [fetches EXCEPT ![k] = @ - 1]
      /\ UNCHANGED <<signed, phase, server, down, asked, members>>
  BY DEF AuthAnswer
<1>4. \/ UNCHANGED <<client, up, spent>>
      \/ up' = Sent(client[c], "subscribe", k) /\ UNCHANGED <<client, spent>>
      \/ Spend("refuse") /\ Becomes(c, s) /\ UNCHANGED up
  BY DEF AuthAnswer
<1>5. spent' \in EventCount /\ (spent' = spent \/ (spent'.hasty = 0 => spent.hasty = 0))
  BY <1>1, <1>4, Spends DEF WiresOK
<1>6. ClientsOK' /\ \A d \in Client : client'[d].ws = client[d].ws
  BY <1>1, <1>2, <1>4, BecomesFits, BecomesWs DEF ClientsOK
<1>7. Sent(client[c], "subscribe", k) \in [Conn -> Seq(Up)]
  BY <1>1, <1>2, SentType DEF WiresOK, Fits, SocketState
<1>8. up' \in [Conn -> Seq(Up)]
  BY <1>1, <1>4, <1>7 DEF WiresOK
<1>9. fetches' \in [Conn -> Nat]
  BY <1>1, <1>3 DEF WiresOK
<1>10. WiresOK'
  BY <1>1, <1>3, <1>5, <1>8, <1>9 DEF WiresOK
<1>11. NoGhost' /\ Asked' /\ Sole'
  BY <1>3, <1>5, <1>6, Quiet
<1> QED BY <1>6, <1>10, <1>11 DEF IInv

(* Telling the callbacks changes neither _ws nor the connection's state.      *)
LEMMA DispatchedFits ==
  ASSUME NEW c, NEW s, Fits(c, s), NEW frame \in Down
  PROVE  Fits(c, Dispatched(s, frame)) /\ Dispatched(s, frame).ws = s.ws
BY DEF Fits, SocketState, Dispatched, Down

(* A failed connection's error event.                                         *)
LEMMA OnErrorIInv == ASSUME IInv, NEW k \in Conn, OnError(k) PROVE IInv'
<1> DEFINE c == Owner[k]
           s == [client[c] EXCEPT !.state = "error"]
<1>1. ClientsOK /\ WiresOK /\ c \in Client
  BY PresenceAssumption DEF IInv
<1>2. Fits(c, s) /\ s.ws = client[c].ws
  BY <1>1, ClientFits DEF Fits, SocketState
<1>3. Becomes(c, s) /\ UNCHANGED <<signed, wires, fetches, asked, members, spent>>
  BY DEF OnError
<1>4. ClientsOK' /\ WiresOK'
  BY <1>1, <1>2, <1>3, BecomesFits DEF WiresOK, wires
<1>5. NoGhost' /\ Asked' /\ Sole'
  BY <1>1, <1>2, <1>3, BecomesWs, Quiet DEF wires
<1> QED BY <1>4, <1>5 DEF IInv

(* A frame arrives.                                                           *)
LEMMA ReceiveIInv == ASSUME IInv, NEW k \in Conn, Receive(k) PROVE IInv'
<1> DEFINE c == Owner[k]
           frame == Head(down[k])
           s == CASE frame.event = "connected" ->
                       [client[c] EXCEPT !.socketId = k, !.state = "connected"]
                  [] frame.event = "error" -> [client[c] EXCEPT !.state = "error"]
                  [] OTHER -> Dispatched(client[c], frame)
<1>1. ClientsOK /\ WiresOK /\ c \in Client
  BY PresenceAssumption DEF IInv
<1>2. frame \in Down /\ down' \in [Conn -> Seq(Down)]
  BY <1>1 DEF WiresOK, Receive
<1>3. Fits(c, client[c])
  BY <1>1, ClientFits
<1>4. Fits(c, s) /\ s.ws = client[c].ws
  <2>1. CASE frame.event = "connected"
    BY <1>3, <2>1, PresenceAssumption DEF Fits, SocketState
  <2>2. CASE frame.event = "error"
    BY <1>3, <2>2 DEF Fits, SocketState
  <2>3. CASE frame.event \notin {"connected", "error"}
    BY <1>2, <1>3, <2>3, DispatchedFits
  <2> QED BY <2>1, <2>2, <2>3
<1>5. /\ Becomes(c, s) /\ UNCHANGED <<signed, phase, server, asked, members, spent>>
      /\ SubscribeChannel(s) \/ UNCHANGED <<up, fetches>>
  BY DEF Receive
<1>6. ClientsOK'
  BY <1>1, <1>4, <1>5, BecomesFits
<1>7. up' \in [Conn -> Seq(Up)] /\ fetches' \in [Conn -> Nat]
  BY <1>1, <1>4, <1>5, SubscribeTypes DEF WiresOK
<1>8. WiresOK'
  BY <1>1, <1>2, <1>5, <1>7 DEF WiresOK
<1>9. NoGhost' /\ Asked' /\ Sole'
  BY <1>1, <1>4, <1>5, BecomesWs, Quiet
<1> QED BY <1>6, <1>8, <1>9 DEF IInv

(* A new connection replaces none: if _ws is not live, none of its client's   *)
(* is, and none is about to be closed unless the call is hasty.               *)
LEMMA ConnectIInv ==
  ASSUME IInv, NEW c \in Client, NEW timer \in BOOLEAN, Connect(c, timer),
         UNCHANGED <<signed, server, up, down, fetches, asked, members>>
  PROVE  IInv'
<1>1. ClientsOK /\ WiresOK /\ Fits(c, client[c])
  BY ClientFits DEF IInv
<1>2. NoGhost' /\ Asked'
  BY DEF IInv, NoGhost, Asked
<1>3. CASE Becomes(c, [client[c] EXCEPT !.timer = timer]) /\ UNCHANGED <<phase, spent>>
  <2> DEFINE s == [client[c] EXCEPT !.timer = timer]
  <2>1. Fits(c, s) /\ s.ws = client[c].ws
    BY <1>1 DEF Fits, SocketState
  <2>2. ClientsOK' /\ \A d \in Client : client'[d].ws = client[d].ws
    BY <1>1, <1>3, <2>1, BecomesFits, BecomesWs
  <2>3. WiresOK'
    BY <1>1, <1>3 DEF WiresOK
  <2>4. Sole'
    BY <1>3, <2>2, Quiet
  <2> QED BY <1>2, <2>2, <2>3, <2>4 DEF IInv
<1>4. CASE Opens(c, timer) /\ ~(client[c].ws # None /\ phase[client[c].ws] \in Live)
  <2> DEFINE k == CHOOSE x \in Fresh(c) : TRUE
             s == [client[c] EXCEPT !.ws = k, !.state = "connecting",
                                    !.closedByUser = FALSE, !.timer = timer]
  <2>1. k \in Fresh(c)
    BY <1>4 DEF Opens
  <2>2. k \in Conn /\ Owner[k] = c /\ phase[k] = "unused"
    BY <2>1 DEF Fresh
  <2>3. Becomes(c, s) /\ phase' = [phase EXCEPT ![k] = "opening"]
    BY <1>4 DEF Opens
  <2>4. /\ spent' \in EventCount /\ (spent'.hasty = 0 => spent.hasty = 0)
        /\ spent'.hasty = 0 => \A l \in Conn : Owner[l] = c => phase[l] # "shut"
    <3>1. CASE UNCHANGED spent /\ \A l \in Conn : Owner[l] = c => phase[l] # "shut"
      BY <1>1, <3>1 DEF WiresOK
    <3>2. CASE Spend("hasty")
      <4>1. spent' \in EventCount /\ spent'["hasty"] > 0
        BY <1>1, <3>2, Spends DEF WiresOK
      <4> QED BY <4>1
    <3> QED BY <1>4, <3>1, <3>2 DEF Opens
  <2>5. Fits(c, s)
    BY <1>1, <2>2 DEF Fits, SocketState
  <2>6. ClientsOK'
    BY <1>1, <2>3, <2>5, BecomesFits
  <2>7. WiresOK'
    BY <1>1, <2>3, <2>4 DEF WiresOK, Phase
  <2>8. \A d \in Client : client'[d].ws = IF d = c THEN k ELSE client[d].ws
    BY <1>1, <2>3 DEF ClientsOK, Becomes, SocketState
  <2>9. \A l \in Conn : phase'[l] = IF l = k THEN "opening" ELSE phase[l]
    BY <1>1, <2>3 DEF WiresOK
  <2>10. \A l \in Conn : spent.hasty = 0 /\ Owner[l] = c => phase[l] \notin Live
    BY <1>4, PresenceAssumption DEF IInv, Sole
  <2>11. Sole'
    <3> SUFFICES ASSUME spent'.hasty = 0, NEW l \in Conn
                 PROVE  /\ phase'[l] \in Live => client'[Owner[l]].ws = l
                        /\ phase'[l] = "shut" => client'[Owner[l]].ws \in {l, None}
      BY DEF Sole
    <3>1. Owner[l] \in Client
      BY PresenceAssumption
    <3>2. CASE l = k
      BY <2>2, <2>8, <2>9, <3>1, <3>2
    <3>3. CASE l # k /\ Owner[l] = c
      BY <2>4, <2>9, <2>10, <3>3 DEF Live
    <3>4. CASE l # k /\ Owner[l] # c
      BY <2>4, <2>8, <2>9, <3>1, <3>4 DEF IInv, Sole
    <3> QED BY <3>2, <3>3, <3>4
  <2> QED BY <1>2, <2>6, <2>7, <2>11 DEF IInv
<1> QED BY <1>3, <1>4 DEF Connect, Live

(* disconnect() has its connection shut and forgets it.                       *)
LEMMA DisconnectIInv == ASSUME IInv, NEW c \in Client, Disconnect(c) PROVE IInv'
<1> DEFINE k == client[c].ws
           s == [client[c] EXCEPT !.closedByUser = TRUE, !.timer = FALSE, !.ws = None,
                                  !.state = "disconnected"]
<1>1. ClientsOK /\ WiresOK /\ Fits(c, client[c])
  BY ClientFits DEF IInv
<1>2. /\ Spend("disconnect") /\ Becomes(c, s)
      /\ UNCHANGED <<signed, server, up, fetches, asked, members>>
      /\ IF k = None THEN UNCHANGED <<phase, down>>
         ELSE phase' = [phase EXCEPT ![k] = "shut"] /\ down' = [down EXCEPT ![k] = << >>]
  BY DEF Disconnect
<1>3. spent' \in EventCount /\ (spent'.hasty = 0 => spent.hasty = 0)
  BY <1>1, <1>2, Spends DEF WiresOK
<1>4. Fits(c, s)
  BY <1>1 DEF Fits, SocketState
<1>5. ClientsOK'
  BY <1>1, <1>2, <1>4, BecomesFits
<1>6. k # None => k \in Conn /\ Owner[k] = c
  BY <1>1 DEF Fits, SocketState
<1>7. phase' \in [Conn -> Phase] /\ down' \in [Conn -> Seq(Down)]
  <2>1. CASE k = None
    BY <1>1, <1>2, <2>1 DEF WiresOK
  <2>2. CASE k # None
    <3>1. << >> \in Seq(Down) /\ "shut" \in Phase
      BY DEF Phase
    <3> QED BY <1>1, <1>2, <1>6, <2>2, <3>1 DEF WiresOK
  <2> QED BY <2>1, <2>2
<1>8. WiresOK'
  BY <1>1, <1>2, <1>3, <1>7 DEF WiresOK
<1>9. NoGhost' /\ Asked'
  BY <1>2 DEF IInv, NoGhost, Asked
<1>10. \A d \in Client : client'[d].ws = IF d = c THEN None ELSE client[d].ws
  BY <1>1, <1>2 DEF ClientsOK, Becomes, SocketState
<1>11. \A l \in Conn : phase'[l] = IF l = k THEN "shut" ELSE phase[l]
  <2>1. CASE k = None
    BY <1>2, <2>1, PresenceAssumption
  <2>2. CASE k # None
    BY <1>1, <1>2, <1>6, <2>2 DEF WiresOK
  <2> QED BY <2>1, <2>2
<1>12. Sole'
  <2> SUFFICES ASSUME spent'.hasty = 0, NEW l \in Conn
               PROVE  /\ phase'[l] \in Live => client'[Owner[l]].ws = l
                      /\ phase'[l] = "shut" => client'[Owner[l]].ws \in {l, None}
    BY DEF Sole
  <2>1. Owner[l] \in Client
    BY PresenceAssumption
  <2>2. CASE l = k
    BY <1>6, <1>10, <1>11, <2>2, PresenceAssumption DEF Live
  <2>3. CASE l # k
    BY <1>3, <1>10, <1>11, <2>1, <2>3 DEF IInv, Sole
  <2> QED BY <2>2, <2>3
<1> QED BY <1>5, <1>8, <1>9, <1>12 DEF IInv

(* A close event clears _ws: unless connects are hasty, no other connection   *)
(* of the client is live then.                                                *)
LEMMA OnCloseIInv == ASSUME IInv, NEW k \in Conn, OnClose(k) PROVE IInv'
<1> DEFINE c == Owner[k]
           s == [client[c] EXCEPT !.ws = None, !.socketId = None, !.state = "disconnected",
                                  !.timer = ~client[c].closedByUser]
<1>1. ClientsOK /\ WiresOK /\ c \in Client /\ Fits(c, client[c])
  BY ClientFits, PresenceAssumption DEF IInv
<1>2. /\ phase[k] = "shut" /\ phase' = [phase EXCEPT ![k] = "over"] /\ Becomes(c, s)
      /\ UNCHANGED <<signed, server, up, down, fetches, asked, members, spent>>
  BY DEF OnClose
<1>3. Fits(c, s)
  BY <1>1 DEF Fits, SocketState
<1>4. ClientsOK'
  BY <1>1, <1>2, <1>3, BecomesFits
<1>5. WiresOK'
  BY <1>1, <1>2 DEF WiresOK, Phase
<1>6. NoGhost' /\ Asked'
  BY <1>2 DEF IInv, NoGhost, Asked
<1>7. \A d \in Client : client'[d].ws = IF d = c THEN None ELSE client[d].ws
  BY <1>1, <1>2 DEF ClientsOK, Becomes, SocketState
<1>8. \A l \in Conn : phase'[l] = IF l = k THEN "over" ELSE phase[l]
  BY <1>1, <1>2 DEF WiresOK
<1>9. Sole'
  <2> SUFFICES ASSUME spent'.hasty = 0, NEW l \in Conn
               PROVE  /\ phase'[l] \in Live => client'[Owner[l]].ws = l
                      /\ phase'[l] = "shut" => client'[Owner[l]].ws \in {l, None}
    BY DEF Sole
  <2>1. Owner[l] \in Client
    BY PresenceAssumption
  <2>2. CASE l = k
    BY <1>8, <2>2 DEF Live
  <2>3. CASE l # k /\ Owner[l] = c
    <3>1. client[c].ws \in {k, None} /\ (phase[l] \in Live => client[c].ws = l)
      BY <1>2, <2>3 DEF IInv, Sole
    <3>2. phase'[l] \notin Live
      BY <1>8, <2>3, <3>1, PresenceAssumption
    <3> QED BY <1>1, <1>7, <2>3, <3>2
  <2>4. CASE l # k /\ Owner[l] # c
    BY <1>2, <1>7, <1>8, <2>1, <2>4 DEF IInv, Sole
  <2> QED BY <2>2, <2>3, <2>4
<1> QED BY <1>4, <1>5, <1>6, <1>9 DEF IInv

-----------------------------------------------------------------------------
(* The steps of the network and of the server change no Socket.               *)

(* A step that changes no client.                                             *)
LEMMA SameClients == ASSUME ClientsOK, UNCHANGED client PROVE ClientsOK'
BY DEF ClientsOK

(* A connection opens at both ends.                                           *)
LEMMA OpenIInv == ASSUME IInv, NEW k \in Conn, Open(k) PROVE IInv'
<1> USE DEF IInv, Open
<1>1. Frame("connected", {}) \in Down
  BY DEF Frame, Down
<1>2. phase' \in [Conn -> Phase] /\ server' \in [Conn -> {"none", "open", "closed"}]
  BY DEF WiresOK, Phase
<1>3. down' \in [Conn -> Seq(Down)]
  BY <1>1 DEF WiresOK
<1>4. \A l \in Conn : /\ server'[l] = IF l = k THEN "open" ELSE server[l]
                      /\ phase'[l] = IF l = k THEN "open" ELSE phase[l]
  BY DEF WiresOK
<1>5. ClientsOK' /\ WiresOK'
  BY <1>2, <1>3, <1>4, SameClients DEF WiresOK
<1>6. NoGhost' /\ Asked'
  BY <1>4 DEF NoGhost, Asked
<1>7. Sole'
  BY <1>4, PresenceAssumption DEF Sole, Live
<1> QED BY <1>5, <1>6, <1>7

(* A live connection breaks.                                                  *)
LEMMA DropIInv == ASSUME IInv, NEW k \in Conn, Drop(k) PROVE IInv'
<1> USE DEF IInv, Drop
<1>1. spent' \in EventCount /\ (spent'.hasty = 0 => spent.hasty = 0)
  BY Spends DEF WiresOK
<1>2. phase' \in [Conn -> Phase]
  BY DEF WiresOK, Phase
<1>3. up' \in [Conn -> Seq(Up)] /\ down' \in [Conn -> Seq(Down)]
  <2>1. PICK rest \in {up[k], << >>} : up' = [up EXCEPT ![k] = rest]
    OBVIOUS
  <2>2. up[k] \in Seq(Up) /\ << >> \in Seq(Up)
    BY DEF WiresOK
  <2>3. rest \in Seq(Up)
    BY <2>2
  <2>4. down' \in [Conn -> Seq(Down)]
    BY DEF WiresOK
  <2> QED BY <2>1, <2>3, <2>4 DEF WiresOK
<1>4. ClientsOK' /\ WiresOK'
  BY <1>1, <1>2, <1>3, SameClients DEF WiresOK
<1>5. NoGhost' /\ Asked'
  BY DEF NoGhost, Asked
<1>6. \A l \in Conn : l # k => phase'[l] = phase[l]
  BY DEF WiresOK
<1>7. phase[k] \in Live /\ phase'[k] \in {"broken", "shut"}
  BY DEF WiresOK, Live
<1>8. Sole'
  BY <1>1, <1>6, <1>7 DEF Sole
<1> QED BY <1>4, <1>5, <1>8

(* The client notices.                                                        *)
LEMMA NoticeIInv == ASSUME IInv, NEW k \in Conn, Notice(k) PROVE IInv'
<1> USE DEF IInv, Notice
<1>1. ClientsOK' /\ WiresOK'
  BY SameClients DEF WiresOK, Phase
<1>2. NoGhost' /\ Asked'
  BY DEF NoGhost, Asked
<1>3. \A l \in Conn : phase'[l] = IF l = k THEN "shut" ELSE phase[l]
  BY DEF WiresOK
<1>4. Sole'
  BY <1>3 DEF Sole, Live
<1> QED BY <1>1, <1>2, <1>4

(* A step of the server on one connection keeps the types and the clients'    *)
(* side; what is left to check is who is a member.                            *)
LEMMA ServerStep ==
  ASSUME IInv, UNCHANGED <<signed, client, phase, fetches>>,
         server' \in [Conn -> {"none", "open", "closed"}],
         up' \in [Conn -> Seq(Up)], down' \in [Conn -> Seq(Down)],
         asked' \in [Conn -> Nat], members' \subseteq {k \in Conn : server'[k] # "none"},
         spent' = spent \/ Spend("refuse"), NoGhost', Asked'
  PROVE  IInv'
<1>1. spent' \in EventCount /\ (spent'.hasty = 0 => spent.hasty = 0)
  BY Spends DEF IInv, WiresOK
<1>2. ClientsOK' /\ WiresOK'
  BY <1>1, SameClients DEF IInv, WiresOK
<1>3. Sole'
  BY <1>1 DEF IInv, Sole
<1> QED BY <1>2, <1>3 DEF IInv

(* One frame more is still a sequence of frames.                              *)
LEMMA AppendType ==
  ASSUME NEW f \in [Conn -> Seq(Down)], NEW k \in Conn, NEW frame \in Down
  PROVE  [f EXCEPT ![k] = Append(@, frame)] \in [Conn -> Seq(Down)]
OBVIOUS

(* Adding a member.                                                           *)
LEMMA AddTypes ==
  ASSUME WiresOK, NEW k \in Conn, Add(k)
  PROVE  down' \in [Conn -> Seq(Down)] /\ members' = members \cup {k}
<1> DEFINE told == To(members, Frame("added", {k}))
<1>1. Frame("added", {k}) \in Down /\ Frame("here", members') \in Down
  BY DEF Frame, Down, Add, WiresOK
<1>2. told \in [Conn -> Seq(Down)]
  BY <1>1, ToType DEF WiresOK
<1>3. down' = told \/ down' = [told EXCEPT ![k] = Append(@, Frame("here", members'))]
  BY DEF Add
<1>4. members' = members \cup {k}
  BY DEF Add
<1> HIDE DEF told
<1>5. [told EXCEPT ![k] = Append(@, Frame("here", members'))] \in [Conn -> Seq(Down)]
  BY <1>1, <1>2, AppendType
<1> QED BY <1>2, <1>3, <1>4, <1>5

(* Removing one.                                                              *)
LEMMA RemoveTypes ==
  ASSUME WiresOK, NEW k \in Conn, Remove(k)
  PROVE  down' \in [Conn -> Seq(Down)] /\ members' = members \ {k}
<1>1. Frame("removed", {k}) \in Down
  BY DEF Frame, Down
<1>2. To(members', Frame("removed", {k})) \in [Conn -> Seq(Down)]
  BY <1>1, ToType DEF WiresOK
<1> QED BY <1>2 DEF Remove, WiresOK

(* Refusing a subscription.                                                   *)
LEMMA RefuseTypes ==
  ASSUME WiresOK, NEW k \in Conn, NEW event \in {"denied", "error"}, Refuse(k, event)
  PROVE  down' \in [Conn -> Seq(Down)] /\ members' = members
<1>1. Frame(event, {}) \in Down
  BY DEF Frame, Down
<1>2. To({k}, Frame(event, {})) \in [Conn -> Seq(Down)]
  BY <1>1, ToType DEF WiresOK
<1> QED BY <1>2 DEF Refuse

(* A frame is handled while its connection is open; on a signed channel that  *)
(* is when its member is added.                                               *)
LEMMA HandleIInv == ASSUME IInv, NEW k \in Conn, Handle(k) PROVE IInv'
<1> USE DEF IInv
<1>1. /\ server[k] = "open" /\ up[k] # << >> /\ up' = [up EXCEPT ![k] = Tail(@)]
      /\ UNCHANGED <<signed, client, phase, server, fetches, spent>>
  BY DEF Handle
<1>2. \/ UNCHANGED asked /\ (Add(k) \/ Remove(k) \/ Refuse(k, "denied"))
      \/ ~signed /\ asked' = [asked EXCEPT ![k] = @ + 1] /\ UNCHANGED <<members, down>>
  BY DEF Handle
<1>3. down' \in [Conn -> Seq(Down)] /\ members' \subseteq members \cup {k}
  BY <1>2, AddTypes, RemoveTypes, RefuseTypes DEF WiresOK
<1>4. up' \in [Conn -> Seq(Up)]
  BY <1>1 DEF WiresOK
<1>5. asked' \in [Conn -> Nat]
  <2>1. asked \in [Conn -> Nat] /\ [asked EXCEPT ![k] = @ + 1] \in [Conn -> Nat]
    BY DEF WiresOK
  <2> QED BY <1>2, <2>1
<1>6. members' \subseteq {l \in Conn : server'[l] # "none"} /\ NoGhost'
  BY <1>1, <1>3 DEF WiresOK, NoGhost
<1>7. Asked'
  BY <1>1, <1>2 DEF WiresOK, Asked
<1> QED BY <1>1, <1>3, <1>4, <1>5, <1>6, <1>7, ServerStep DEF WiresOK

(* The authorize callback answers, for an unsigned channel only.              *)
LEMMA AuthorizedIInv == ASSUME IInv, NEW k \in Conn, Authorized(k) PROVE IInv'
<1> USE DEF IInv
<1>1. /\ asked[k] > 0 /\ asked' = [asked EXCEPT ![k] = @ - 1]
      /\ UNCHANGED <<signed, client, phase, server, up, fetches>>
      /\ spent' = spent \/ Spend("refuse")
      /\ Add(k) \/ Refuse(k, "denied") \/ Refuse(k, "error")
  BY DEF Authorized
<1>2. down' \in [Conn -> Seq(Down)] /\ members' \subseteq members \cup {k}
  BY <1>1, AddTypes, RefuseTypes
<1>3. ~signed /\ server[k] # "none"
  BY <1>1 DEF Asked
<1>4. members' \subseteq {l \in Conn : server'[l] # "none"} /\ NoGhost'
  BY <1>1, <1>2, <1>3 DEF WiresOK, NoGhost
<1>5. asked' \in [Conn -> Nat] /\ Asked'
  BY <1>1 DEF WiresOK, Asked
<1> QED BY <1>1, <1>2, <1>4, <1>5, ServerStep DEF WiresOK

(* handleClose takes the member away with its connection.                     *)
LEMMA ServerCloseIInv == ASSUME IInv, NEW k \in Conn, ServerClose(k) PROVE IInv'
<1> USE DEF IInv
<1>1. /\ server[k] = "open" /\ server' = [server EXCEPT ![k] = "closed"] /\ Remove(k)
      /\ UNCHANGED <<signed, client, phase, up, fetches, asked, spent>>
  BY DEF ServerClose
<1>2. down' \in [Conn -> Seq(Down)] /\ members' = members \ {k}
  BY <1>1, RemoveTypes
<1>3. \A l \in Conn : server'[l] = IF l = k THEN "closed" ELSE server[l]
  BY <1>1 DEF WiresOK
<1>4. members' \subseteq {l \in Conn : server'[l] # "none"} /\ NoGhost' /\ Asked'
  BY <1>1, <1>2, <1>3 DEF WiresOK, NoGhost, Asked
<1> QED BY <1>1, <1>2, <1>4, ServerStep DEF WiresOK

(* Every step keeps the invariant.                                            *)
LEMMA NextIInv == IInv /\ [Next]_vars => IInv'
<1> SUFFICES ASSUME IInv, [Next]_vars PROVE IInv'
  OBVIOUS
<1>1. ASSUME NEW c \in Client, Reconnect(c) PROVE IInv'
  BY <1>1, ConnectIInv DEF Reconnect
<1>2. ASSUME NEW c \in Client, UserConnect(c) PROVE IInv'
  <2>1. client[c].timer \in BOOLEAN
    BY ClientFits DEF IInv, Fits, SocketState
  <2> QED BY <1>2, <2>1, ConnectIInv DEF UserConnect
<1>3. ASSUME NEW k \in Conn, Works(k) PROVE IInv'
  BY <1>3, AuthAnswerIInv, ReceiveIInv, OnCloseIInv, OpenIInv, NoticeIInv, HandleIInv,
     AuthorizedIInv, ServerCloseIInv
  DEF Works
<1>4. CASE UNCHANGED vars
  BY <1>4 DEF vars, wires, IInv, ClientsOK, WiresOK, NoGhost, Asked, Sole
<1> QED BY <1>1, <1>2, <1>3, <1>4, JoinIInv, LeaveIInv, DisconnectIInv, DropIInv,
           OnErrorIInv DEF Next

(* A signed presence channel has no member whose connection is closed, and a  *)
(* Socket whose connects are not hasty has one connection (handleMessage,     *)
(* handleClose, Socket.connect).                                              *)
THEOREM NoGhosts == Spec => [](TypeOK /\ NoGhost /\ OneConnection)
BY InitIInv, NextIInv, IInvSuffices, PTL DEF Spec
-----------------------------------------------------------------------------
(* What a member has been shown.                                              *)

(* The frames that settle whether x is shown, and those that show it.         *)
Decides(frame, x) ==
  \/ frame.event = "here"
  \/ frame.event \in {"added", "removed"} /\ x \in frame.members
Shows(frame, x) == frame.event # "removed" /\ x \in frame.members

(* The last of the frames on their way that is about x tells the truth of it, *)
(* or, if none is, what a client in state s was told does.                    *)
Last(frames, x, i) ==
  /\ i \in DOMAIN frames /\ Decides(frames[i], x)
  /\ \A j \in DOMAIN frames : Decides(frames[j], x) => j <= i
InStep(list, frames, s, x) ==
  /\ \A i \in DOMAIN frames : Last(frames, x, i) => (Shows(frames[i], x) <=> x \in list)
  /\ s.told = "here" /\ (\A i \in DOMAIN frames : ~Decides(frames[i], x))
       => (x \in s.view <=> x \in list)

(* So it is for every member and every connection; and who does not want the  *)
(* channel has not been told anything.                                        *)
Shown ==
  \A k \in members : phase[k] = "open" =>
    \A x \in Conn : InStep(members, down[k], client[Owner[k]], x)
Wanted == \A c \in Client : client[c].told = "here" => client[c].wanted

ShownInv == Wanted /\ (spent.hasty = 0 => Shown)

(* A frame more, about x or not.                                              *)
LEMMA OneMore ==
  ASSUME NEW frames \in Seq(Down), NEW frame \in Down, NEW s, NEW x,
         NEW list, NEW later,
         \/ Decides(frame, x) /\ (Shows(frame, x) <=> x \in later)
         \/ /\ ~Decides(frame, x) /\ InStep(list, frames, s, x)
            /\ x \in later <=> x \in list
  PROVE  InStep(later, Append(frames, frame), s, x)
<1> DEFINE more == Append(frames, frame)
           n == Len(frames) + 1
<1>1. /\ Len(frames) \in Nat /\ DOMAIN frames = 1..Len(frames)
      /\ DOMAIN more = 1..n /\ more[n] = frame
      /\ \A i \in DOMAIN frames : i \in DOMAIN more /\ more[i] = frames[i]
  OBVIOUS
<1>2. n \in DOMAIN more /\ (\A i \in DOMAIN more : i \in DOMAIN frames \/ i = n)
  BY <1>1
<1>3. \A i \in DOMAIN frames : i # n /\ i <= n /\ ~(n <= i)
  BY <1>1
<1> HIDE DEF more, n
<1>4. CASE Decides(frame, x) /\ (Shows(frame, x) <=> x \in later)
  <2>1. \A i \in DOMAIN more : Last(more, x, i) => i = n
    BY <1>1, <1>2, <1>3, <1>4 DEF Last
  <2> QED BY <1>1, <1>2, <1>4, <2>1 DEF InStep, more
<1>5. CASE /\ ~Decides(frame, x) /\ InStep(list, frames, s, x)
           /\ x \in later <=> x \in list
  <2>1. ASSUME NEW i \in DOMAIN more, Last(more, x, i)
        PROVE  i \in DOMAIN frames /\ Last(frames, x, i) /\ more[i] = frames[i]
    BY <1>1, <1>2, <1>5, <2>1 DEF Last
  <2>2. (\A i \in DOMAIN more : ~Decides(more[i], x))
          => \A i \in DOMAIN frames : ~Decides(frames[i], x)
    BY <1>1
  <2> QED BY <1>5, <2>1, <2>2 DEF InStep, more
<1> QED BY <1>4, <1>5

(* The first frame arrives.                                                   *)
LEMMA OneLess ==
  ASSUME NEW frames \in Seq(Down), frames # << >>, NEW s, NEW new, NEW x, NEW list,
         InStep(list, frames, s, x),
         new.told = "here" =>
           IF Decides(Head(frames), x) THEN x \in new.view <=> Shows(Head(frames), x)
           ELSE s.told = "here" /\ (x \in new.view <=> x \in s.view)
  PROVE  InStep(list, Tail(frames), new, x)
<1> DEFINE rest == Tail(frames)
<1>1. /\ Len(frames) \in Nat /\ Len(frames) > 0 /\ DOMAIN frames = 1..Len(frames)
      /\ DOMAIN rest = 1..(Len(frames) - 1) /\ Head(frames) = frames[1]
      /\ \A i \in DOMAIN rest : rest[i] = frames[i + 1]
  OBVIOUS
<1>2. 1 \in DOMAIN frames /\ (\A i \in DOMAIN rest : i \in Nat /\ i + 1 \in DOMAIN frames)
  BY <1>1
<1>3. ASSUME NEW j \in DOMAIN frames
      PROVE  j = 1 \/ (j - 1 \in DOMAIN rest /\ rest[j - 1] = frames[j] /\ j \in Nat)
  <2>1. j # 1 => j - 1 \in DOMAIN rest /\ (j - 1) + 1 = j /\ j \in Nat
    BY <1>1
  <2> QED BY <1>1, <2>1
<1>4. ASSUME NEW i \in DOMAIN rest, Last(rest, x, i)
      PROVE  Shows(rest[i], x) <=> x \in list
  <2>1. ASSUME NEW j \in DOMAIN frames, Decides(frames[j], x) PROVE j <= i + 1
    <3>1. CASE j = 1
      BY <1>2, <3>1
    <3>2. CASE j - 1 \in DOMAIN rest /\ rest[j - 1] = frames[j] /\ j \in Nat
      <4>1. j - 1 <= i
        BY <1>4, <2>1, <3>2 DEF Last
      <4> QED BY <1>2, <3>2, <4>1
    <3> QED BY <1>3, <3>1, <3>2
  <2>2. Last(frames, x, i + 1)
    BY <1>1, <1>2, <1>4, <2>1 DEF Last
  <2> QED BY <1>1, <1>2, <2>2 DEF InStep
<1>5. ASSUME new.told = "here", \A i \in DOMAIN rest : ~Decides(rest[i], x)
      PROVE  x \in new.view <=> x \in list
  <2>1. \A j \in DOMAIN frames : Decides(frames[j], x) => j = 1
    BY <1>3, <1>5
  <2>2. CASE Decides(Head(frames), x)
    <3>1. Last(frames, x, 1)
      <4>1. \A j \in DOMAIN frames : Decides(frames[j], x) => j <= 1
        BY <2>1
      <4> QED BY <1>1, <1>2, <2>2, <4>1 DEF Last
    <3> QED BY <1>1, <1>2, <1>5, <2>2, <3>1 DEF InStep
  <2>3. CASE ~Decides(Head(frames), x)
    <3>1. \A j \in DOMAIN frames : ~Decides(frames[j], x)
      BY <1>1, <2>1, <2>3
    <3> QED BY <1>5, <2>3, <3>1 DEF InStep
  <2> QED BY <2>2, <2>3
<1> HIDE DEF rest
<1>6. InStep(list, rest, new, x)
  BY <1>4, <1>5 DEF InStep
<1> QED BY <1>6 DEF rest

(* Steps that add no frame for a member and tell nobody who is here.          *)
Keeps ==
  /\ members' = members
  /\ spent'.hasty = 0 => spent.hasty = 0
  /\ \A k \in members : phase'[k] = "open" => phase[k] = "open" /\ down'[k] = down[k]
  /\ \A c \in Client : client'[c].told = "here" =>
       /\ client[c].told = "here" /\ client'[c].view = client[c].view
       /\ client[c].wanted => client'[c].wanted

(* They keep what was shown.                                                  *)
LEMMA KeepsShown == ASSUME IInv, ShownInv, Keeps PROVE ShownInv'
<1>1. Wanted'
  BY DEF ShownInv, Wanted, Keeps
<1>2. ASSUME spent'.hasty = 0, NEW k \in members', phase'[k] = "open", NEW x \in Conn
      PROVE  InStep(members', down'[k], client'[Owner[k]], x)
  <2>1. k \in members /\ k \in Conn /\ Owner[k] \in Client /\ phase[k] = "open"
        /\ down'[k] = down[k] /\ members' = members /\ spent.hasty = 0
    BY <1>2, PresenceAssumption DEF Keeps, IInv, WiresOK
  <2>2. InStep(members, down[k], client[Owner[k]], x)
    BY <2>1 DEF ShownInv, Shown
  <2> QED BY <2>1, <2>2 DEF InStep, Keeps
<1>3. spent'.hasty = 0 => Shown'
  BY <1>2 DEF Shown
<1> QED BY <1>1, <1>3 DEF ShownInv

(* What a client changes to when it is told nothing of who is here.           *)
LEMMA BecomesKeeps ==
  ASSUME ClientsOK, NEW c \in Client, NEW s, Becomes(c, s),
         s.told = "here" =>
           /\ client[c].told = "here" /\ s.view = client[c].view
           /\ client[c].wanted => s.wanted
  PROVE  \A d \in Client : client'[d].told = "here" =>
           /\ client[d].told = "here" /\ client'[d].view = client[d].view
           /\ client[d].wanted => client'[d].wanted
BY DEF Becomes, ClientsOK

(* The clients' steps, but for the frames they receive, and the network's.    *)
LEMMA QuietShown ==
  ASSUME IInv, ShownInv,
         \/ \E c \in Client : Join(c) \/ Leave(c) \/ Reconnect(c) \/ UserConnect(c)
                                \/ Disconnect(c)
         \/ \E k \in Conn : \/ AuthAnswer(k) \/ OnError(k) \/ OnClose(k)
                             \/ Open(k) \/ Drop(k) \/ Notice(k)
  PROVE  ShownInv'
<1>1. ClientsOK /\ WiresOK
  BY DEF IInv
<1> DEFINE Grows == spent'.hasty = 0 => spent.hasty = 0
           Lines == \A k \in members : phase'[k] = "open" =>
                      phase[k] = "open" /\ down'[k] = down[k]
           Same(s, c) == s.told = client[c].told /\ s.view = client[c].view
                         /\ s.wanted = client[c].wanted
           Tells(c) == \E s : Becomes(c, s) /\ (Same(s, c) \/ s.told # "here")
<1>2. ASSUME members' = members, Grows, Lines,
             UNCHANGED client \/ \E c \in Client : Tells(c)
      PROVE  ShownInv'
  <2>1. \A d \in Client : client'[d].told = "here" =>
          /\ client[d].told = "here" /\ client'[d].view = client[d].view
          /\ client[d].wanted => client'[d].wanted
    BY <1>1, <1>2, BecomesKeeps
  <2>2. Keeps
    BY <1>2, <2>1 DEF Keeps
  <2> QED BY <2>2, KeepsShown
<1>3. \A what \in {"drop", "leave", "disconnect", "hasty", "refuse"} : Spend(what) => Grows
  BY <1>1, Spends DEF WiresOK
<1>4. UNCHANGED spent => Grows
  OBVIOUS
<1>5. UNCHANGED <<phase, down>> => Lines
  OBVIOUS
<1>6. ASSUME NEW c \in Client
      PROVE  client[c] \in SocketState
  BY <1>1 DEF ClientsOK
<1>7. ASSUME NEW c \in Client, Join(c) \/ Leave(c) PROVE ShownInv'
  <2>1. UNCHANGED <<phase, down, members>> /\ Grows
    BY <1>3, <1>4, <1>7 DEF Join, Leave
  <2> DEFINE s(w) == [client[c] EXCEPT !.wanted = w, !.told = "nothing", !.view = {}]
  <2>2. Becomes(c, s(TRUE)) \/ Becomes(c, s(FALSE))
    BY <1>7 DEF Join, Leave
  <2>3. \A w \in BOOLEAN : s(w).told # "here"
    BY <1>6 DEF SocketState
  <2> HIDE DEF s
  <2>4. Tells(c)
    BY <2>2, <2>3
  <2> QED BY <1>2, <1>5, <2>1, <2>4
<1>8. ASSUME NEW k \in Conn, AuthAnswer(k) PROVE ShownInv'
  <2>1. Owner[k] \in Client
    BY PresenceAssumption
  <2>2. UNCHANGED <<phase, down, members>> /\ Grows
    BY <1>3, <1>4, <1>8 DEF AuthAnswer
  <2>3. UNCHANGED client \/ Tells(Owner[k])
    BY <1>6, <1>8, <2>1 DEF AuthAnswer, SocketState
  <2> QED BY <1>2, <1>5, <2>1, <2>2, <2>3
<1>9. ASSUME NEW c \in Client, NEW timer \in BOOLEAN, Connect(c, timer),
             UNCHANGED <<down, members>>
      PROVE  ShownInv'
  <2> DEFINE k == CHOOSE x \in Fresh(c) : TRUE
             s == [client[c] EXCEPT !.timer = timer]
             new == [client[c] EXCEPT !.ws = k, !.state = "connecting",
                                      !.closedByUser = FALSE, !.timer = timer]
  <2>1. Becomes(c, s) \/ Becomes(c, new)
    BY <1>9 DEF Connect, Opens
  <2>2. Same(s, c) /\ Same(new, c)
    BY <1>6 DEF SocketState
  <2>3. Grows
    BY <1>3, <1>4, <1>9 DEF Connect, Opens
  <2> HIDE DEF s, new
  <2>4. Tells(c) /\ Grows
    BY <2>1, <2>2, <2>3
  <2>5. UNCHANGED phase \/ \E j \in Conn : phase' = [phase EXCEPT ![j] = "opening"]
    BY <1>9 DEF Connect, Opens, Fresh
  <2>6. Lines
    BY <1>1, <1>9, <2>5 DEF WiresOK
  <2> QED BY <1>2, <1>9, <2>4, <2>6
<1>10. ASSUME NEW c \in Client, Reconnect(c) \/ UserConnect(c) PROVE ShownInv'
  <2>1. client[c].timer \in BOOLEAN
    BY <1>6 DEF SocketState
  <2> QED BY <1>9, <1>10, <2>1 DEF Reconnect, UserConnect
<1>11. ASSUME NEW c \in Client, Disconnect(c) PROVE ShownInv'
  <2>1. members' = members /\ Grows
    BY <1>3, <1>11 DEF Disconnect
  <2> DEFINE s == [client[c] EXCEPT !.closedByUser = TRUE, !.timer = FALSE, !.ws = None,
                                    !.state = "disconnected"]
  <2>2. Becomes(c, s) /\ Same(s, c)
    BY <1>6, <1>11 DEF Disconnect, SocketState
  <2> HIDE DEF s
  <2>3. Tells(c)
    BY <2>2
  <2>4. Lines
    BY <1>1, <1>11 DEF Disconnect, WiresOK
  <2> QED BY <1>2, <2>1, <2>3, <2>4
<1>12. ASSUME NEW k \in Conn, OnClose(k) PROVE ShownInv'
  <2>1. Owner[k] \in Client
    BY PresenceAssumption
  <2>2. UNCHANGED <<down, members, spent>> /\ phase' = [phase EXCEPT ![k] = "over"]
    BY <1>12 DEF OnClose
  <2> DEFINE s == [client[Owner[k]] EXCEPT !.ws = None, !.socketId = None,
                     !.state = "disconnected", !.timer = ~client[Owner[k]].closedByUser]
  <2>3. Becomes(Owner[k], s)
    BY <1>12 DEF OnClose
  <2>4. Same(s, Owner[k])
    BY <1>6, <2>1 DEF SocketState
  <2> HIDE DEF s
  <2>5. Tells(Owner[k])
    BY <2>3, <2>4
  <2>6. Lines
    BY <1>1, <2>2 DEF WiresOK
  <2> QED BY <1>2, <1>4, <2>1, <2>2, <2>5, <2>6
<1>13. ASSUME NEW k \in Conn, Open(k) \/ Drop(k) \/ Notice(k) PROVE ShownInv'
  <2>1. UNCHANGED <<client, members>> /\ Grows
    BY <1>3, <1>4, <1>13 DEF Open, Drop, Notice
  <2>2. Lines
    <3>1. CASE Open(k)
      <4>1. k \notin members /\ \A l \in Conn : l # k => phase'[l] = phase[l] /\ down'[l] = down[l]
        BY <1>1, <3>1 DEF Open, WiresOK
      <4>2. members \subseteq Conn
        BY <1>1 DEF WiresOK
      <4> QED BY <4>1, <4>2
    <3>2. CASE Drop(k)
      BY <1>1, <3>2 DEF Drop, WiresOK
    <3>3. CASE Notice(k)
      BY <1>1, <3>3 DEF Notice, WiresOK
    <3> QED BY <1>13, <3>1, <3>2, <3>3
  <2> QED BY <1>2, <2>1, <2>2
<1>14. ASSUME NEW k \in Conn, OnError(k) PROVE ShownInv'
  <2>1. Owner[k] \in Client
    BY PresenceAssumption
  <2>2. UNCHANGED <<phase, down, members, spent>>
    BY <1>14 DEF OnError, wires
  <2> DEFINE s == [client[Owner[k]] EXCEPT !.state = "error"]
  <2>3. Becomes(Owner[k], s) /\ Same(s, Owner[k])
    BY <1>6, <1>14, <2>1 DEF OnError, SocketState
  <2> HIDE DEF s
  <2>4. Tells(Owner[k])
    BY <2>3
  <2> QED BY <1>2, <1>4, <1>5, <2>1, <2>2, <2>4
<1> QED BY <1>7, <1>8, <1>10, <1>11, <1>12, <1>13, <1>14

(* A frame tells its client what it says.                                     *)
LEMMA ReceiveShown == ASSUME IInv, ShownInv, NEW k \in Conn, Receive(k) PROVE ShownInv'
<1> DEFINE c == Owner[k]
           frame == Head(down[k])
           s == CASE frame.event = "connected" ->
                       [client[c] EXCEPT !.socketId = k, !.state = "connected"]
                  [] frame.event = "error" -> [client[c] EXCEPT !.state = "error"]
                  [] OTHER -> Dispatched(client[c], frame)
<1>1. ClientsOK /\ WiresOK /\ c \in Client /\ client[c] \in SocketState
      /\ down[k] \in Seq(Down)
  BY PresenceAssumption DEF IInv, ClientsOK, WiresOK
<1>2. /\ phase[k] = "open" /\ down[k] # << >> /\ down' = [down EXCEPT ![k] = Tail(@)]
      /\ Becomes(c, s) /\ UNCHANGED <<phase, members, spent>>
  BY DEF Receive
<1>3. frame \in Down
  BY <1>1, <1>2
<1>4. /\ s.wanted = client[c].wanted
      /\ s.told = "here" /\ client[c].told # "here" => client[c].wanted /\ frame.event = "here"
  <2>1. CASE frame.event = "connected"
    BY <1>1, <2>1 DEF SocketState
  <2>2. CASE frame.event = "error"
    BY <1>1, <2>2 DEF SocketState
  <2>3. CASE frame.event \in {"here", "added", "removed", "denied"}
    BY <1>1, <2>3 DEF SocketState, Dispatched
  <2> QED BY <1>3, <2>1, <2>2, <2>3 DEF Down
<1>5. ASSUME s.told = "here", client[c].told = "here" => client[c].wanted, NEW x \in Conn
      PROVE  IF Decides(frame, x) THEN x \in s.view <=> Shows(frame, x)
             ELSE client[c].told = "here" /\ (x \in s.view <=> x \in client[c].view)
  <2>1. client[c].wanted
    BY <1>4, <1>5
  <2>2. CASE frame.event = "connected"
    BY <1>1, <1>5, <2>2 DEF SocketState, Decides
  <2>3. CASE frame.event = "error"
    BY <1>1, <1>5, <2>3 DEF SocketState, Decides
  <2>4. CASE frame.event \in {"here", "added", "removed", "denied"}
    BY <1>1, <1>3, <1>5, <2>1, <2>4 DEF SocketState, Dispatched, Decides, Shows, Down
  <2> QED BY <1>3, <2>2, <2>3, <2>4 DEF Down
<1> HIDE DEF s, frame
<1>6. \A d \in Client : client'[d] = IF d = c THEN s ELSE client[d]
  BY <1>1, <1>2 DEF ClientsOK, Becomes
<1>7. Wanted'
  BY <1>1, <1>4, <1>6 DEF ShownInv, Wanted
<1>8. ASSUME spent'.hasty = 0, NEW l \in members', phase'[l] = "open", NEW x \in Conn
      PROVE  InStep(members', down'[l], client'[Owner[l]], x)
  <2>1. l \in members /\ l \in Conn /\ Owner[l] \in Client /\ phase[l] = "open"
        /\ members' = members /\ spent.hasty = 0
    BY <1>1, <1>2, <1>8, PresenceAssumption DEF WiresOK
  <2>2. InStep(members, down[l], client[Owner[l]], x)
    BY <2>1 DEF ShownInv, Shown
  <2>3. CASE l = k
    <3>1. client'[Owner[l]] = s /\ down'[l] = Tail(down[k])
      BY <1>1, <1>2, <1>6, <2>3 DEF WiresOK
    <3>2. client[c].told = "here" => client[c].wanted
      BY <1>1 DEF ShownInv, Wanted
    <3>3. s.told = "here" =>
            IF Decides(Head(down[k]), x) THEN x \in s.view <=> Shows(Head(down[k]), x)
            ELSE client[c].told = "here" /\ (x \in s.view <=> x \in client[c].view)
      BY <1>5, <3>2 DEF frame
    <3>4. InStep(members, Tail(down[k]), s, x)
      BY <1>1, <1>2, <2>2, <2>3, <3>3, OneLess
    <3> QED BY <2>1, <3>1, <3>4
  <2>4. CASE l # k
    <3>1. Owner[l] # c
      BY <1>1, <1>2, <2>1, <2>4 DEF IInv, Sole, Live
    <3>2. client'[Owner[l]] = client[Owner[l]] /\ down'[l] = down[l]
      BY <1>1, <1>2, <1>6, <2>1, <2>4, <3>1 DEF WiresOK
    <3> QED BY <2>1, <2>2, <3>2
  <2> QED BY <2>3, <2>4
<1>9. spent'.hasty = 0 => Shown'
  BY <1>8 DEF Shown
<1> QED BY <1>7, <1>9 DEF ShownInv

(* The server tells its members of everyone who comes or goes.                *)
LEMMA ServerShown ==
  ASSUME IInv, IInv', ShownInv, NEW k \in Conn, UNCHANGED <<client, phase>>,
         spent'.hasty = 0 => spent.hasty = 0,
         \/ Add(k) \/ Remove(k) \/ UNCHANGED <<members, down>>
         \/ \E event \in {"denied", "error"} : Refuse(k, event)
  PROVE  ShownInv'
<1>1. ClientsOK /\ WiresOK /\ members' \subseteq Conn
  BY DEF IInv, WiresOK
<1>2. Wanted'
  BY DEF ShownInv, Wanted
<1>3. ASSUME spent'.hasty = 0, NEW l \in members', phase'[l] = "open", NEW x \in Conn
      PROVE  InStep(members', down'[l], client[Owner[l]], x)
  <2> DEFINE s == client[Owner[l]]
  <2>1. l \in Conn /\ phase[l] = "open" /\ spent.hasty = 0 /\ down[l] \in Seq(Down)
    BY <1>1, <1>3 DEF WiresOK
  <2>2. l \in members => InStep(members, down[l], s, x)
    BY <2>1 DEF ShownInv, Shown
  <2> HIDE DEF s
  <2>3. CASE Add(k)
    <3> DEFINE added == Frame("added", {k})
               here == Frame("here", members')
               told == To(members, added)
    <3>1. added \in Down /\ here \in Down
      BY <1>1 DEF Frame, Down
    <3>2. told[l] = IF l \in members THEN Append(down[l], added) ELSE down[l]
      BY <2>1 DEF To
    <3>3. members' = members \cup {k}
      BY <2>3 DEF Add
    <3>4. CASE l = k
      <4>1. down'[l] = Append(told[l], here)
        BY <2>1, <2>3, <3>4 DEF Add, To
      <4>2. told[l] \in Seq(Down)
        <5>1. told \in [Conn -> Seq(Down)]
          BY <1>1, <3>1, ToType DEF WiresOK
        <5> HIDE DEF told
        <5> QED BY <2>1, <5>1
      <4>3. Decides(here, x) /\ (Shows(here, x) <=> x \in members')
        BY DEF Decides, Shows, Frame
      <4>4. InStep(members', Append(told[l], here), s, x)
        BY <3>1, <4>2, <4>3, OneMore
      <4> QED BY <4>1, <4>4 DEF s
    <3>5. CASE l # k
      <4>1. l \in members /\ down'[l] = Append(down[l], added)
        BY <1>3, <2>1, <2>3, <3>2, <3>3, <3>5 DEF Add, To
      <4>2. Decides(added, x) <=> x = k
        BY DEF Decides, Frame
      <4>3. x = k => (Shows(added, x) <=> x \in members')
        BY <3>3 DEF Shows, Frame
      <4>4. x # k => (x \in members' <=> x \in members)
        BY <3>3
      <4>5. InStep(members', Append(down[l], added), s, x)
        BY <2>1, <2>2, <3>1, <4>1, <4>2, <4>3, <4>4, OneMore
      <4> QED BY <4>1, <4>5 DEF s
    <3> QED BY <3>4, <3>5
  <2>4. CASE Remove(k) /\ k \in members
    <3> DEFINE removed == Frame("removed", {k})
    <3>1. removed \in Down
      BY DEF Frame, Down
    <3>2. members' = members \ {k} /\ down' = To(members', removed)
      BY <2>4 DEF Remove
    <3>3. l \in members /\ down'[l] = Append(down[l], removed)
      BY <1>3, <2>1, <3>2 DEF To
    <3>4. Decides(removed, x) <=> x = k
      BY DEF Decides, Frame
    <3>5. x = k => (Shows(removed, x) <=> x \in members')
      BY <3>2 DEF Shows, Frame
    <3>6. x # k => (x \in members' <=> x \in members)
      BY <3>2
    <3>7. InStep(members', Append(down[l], removed), s, x)
      BY <2>1, <2>2, <3>1, <3>3, <3>4, <3>5, <3>6, OneMore
    <3> QED BY <3>3, <3>7 DEF s
  <2>5. CASE UNCHANGED <<members, down>> \/ (Remove(k) /\ k \notin members)
    <3>1. members' = members /\ down' = down
      BY <2>5 DEF Remove
    <3> QED BY <1>3, <2>2, <3>1 DEF s
  <2>6. CASE \E event \in {"denied", "error"} : Refuse(k, event)
    <3>1. PICK event \in {"denied", "error"} : Refuse(k, event)
      BY <2>6
    <3> DEFINE refusal == Frame(event, {})
    <3>2. members' = members /\ refusal \in Down /\ ~Decides(refusal, x)
          /\ down' = To({k}, refusal)
      BY <3>1 DEF Refuse, Frame, Down, Decides
    <3>3. down'[l] = down[l] \/ down'[l] = Append(down[l], refusal)
      BY <2>1, <3>2 DEF To
    <3>4. InStep(members, down[l], s, x)
      BY <1>3, <2>2, <3>2
    <3> HIDE DEF refusal
    <3>5. InStep(members', Append(down[l], refusal), s, x)
      BY <2>1, <3>2, <3>4, OneMore
    <3> QED BY <3>2, <3>3, <3>4, <3>5 DEF s
  <2> QED BY <2>3, <2>4, <2>5, <2>6
<1>4. spent'.hasty = 0 => Shown'
  BY <1>3 DEF Shown
<1> QED BY <1>2, <1>4 DEF ShownInv

(* Whoever is a member and has read all its frames sees exactly the members,  *)
(* on signed and unsigned channels and whatever was dropped, left or joined   *)
(* again meanwhile, unless somebody connected hastily: then a late frame of   *)
(* another connection may be taken for this one's (Socket._onMessage).        *)
THEOREM ViewsHold == Spec => [](spent.hasty = 0 => ViewsAgree)
<1>1. Init => ShownInv
  BY DEF Init, ShownInv, Shown, Wanted
<1>2. IInv /\ IInv' /\ ShownInv /\ [Next]_vars => ShownInv'
  <2> SUFFICES ASSUME IInv, IInv', ShownInv, [Next]_vars PROVE ShownInv'
    OBVIOUS
  <2>1. spent \in EventCount
    BY DEF IInv, WiresOK
  <2>2. ASSUME NEW k \in Conn, Handle(k) PROVE ShownInv'
    BY <2>2, ServerShown DEF Handle
  <2>3. ASSUME NEW k \in Conn, Authorized(k) PROVE ShownInv'
    <3>1. spent'.hasty = 0 => spent.hasty = 0
      BY <2>1, <2>3, Spends DEF Authorized
    <3> QED BY <2>3, <3>1, ServerShown DEF Authorized
  <2>4. ASSUME NEW k \in Conn, ServerClose(k) PROVE ShownInv'
    BY <2>4, ServerShown DEF ServerClose
  <2>5. CASE UNCHANGED vars
    <3>1. Keeps
      BY <2>5 DEF vars, wires, Keeps
    <3> QED BY <3>1, KeepsShown
  <2> QED BY <2>2, <2>3, <2>4, <2>5, QuietShown, ReceiveShown DEF Next, Works
<1>3. IInv /\ ShownInv => (spent.hasty = 0 => ViewsAgree)
  <2> SUFFICES ASSUME IInv, ShownInv, spent.hasty = 0, NEW c \in Client,
                      client[c].ws \in members, phase[client[c].ws] = "open",
                      down[client[c].ws] = << >>, client[c].told = "here"
               PROVE  client[c].view = members
    BY DEF ViewsAgree
  <2>1. members \subseteq Conn /\ client[c].view \subseteq Conn
    BY DEF IInv, WiresOK, ClientsOK, SocketState
  <2>2. Owner[client[c].ws] = c
    BY <2>1, PresenceAssumption DEF IInv, ClientsOK
  <2>3. \A x \in Conn : InStep(members, << >>, client[c], x)
    BY <2>2 DEF ShownInv, Shown
  <2>4. \A x \in Conn : x \in client[c].view <=> x \in members
    BY <2>3 DEF InStep
  <2> QED BY <2>1, <2>4
<1> QED BY <1>1, <1>2, <1>3, InitIInv, NextIInv, PTL DEF Spec
=============================================================================
