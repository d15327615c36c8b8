---------------------------- MODULE WsConnection ----------------------------
(***************************************************************************)
(* The WsConnection class of the web client (connection.js), the one part  *)
(* of the page that owns WebSockets.  wsConnect opens a socket and stores  *)
(* it in this.ws, over whatever was there; the handlers of every socket    *)
(* ever opened write the same deviceInfo.status and the same nodes.  The   *)
(* environment is the browser (socket events, timers), the device that     *)
(* greets each new connection with IDENTIFY, and the user.                 *)
(*                                                                         *)
(* A browser delivers the end of a socket as ONE task: readyState becomes  *)
(* CLOSED, then `error' if the connection failed, then `close'.  Nothing   *)
(* runs between the two handlers.                                          *)
(***************************************************************************)
EXTENDS Naturals

CONSTANTS
  Sockets,     \* WebSocket objects; the name of one that ended is reused
  NoSocket,    \* this.ws before the first wsConnect
  Devices,     \* identifiers LedX drivers announce in IDENTIFY
  NoDevice,
  FakeId,      \* 'Ledx-1001', the identifier createFakeNode registers
  MaxRetries,  \* default value of wsConnect's parameter
  FakeNode,    \* init() is the one of connection.js (TRUE) or of the
               \* firmware's connection_js.h (FALSE)
  Patient      \* the user clicks Reconectar only on an up-to-date page and
               \* never while an automatic retry is due

ASSUME ConstantsAssumption ==
  /\ NoSocket \notin Sockets
  /\ NoDevice \notin Devices
  /\ FakeId \notin Devices
  /\ MaxRetries \in Nat
  /\ FakeNode \in BOOLEAN /\ Patient \in BOOLEAN

VARIABLES
  status,   \* deviceInfo.status
  ws,       \* this.ws
  sock,     \* readyState of each socket
  budget,   \* the `retries' captured by each socket's handlers
  timers,   \* timers[r]: how many setTimeouts will call wsConnect(r)
  nodes,    \* keys of this.nodes
  lost,     \* the nodes with isLost = true
  peer,     \* the device a socket reached
  greeting, \* the peer's IDENTIFY is still on its way
  ui        \* the connection status last drawn by uiNotification

vars == <<status, ws, sock, budget, timers, nodes, lost, peer, greeting, ui>>

NetworkStatus == {"CONNECTED", "CONNECTING", "DISCONNECTED"}
ReadyStates == {"connecting", "open", "closing", "closed"}
Retries == 0..MaxRetries

TypeOK ==
  /\ status \in NetworkStatus
  /\ ws \in Sockets \cup {NoSocket}
  /\ sock \in [Sockets -> ReadyStates]
  /\ budget \in [Sockets -> Retries]
  /\ timers \in [Retries -> Nat]
  /\ nodes \subseteq Devices \cup {FakeId}
  /\ lost \subseteq nodes
  /\ peer \in [Sockets -> Devices \cup {NoDevice}]
  /\ greeting \in [Sockets -> BOOLEAN]
  /\ ui \in NetworkStatus \cup {"blank"}

isFake == FakeId \in nodes
Live(s) == sock[s] # "closed"
Due == \E r \in Retries : timers[r] > 0

-----------------------------------------------------------------------------
(* The page is loaded: init() either registers the fake node and dials     *)
(* nothing, or arms one timer that calls wsConnect().                      *)
InitialNodes == IF FakeNode THEN {FakeId} ELSE {}
InitialTimers ==
  [r \in Retries |-> IF ~FakeNode /\ r = MaxRetries THEN 1 ELSE 0]

Init ==
  /\ status = "DISCONNECTED"
  /\ ws = NoSocket
  /\ sock = [s \in Sockets |-> "closed"]
  /\ budget = [s \in Sockets |-> 0]
  /\ timers = InitialTimers
  /\ nodes = InitialNodes
  /\ lost = {}
  /\ peer = [s \in Sockets |-> NoDevice]
  /\ greeting = [s \in Sockets |-> FALSE]
  /\ ui = "blank"

Reload ==
  /\ status' = "DISCONNECTED"
  /\ ws' = NoSocket
  /\ sock' = [s \in Sockets |-> "closed"]
  /\ budget' = [s \in Sockets |-> 0]
  /\ timers' = InitialTimers
  /\ nodes' = InitialNodes
  /\ lost' = {}
  /\ peer' = [s \in Sockets |-> NoDevice]
  /\ greeting' = [s \in Sockets |-> FALSE]
  /\ ui' = "blank"

-----------------------------------------------------------------------------
(* wsConnect(retries).  The page is not served over https, so the          *)
(* constructor of WebSocket does not throw.                                *)
wsConnect_budgetCountsUp(r) ==
  /\ status # "CONNECTING" /\ status' = "CONNECTING"
  /\ \E s \in Sockets : /\ ~Live(s)
                        /\ ws' = s
                        /\ sock' = [sock EXCEPT ![s] = "connecting"]
                        /\ budget' = [budget EXCEPT ![s] = r + 1]
  /\ UNCHANGED <<peer, greeting>>

wsConnect(r) ==
  \/ /\ status = "CONNECTING"
     /\ UNCHANGED <<status, ws, sock, budget, peer, greeting>>
  \/ /\ status # "CONNECTING"
     /\ status' = "CONNECTING"
     /\ \E s \in Sockets :
          /\ ~Live(s)
          /\ ws' = s
          /\ sock' = [sock EXCEPT ![s] = "connecting"]
          /\ budget' = [budget EXCEPT ![s] = r]
     /\ UNCHANGED <<peer, greeting>>

TimerFires_interval(r) ==
  /\ timers[r] > 0
  /\ wsConnect(r)
  /\ UNCHANGED <<timers, nodes, lost, ui>>

TimerFires(r) ==
  /\ timers[r] > 0
  /\ timers' = [timers EXCEPT ![r] = @ - 1]
  /\ wsConnect(r)
  /\ UNCHANGED <<nodes, lost, ui>>

(* BOUND: the user leaves one socket of the finite set to a due timer.     *)
SocketToSpare == \E s, t \in Sockets : s # t /\ ~Live(s) /\ ~Live(t)

(* The button exists only where uiNotification drew it; what it drew stays *)
(* on the page until the next refresh, whatever the status is by then.     *)
connectDriver_defaultRetries ==
  /\ ui = "DISCONNECTED"
  /\ Patient => ~Due /\ status = ui
  /\ SocketToSpare
  /\ wsConnect(MaxRetries)
  /\ UNCHANGED <<timers, nodes, lost, ui>>

connectDriver ==
  /\ ui = "DISCONNECTED"
  /\ Patient => ~Due /\ status = ui
  /\ SocketToSpare
  /\ wsConnect(0)
  /\ UNCHANGED <<timers, nodes, lost, ui>>

-----------------------------------------------------------------------------
onopen(s) ==
  /\ sock[s] = "connecting"
  /\ sock' = [sock EXCEPT ![s] = "open"]
  /\ status' = "CONNECTED"
  /\ \E d \in Devices : peer' = [peer EXCEPT ![s] = d]
  /\ greeting' = [greeting EXCEPT ![s] = TRUE]
  /\ UNCHANGED <<ws, budget, timers, nodes, lost, ui>>

(* handleRcvdMsg of the IDENTIFY a device sends on every new connection.   *)
onmessage_neverRecovers(s) ==
  /\ sock[s] = "open" /\ greeting[s]
  /\ greeting' = [greeting EXCEPT ![s] = FALSE]
  /\ nodes' = nodes \cup {peer[s]}
  /\ UNCHANGED <<status, ws, sock, budget, timers, lost, peer, ui>>

onmessage(s) ==
  /\ sock[s] = "open" /\ greeting[s]
  /\ greeting' = [greeting EXCEPT ![s] = FALSE]
  /\ nodes' = nodes \cup {peer[s]}
  /\ lost' = lost \ {peer[s]}
  /\ UNCHANGED <<status, ws, sock, budget, timers, peer, ui>>

(* Nobody refers to what a socket that has ended captured: it is forgotten. *)
(* The handlers of a dying socket work on a copy c of what they write.     *)
(* onerror closes this.ws, which need not be the socket that failed: one   *)
(* that is connecting or open is then closing and will end in a task of    *)
(* its own.                                                                *)
CloseCurrent(readyStates) ==
  IF ws \in Sockets /\ readyStates[ws] \in {"connecting", "open"}
    THEN [readyStates EXCEPT ![ws] = "closing"] ELSE readyStates

setTimeout(due, r) == [due EXCEPT ![r] = @ + 1]

onerror(c, s) ==
  IF isFake THEN c
  ELSE IF budget[s] = 0
  THEN [c EXCEPT !.sock = CloseCurrent(@), !.status = "DISCONNECTED"]
  ELSE [c EXCEPT !.sock = CloseCurrent(@), !.status = "CONNECTING",
                 !.timers = setTimeout(@, budget[s] - 1)]

onclose_keepsStatus(c) == IF isFake THEN c ELSE [c EXCEPT !.lost = nodes]
onclose_keepsNodes(c) ==
  IF isFake THEN c ELSE [c EXCEPT !.status = "DISCONNECTED"]

onclose(c) ==
  IF isFake THEN c ELSE [c EXCEPT !.status = "DISCONNECTED", !.lost = nodes]

Ended(s) == [sock |-> [sock EXCEPT ![s] = "closed"], status |-> status,
             timers |-> timers, lost |-> lost]

SocketEnds(s) ==
  /\ Live(s)
  /\ \E c \in {onclose(Ended(s)), onclose(onerror(Ended(s), s))} :
       /\ sock' = c.sock
       /\ status' = c.status
       /\ timers' = c.timers
       /\ lost' = c.lost
  /\ budget' = [budget EXCEPT ![s] = 0]
  /\ peer' = [peer EXCEPT ![s] = NoDevice]
  /\ greeting' = [greeting EXCEPT ![s] = FALSE]
  /\ UNCHANGED <<ws, nodes, ui>>

(* CanvasDrawer.paint calls uiNotification once per node, so a page that   *)
(* knows no node draws no status at all.                                   *)
uiNotification ==
  /\ nodes # {}
  /\ ui' = status
  /\ UNCHANGED <<status, ws, sock, budget, timers, nodes, lost, peer, greeting>>

-----------------------------------------------------------------------------
Next ==
  \/ Reload
  \/ connectDriver
  \/ uiNotification
  \/ \E r \in Retries : TimerFires(r)
  \/ \E s \in Sockets : onopen(s) \/ onmessage(s) \/ SocketEnds(s)

Spec == Init /\ [][Next]_vars

(* Timers fire, a handshake or a closing handshake comes to an end (the    *)
(* browser times it out), an IDENTIFY on a socket that stays open arrives, *)
(* the page is repainted (the worker of global.js posts every 5 ms).       *)
(* Nothing makes the user click, or a connection fail.                     *)
Fairness ==
  /\ \A r \in Retries : WF_vars(TimerFires(r))
  /\ \A s \in Sockets :
       /\ WF_vars(sock[s] = "connecting" /\ (onopen(s) \/ SocketEnds(s)))
       /\ WF_vars(sock[s] = "closing" /\ SocketEnds(s))
       /\ WF_vars(onmessage(s))
  /\ WF_vars(uiNotification)

FairSpec == Spec /\ Fairness

-----------------------------------------------------------------------------
(* "Conectando" is never shown for nothing: whenever the status is         *)
(* CONNECTING, the socket in this.ws is in its opening handshake, so an    *)
(* event that ends the attempt will come.  (wsConnect refuses to do        *)
(* anything in this state, so it would otherwise be final.)                *)
ConnectingIsTrying ==
  status = "CONNECTING" => ws \in Sockets /\ sock[ws] = "connecting"

(* "Conectado" means a device can be reached: some socket is open, and its *)
(* device is shown as connected or is about to announce itself.  Sockets   *)
(* other than this.ws may be the reason.                                   *)
ConnectedHasDevice ==
  status = "CONNECTED" =>
    \E s \in Sockets : /\ sock[s] = "open"
                       /\ greeting[s] \/ peer[s] \in nodes \ lost

(* Reconnection does not snowball: there is one chain of automatic         *)
(* attempts at a time, whose next link is either one due timer or one      *)
(* socket that may still arm a timer.                                      *)
MayRetry(s) == Live(s) /\ budget[s] > 0

SingleRetryChain ==
  /\ \A r \in Retries : timers[r] \leq 1
  /\ \A r, q \in Retries : timers[r] > 0 /\ timers[q] > 0 => r = q
  /\ \A s \in Sockets : MayRetry(s) => ~Due
  /\ \A s, t \in Sockets : MayRetry(s) /\ MayRetry(t) => s = t

(* With a patient user the page has one socket at a time and the status is *)
(* exactly its state.                                                      *)
StatusIsExact ==
  Patient =>
    /\ \A s \in Sockets \ {ws} : ~Live(s)
    /\ status = IF ws = NoSocket THEN "DISCONNECTED"
                ELSE CASE sock[ws] = "connecting" -> "CONNECTING"
                       [] sock[ws] = "open" -> "CONNECTED"
                       [] OTHER -> "DISCONNECTED"

(* Every attempt comes to an end, and so does every retry that is due.     *)
AttemptsEnd == /\ status = "CONNECTING" ~> status # "CONNECTING"
               /\ Due ~> ~Due

(* While the link stays up, a driver that the last failure greyed out      *)
(* comes back without any action of the user.                              *)
DriversComeBack ==
  status = "CONNECTED" ~> (nodes \ lost # {} \/ status # "CONNECTED")

(* The component implements the abstract link, with the drivers that are   *)
(* not lost as its live set.                                               *)
AbstractLink == INSTANCE Link
  WITH Nodes <- Devices, phase <- status, live <- nodes \ lost
ImplementsLink == AbstractLink!Spec
=============================================================================
