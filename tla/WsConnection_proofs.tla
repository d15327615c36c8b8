------------------------ MODULE WsConnection_proofs ------------------------
(***************************************************************************)
(* Proofs about WsConnection for any number of sockets, devices and        *)
(* retries.  TypeOK is not inductive alone: an IDENTIFY can only add a     *)
(* known device if a socket that is open has a peer, which is TypeInv.     *)
(***************************************************************************)
EXTENDS WsConnection, TLAPS

TypeInv ==
  /\ TypeOK
  /\ \A s \in Sockets : sock[s] = "open" => peer[s] \in Devices
  /\ isFake <=> FakeNode

(* What the two handlers of a dying socket leave behind: with the fake node *)
(* registered only the socket itself changes.                              *)
LEMMA EndOfSocket ==
  ASSUME TypeInv, NEW s \in Sockets, SocketEnds(s)
  PROVE  /\ sock[s] # "closed"
         /\ sock' \in [Sockets -> ReadyStates] /\ sock'[s] = "closed"
         /\ \A t \in Sockets \ {s} :
              \/ sock'[t] = sock[t]
              \/ t = ws /\ sock[t] # "closed" /\ sock'[t] = "closing"
         /\ \/ timers' = timers
            \/ /\ budget[s] > 0
               /\ timers' = [timers EXCEPT ![budget[s] - 1] = @ + 1]
         /\ FakeNode => status' = status /\ lost' = lost
         /\ ~FakeNode => status' = "DISCONNECTED" /\ lost' = nodes
         /\ budget' = [budget EXCEPT ![s] = 0]
         /\ peer' = [peer EXCEPT ![s] = NoDevice]
         /\ greeting' = [greeting EXCEPT ![s] = FALSE]
         /\ UNCHANGED <<ws, nodes, ui>>
<1> DEFINE e == Ended(s)
           g == onerror(e, s)
<1>1. /\ sock[s] # "closed"
      /\ budget' = [budget EXCEPT ![s] = 0]
      /\ peer' = [peer EXCEPT ![s] = NoDevice]
      /\ greeting' = [greeting EXCEPT ![s] = FALSE]
      /\ UNCHANGED <<ws, nodes, ui>>
  BY DEF SocketEnds, Live
<1>2. PICK c \in {onclose(e), onclose(g)} :
         sock' = c.sock /\ status' = c.status /\ timers' = c.timers
         /\ lost' = c.lost
  BY DEF SocketEnds
<1>3. /\ e.sock = [sock EXCEPT ![s] = "closed"] /\ e.status = status
      /\ e.timers = timers /\ e.lost = lost
  BY DEF Ended
<1>4. CASE FakeNode
  <2>1. c = e
    BY <1>2, <1>4 DEF TypeInv, onclose, onerror
  <2>2. /\ sock' = [sock EXCEPT ![s] = "closed"] /\ status' = status
        /\ timers' = timers /\ lost' = lost
    BY <2>1, <1>2, <1>3
  <2>3. /\ sock' \in [Sockets -> ReadyStates] /\ sock'[s] = "closed"
        /\ \A t \in Sockets \ {s} : sock'[t] = sock[t]
    BY <2>2 DEF TypeInv, TypeOK, ReadyStates
  <2> QED BY <2>2, <2>3, <1>1, <1>4
<1>5. CASE ~FakeNode
  <2>1. /\ c.status = "DISCONNECTED" /\ c.lost = nodes
        /\ \/ c.sock = e.sock /\ c.timers = timers
           \/ c.sock = CloseCurrent(e.sock) /\ c.timers = g.timers
    BY <1>2, <1>3, <1>5 DEF TypeInv, onclose, onerror, Ended
  <2>2. \/ g.timers = timers
        \/ /\ budget[s] > 0
           /\ g.timers = [timers EXCEPT ![budget[s] - 1] = @ + 1]
    <3>1. \/ g.timers = timers
          \/ /\ budget[s] # 0
             /\ g.timers = [timers EXCEPT ![budget[s] - 1] = @ + 1]
      BY <1>5 DEF onerror, Ended, TypeInv, setTimeout
    <3>2. budget[s] \in Nat
      BY DEF TypeInv, TypeOK, Retries
    <3> QED BY <3>1, <3>2
  <2>3. \A f \in {e.sock, CloseCurrent(e.sock)} :
          /\ f \in [Sockets -> ReadyStates] /\ f[s] = "closed"
          /\ \A t \in Sockets \ {s} :
               \/ f[t] = sock[t]
               \/ t = ws /\ sock[t] # "closed" /\ f[t] = "closing"
    BY <1>3 DEF CloseCurrent, TypeInv, TypeOK, ReadyStates
  <2>4. /\ sock' \in [Sockets -> ReadyStates] /\ sock'[s] = "closed"
        /\ \A t \in Sockets \ {s} :
             \/ sock'[t] = sock[t]
             \/ t = ws /\ sock[t] # "closed" /\ sock'[t] = "closing"
    <3>1. sock' \in {e.sock, CloseCurrent(e.sock)}
      BY <2>1, <1>2
    <3> HIDE DEF e
    <3> QED BY <2>3, <3>1
  <2>5. /\ status' = "DISCONNECTED" /\ lost' = nodes
        /\ \/ timers' = timers
           \/ /\ budget[s] > 0
              /\ timers' = [timers EXCEPT ![budget[s] - 1] = @ + 1]
    BY <2>1, <2>2, <1>2
  <2> QED BY <2>4, <2>5, <1>1, <1>5
<1> QED BY <1>4, <1>5

(* A call of wsConnect that gets past its guard.                           *)
LEMMA NewSocket ==
  ASSUME NEW r, wsConnect(r)
  PROVE  \/ UNCHANGED <<status, ws, sock, budget, peer, greeting>>
            /\ status = "CONNECTING"
         \/ /\ status # "CONNECTING" /\ status' = "CONNECTING"
            /\ UNCHANGED <<peer, greeting>>
            /\ \E s \in Sockets :
                 /\ sock[s] = "closed" /\ ws' = s
                 /\ sock' = [sock EXCEPT ![s] = "connecting"]
                 /\ budget' = [budget EXCEPT ![s] = r]
BY Zenon DEF wsConnect, Live

LEMMA TypeInit == Init => TypeInv
BY ConstantsAssumption
   DEF Init, TypeInv, TypeOK, InitialTimers, InitialNodes, isFake,
       NetworkStatus, ReadyStates, Retries

LEMMA TypeNext == TypeInv /\ [Next]_vars => TypeInv'
<1> SUFFICES ASSUME TypeInv, [Next]_vars PROVE TypeInv'
  OBVIOUS
<1> USE ConstantsAssumption DEF TypeInv, TypeOK, isFake
<1>1. CASE Reload
  BY <1>1 DEF Reload, InitialTimers, InitialNodes, NetworkStatus,
              ReadyStates, Retries
<1>2. ASSUME NEW r \in Retries, wsConnect(r), UNCHANGED <<nodes, lost, ui>>,
             timers' \in [Retries -> Nat]
      PROVE  TypeInv'
  BY <1>2, NewSocket DEF NetworkStatus, ReadyStates
<1>3. CASE connectDriver
  <2>1. 0 \in Retries
    BY DEF Retries
  <2> QED BY <1>2, <1>3, <2>1 DEF connectDriver
<1>4. CASE uiNotification
  BY <1>4 DEF uiNotification
<1>5. ASSUME NEW r \in Retries, TimerFires(r) PROVE TypeInv'
  <2>1. timers' \in [Retries -> Nat]
    BY <1>5 DEF TimerFires
  <2> QED BY <1>2, <1>5, <2>1 DEF TimerFires
<1>6. ASSUME NEW s \in Sockets, onopen(s) PROVE TypeInv'
  BY <1>6 DEF onopen, NetworkStatus, ReadyStates
<1>7. ASSUME NEW s \in Sockets, onmessage(s) PROVE TypeInv'
  BY <1>7 DEF onmessage
<1>8. ASSUME NEW s \in Sockets, SocketEnds(s) PROVE TypeInv'
  <2>1. timers' \in [Retries -> Nat]
    <3>1. \/ timers' = timers
          \/ timers' = [timers EXCEPT ![budget[s] - 1] = @ + 1]
      BY <1>8, EndOfSocket
    <3>2. \A k \in Retries : timers[k] + 1 \in Nat
      BY DEF Retries
    <3> QED BY <3>1, <3>2
  <2>2. /\ sock' \in [Sockets -> ReadyStates]
        /\ \A t \in Sockets : sock'[t] = "open" => t # s /\ sock[t] = "open"
    BY <1>8, EndOfSocket DEF ReadyStates
  <2>3. status' \in NetworkStatus /\ lost' \subseteq nodes
    BY <1>8, EndOfSocket DEF NetworkStatus
  <2>4. /\ budget' \in [Sockets -> Retries]
        /\ peer' \in [Sockets -> Devices \cup {NoDevice}]
        /\ greeting' \in [Sockets -> BOOLEAN]
        /\ UNCHANGED <<ws, nodes, ui>>
        /\ \A t \in Sockets \ {s} : peer'[t] = peer[t]
    <3>1. 0 \in Retries
      BY DEF Retries
    <3>2. /\ budget' = [budget EXCEPT ![s] = 0]
          /\ peer' = [peer EXCEPT ![s] = NoDevice]
          /\ greeting' = [greeting EXCEPT ![s] = FALSE]
          /\ UNCHANGED <<ws, nodes, ui>>
      BY <1>8, EndOfSocket
    <3> QED BY <3>1, <3>2
  <2> QED BY <2>1, <2>2, <2>3, <2>4
<1>9. CASE UNCHANGED vars
  BY <1>9 DEF vars
<1> QED BY <1>1, <1>3, <1>4, <1>5, <1>6, <1>7, <1>8, <1>9 DEF Next

LEMMA TypeInvariant == Spec => []TypeInv
BY TypeInit, TypeNext, PTL DEF Spec

(* The variables of the component keep their types; in particular lost     *)
(* nodes are known nodes, and every due timer carries a legal budget.      *)
THEOREM TypeCorrect == Spec => []TypeOK
<1>1. TypeInv => TypeOK
  BY DEF TypeInv
<1> QED BY <1>1, TypeInvariant, PTL

-----------------------------------------------------------------------------
(* One chain of automatic attempts.                                        *)
LEMMA ChainInit == Init => SingleRetryChain
BY ConstantsAssumption
   DEF Init, SingleRetryChain, MayRetry, InitialTimers, Due, Live, Retries

LEMMA ChainNext == TypeInv /\ SingleRetryChain /\ [Next]_vars => SingleRetryChain'
<1> SUFFICES ASSUME TypeInv, SingleRetryChain, [Next]_vars
             PROVE  SingleRetryChain'
  OBVIOUS
<1> USE ConstantsAssumption DEF TypeInv, TypeOK, SingleRetryChain, MayRetry, Due, Live
<1>1. CASE Reload
  BY <1>1 DEF Reload, InitialTimers, Retries
<1>2. CASE connectDriver
  <2>1. wsConnect(0) /\ timers' = timers
    BY <1>2 DEF connectDriver
  <2>2. \A s \in Sockets : sock'[s] # "closed" /\ budget'[s] > 0
                           => sock[s] # "closed" /\ budget[s] > 0
    <3>1. CASE UNCHANGED <<sock, budget>>
      BY <3>1
    <3>2. ASSUME NEW t \in Sockets,
                 sock' = [sock EXCEPT ![t] = "connecting"],
                 budget' = [budget EXCEPT ![t] = 0]
          PROVE  \A s \in Sockets : sock'[s] # "closed" /\ budget'[s] > 0
                           => sock[s] # "closed" /\ budget[s] > 0
      BY <3>2
    <3> QED BY <2>1, <3>1, <3>2, NewSocket
  <2> QED BY <2>1, <2>2
<1>3. ASSUME NEW r \in Retries, TimerFires(r) PROVE SingleRetryChain'
  <2>1. /\ timers[r] = 1 /\ \A q \in Retries \ {r} : timers[q] = 0
        /\ timers' = [timers EXCEPT ![r] = @ - 1]
        /\ wsConnect(r)
        /\ \A s \in Sockets : sock[s] # "closed" => ~(budget[s] > 0)
    BY <1>3 DEF TimerFires
  <2>2. \A q \in Retries : timers'[q] = 0
    BY <2>1
  <2>3. \A s, t \in Sockets : /\ sock'[s] # "closed" /\ budget'[s] > 0
                              /\ sock'[t] # "closed" /\ budget'[t] > 0
                              => s = t
    BY <2>1, NewSocket
  <2> QED BY <2>2, <2>3
<1>4. ASSUME NEW s \in Sockets, onopen(s) PROVE SingleRetryChain'
  BY <1>4 DEF onopen
<1>5. ASSUME NEW s \in Sockets, SocketEnds(s) PROVE SingleRetryChain'
  <2> USE <1>5 DEF Retries
  <2>1. /\ \A t \in Sockets : sock'[t] # "closed" /\ budget'[t] > 0
                              => t # s /\ sock[t] # "closed" /\ budget[t] > 0
    <3>1. /\ budget' = [budget EXCEPT ![s] = 0]
          /\ sock'[s] = "closed"
          /\ \A t \in Sockets \ {s} : sock'[t] # "closed" => sock[t] # "closed"
      BY EndOfSocket
    <3> QED BY <3>1
  <2>2. CASE timers' = timers
    BY <2>1, <2>2
  <2>3. CASE budget[s] > 0 /\ timers' = [timers EXCEPT ![budget[s] - 1] = @ + 1]
    <3>1. sock[s] # "closed" /\ \A q \in Retries : timers[q] = 0
      BY <2>3 DEF SocketEnds
    <3>2. \A t \in Sockets : ~(sock'[t] # "closed" /\ budget'[t] > 0)
      BY <2>1, <2>3, <3>1
    <3> QED BY <2>3, <3>1, <3>2
  <2> QED BY <2>2, <2>3, EndOfSocket
<1>6. CASE uiNotification \/ UNCHANGED vars \/ \E s \in Sockets : onmessage(s)
  BY <1>6 DEF uiNotification, vars, onmessage
<1> QED BY <1>1, <1>2, <1>3, <1>4, <1>5, <1>6 DEF Next

(* Whatever the user and the network do, automatic reconnection never has  *)
(* more than one attempt due or in flight.                                 *)
THEOREM RetryChainIsSingle == Spec => []SingleRetryChain
BY ChainInit, ChainNext, TypeInvariant, PTL DEF Spec

-----------------------------------------------------------------------------
(* The page the firmware serves (no fake node).  Both conjuncts speak of   *)
(* sockets that are connecting or open; a socket only leaves those states  *)
(* in SocketEnds, whose last assignment is status = DISCONNECTED.          *)
DisplayInv == ConnectingIsTrying /\ ConnectedHasDevice

LEMMA DisplayNext ==
  ASSUME ~FakeNode, TypeInv, DisplayInv, [Next]_vars
  PROVE  DisplayInv'
<1> USE ConstantsAssumption
    DEF TypeInv, TypeOK, DisplayInv, ConnectingIsTrying, ConnectedHasDevice
<1>1. CASE Reload
  BY <1>1 DEF Reload
<1>2. ASSUME NEW r, wsConnect(r), UNCHANGED <<nodes, lost, ui>>
      PROVE  DisplayInv'
  BY <1>2, NewSocket
<1>3. CASE connectDriver
  BY <1>2, <1>3 DEF connectDriver
<1>4. ASSUME NEW r \in Retries, TimerFires(r) PROVE DisplayInv'
  BY <1>2, <1>4 DEF TimerFires
<1>5. ASSUME NEW s \in Sockets, onopen(s) PROVE DisplayInv'
  BY <1>5 DEF onopen
<1>6. ASSUME NEW s \in Sockets, onmessage(s) PROVE DisplayInv'
  <2>1. UNCHANGED <<status, ws, sock, peer>>
    BY <1>6 DEF onmessage
  <2>2. ASSUME NEW t \in Sockets, greeting[t] \/ peer[t] \in nodes \ lost
        PROVE  greeting'[t] \/ peer'[t] \in nodes' \ lost'
    BY <1>6, <2>2 DEF onmessage
  <2> QED BY <2>1, <2>2
<1>7. ASSUME NEW s \in Sockets, SocketEnds(s) PROVE DisplayInv'
  <2>1. status' = "DISCONNECTED"
    BY <1>7, EndOfSocket
  <2> QED BY <2>1
<1>8. CASE uiNotification \/ UNCHANGED vars
  BY <1>8 DEF uiNotification, vars
<1> QED BY <1>1, <1>3, <1>4, <1>5, <1>6, <1>7, <1>8 DEF Next

LEMMA DisplayInvariant == ASSUME ~FakeNode PROVE Spec => []DisplayInv
<1>1. Init => DisplayInv
  BY DEF Init, DisplayInv, ConnectingIsTrying, ConnectedHasDevice
<1>2. TypeInv /\ DisplayInv /\ [Next]_vars => DisplayInv'
  BY DisplayNext
<1> QED BY <1>1, <1>2, TypeInvariant, PTL DEF Spec

(* The status CONNECTING is never final on the firmware's page: it always  *)
(* stands for the opening handshake of this.ws.                            *)
THEOREM ConnectingIsNeverIdle == ASSUME ~FakeNode PROVE Spec => []ConnectingIsTrying
<1>1. DisplayInv => ConnectingIsTrying
  BY DEF DisplayInv
<1> QED BY <1>1, DisplayInvariant, PTL

(* The status CONNECTED always stands for an open socket whose device is   *)
(* shown or about to be shown, however sockets overlap.                    *)
THEOREM ConnectedIsBacked == ASSUME ~FakeNode PROVE Spec => []ConnectedHasDevice
<1>1. DisplayInv => ConnectedHasDevice
  BY DEF DisplayInv
<1> QED BY <1>1, DisplayInvariant, PTL

-----------------------------------------------------------------------------
(* A patient user.  A due retry means that nothing is live, which keeps    *)
(* the timer and the button from opening two sockets.                      *)
OneSocket ==
  /\ \A s \in Sockets : s # ws => sock[s] = "closed"
  /\ \/ ws = NoSocket /\ status = "DISCONNECTED"
     \/ ws \in Sockets /\ sock[ws] = "closed" /\ status = "DISCONNECTED"
     \/ ws \in Sockets /\ sock[ws] = "connecting" /\ status = "CONNECTING"
     \/ ws \in Sockets /\ sock[ws] = "open" /\ status = "CONNECTED"
  /\ Due => status = "DISCONNECTED"
  /\ status # "CONNECTED" => nodes \subseteq lost

LEMMA OneSocketInit == ASSUME ~FakeNode PROVE Init => OneSocket
BY DEF Init, OneSocket, InitialNodes

LEMMA OneSocketNext ==
  ASSUME ~FakeNode, Patient, TypeInv, SingleRetryChain, OneSocket, [Next]_vars
  PROVE  OneSocket'
<1> USE ConstantsAssumption DEF TypeInv, TypeOK, OneSocket, Due
<1>1. CASE Reload
  BY <1>1 DEF Reload, InitialNodes
<1>2. ASSUME NEW r, wsConnect(r), UNCHANGED <<nodes, lost>>,
             status = "DISCONNECTED", ~Due'
      PROVE  OneSocket'
  BY <1>2, NewSocket
<1>3. CASE connectDriver
  BY <1>2, <1>3 DEF connectDriver
<1>4. ASSUME NEW r \in Retries, TimerFires(r) PROVE OneSocket'
  <2>1. status = "DISCONNECTED"
    BY <1>4 DEF TimerFires
  <2>2. \A q \in Retries : timers'[q] = 0
    BY <1>4 DEF TimerFires, SingleRetryChain
  <2> QED BY <1>2, <1>4, <2>1, <2>2 DEF TimerFires
<1>5. ASSUME NEW s \in Sockets, onopen(s) PROVE OneSocket'
  BY <1>5 DEF onopen
<1>6. ASSUME NEW s \in Sockets, onmessage(s) PROVE OneSocket'
  BY <1>6 DEF onmessage
<1>7. ASSUME NEW s \in Sockets, SocketEnds(s) PROVE OneSocket'
  <2>1. /\ sock[s] # "closed" /\ sock'[s] = "closed"
        /\ \A t \in Sockets \ {s} : sock[t] = "closed" => sock'[t] = "closed"
        /\ status' = "DISCONNECTED" /\ lost' = nodes
        /\ UNCHANGED <<ws, nodes>>
    BY <1>7, EndOfSocket
  <2>2. s = ws
    BY <2>1
  <2> QED BY <2>1, <2>2
<1>8. CASE uiNotification \/ UNCHANGED vars
  BY <1>8 DEF uiNotification, vars
<1> QED BY <1>1, <1>3, <1>4, <1>5, <1>6, <1>7, <1>8 DEF Next

LEMMA OneSocketInvariant == ASSUME ~FakeNode, Patient PROVE Spec => []OneSocket
<1>1. Init => OneSocket
  BY OneSocketInit
<1>2. TypeInv /\ SingleRetryChain /\ OneSocket /\ [Next]_vars => OneSocket'
  BY OneSocketNext
<1> QED BY <1>1, <1>2, TypeInvariant, RetryChainIsSingle, PTL DEF Spec

(* If the user waits for the page, status is the state of the one socket.  *)
THEOREM PatientStatusIsExact == ASSUME ~FakeNode PROVE Spec => []StatusIsExact
<1>1. CASE Patient
  <2>1. TypeInv /\ OneSocket => StatusIsExact
    BY ConstantsAssumption DEF OneSocket, StatusIsExact, Live, TypeInv, TypeOK
  <2> QED BY <1>1, <2>1, TypeInvariant, OneSocketInvariant, PTL
<1>2. CASE ~Patient
  <2>1. StatusIsExact
    BY <1>2 DEF StatusIsExact
  <2> QED BY <2>1, PTL
<1> QED BY <1>1, <1>2

(* The initial states and the steps of the component, as steps of Link.    *)
LEMMA LinkInit == ASSUME ~FakeNode PROVE Init => AbstractLink!Init
BY DEF Init, InitialNodes, AbstractLink!Init

LEMMA LinkNext ==
  ASSUME TypeInv, OneSocket, ~FakeNode, Patient, [Next]_vars
  PROVE  [AbstractLink!Next]_(AbstractLink!vars)
<1> USE ConstantsAssumption
    DEF AbstractLink!Next, AbstractLink!vars, TypeInv, TypeOK, OneSocket
<1>1. CASE Reload
  BY <1>1 DEF Reload, InitialNodes, AbstractLink!Drop, NetworkStatus
<1>2. ASSUME NEW r, wsConnect(r), UNCHANGED <<nodes, lost>>,
             status = "DISCONNECTED"
      PROVE  AbstractLink!Dial
  BY <1>2, NewSocket DEF AbstractLink!Dial
<1>3. CASE connectDriver
  BY <1>2, <1>3 DEF connectDriver
<1>4. ASSUME NEW r \in Retries, TimerFires(r) PROVE AbstractLink!Dial
  BY <1>2, <1>4 DEF TimerFires, Due
<1>5. ASSUME NEW s \in Sockets, onopen(s) PROVE AbstractLink!Establish
  BY <1>5 DEF onopen, AbstractLink!Establish
<1>6. ASSUME NEW s \in Sockets, onmessage(s)
      PROVE  \E n \in Devices : AbstractLink!Identify(n)
  <2>1. status = "CONNECTED" /\ peer[s] \in Devices
    BY <1>6 DEF onmessage
  <2>2. nodes' \ lost' = (nodes \ lost) \cup {peer[s]} /\ UNCHANGED status
    BY <1>6 DEF onmessage
  <2> QED BY <2>1, <2>2 DEF AbstractLink!Identify
<1>7. ASSUME NEW s \in Sockets, SocketEnds(s) PROVE AbstractLink!Drop
  <2>1. sock[s] # "closed" /\ status' = "DISCONNECTED" /\ nodes' \ lost' = {}
    BY <1>7, EndOfSocket
  <2>2. status # "DISCONNECTED"
    BY <2>1
  <2> QED BY <2>1, <2>2 DEF AbstractLink!Drop
<1>8. CASE uiNotification \/ UNCHANGED vars
  BY <1>8 DEF uiNotification, vars
<1> QED BY <1>1, <1>3, <1>4, <1>5, <1>6, <1>7, <1>8 DEF Next

(* For a patient user the component implements the abstract link: it goes  *)
(* up only after an attempt, and drivers are shown as connected only while *)
(* it is up.                                                               *)
THEOREM PatientImplementsLink == ASSUME ~FakeNode, Patient PROVE Spec => ImplementsLink
<1>1. Init => AbstractLink!Init
  BY LinkInit
<1>2. TypeInv /\ OneSocket /\ [Next]_vars => [AbstractLink!Next]_(AbstractLink!vars)
  BY LinkNext
<1> QED BY <1>1, <1>2, TypeInvariant, OneSocketInvariant, PTL
        DEF Spec, ImplementsLink, AbstractLink!Spec
=============================================================================
