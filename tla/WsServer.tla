------------------------------ MODULE WsServer ------------------------------
(***************************************************************************)
(* The device as a server: loop() of LedX3.ino on top of the WebSockets    *)
(* library it is built with.  One thread takes new connections, visits the *)
(* client slots in turn, reads at most one line of a handshake or one      *)
(* message from each, and then shows the LEDs.  Around it the network      *)
(* delivers bytes, pages come, send, go, and fall silent, and the device   *)
(* is restarted.                                                           *)
(*                                                                         *)
(* Bytes are abstracted to parts: a handshake is a few lines, a message    *)
(* has the head, the extended length, the mask and the payload that the    *)
(* library reads one at a time.  Browsers neither ping nor fragment, and   *)
(* send a handshake in one segment.  What can no longer arrive or be read  *)
(* is dropped at once, and a connection that has ended on both sides is    *)
(* forgotten and its name is used again.                                   *)
(***************************************************************************)
EXTENDS EepromFormat

CONSTANTS
  Conns,       \* names of TCP connections
  None,
  CLIENT_MAX,  \* WEBSOCKETS_SERVER_CLIENT_MAX
  Messages,    \* what a page may send: [op, size, body]
  Frames,      \* contents of leds[][]
  Dark,        \* that of a device just started
  MaxPending   \* BOUND: messages of a connection that are under way

Slots == 0..CLIENT_MAX - 1
Ops == {"text", "bin", "pong", "close"}
Sizes == {"none", "short", "long", "huge"} \* of a payload: 0, below 126,
                                          \* below 15K, more
Message == [op : Ops, size : Sizes, body : Frames \cup {None} \cup Text]
Lines == {"get", "upgrade", "blank"}
PartNames == {"head", "ext", "mask", "data"}

ASSUME ServerAssumption ==
  /\ None \notin Conns \cup Text /\ CLIENT_MAX \in Nat \ {0}
  /\ Messages \subseteq Message
  /\ \A m \in Messages : /\ m.op = "text" => m.body \in Text /\ m.size # "none"
                         /\ m.op = "bin" => m.body \in Frames /\ m.size # "none"
  /\ Dark \in Frames /\ MaxPending \in Nat \ {0}

VARIABLES
  conn,      \* the connections as the network has them
  backlog,   \* those the device has not taken yet, in order
  slot,      \* the client slots
  pc, at,    \* where loop() is, and the slot it visits
  need, msg, \* the part readCb waits for, the message read so far
  leds, newWsData, strip,
  eeprom,
  saved      \* history: the text that was stored last

readers == <<need, msg>>
lights == <<leds, newWsData, strip>>
store == <<eeprom, saved>>
vars == <<conn, backlog, slot, pc, at, readers, lights, store>>

Unborn == [peer |-> "none", kind |-> "ws", wire |-> <<>>, inbox |-> <<>>]
Cleared == [tcp |-> None, status |-> "NOT_CONNECTED", url |-> FALSE,
            upgrade |-> FALSE, rx |-> 0]

Line(l) == [of |-> None, name |-> l]
Part(m, n) == [of |-> m, name |-> n]
Handshake(kind) == IF kind = "ws"
  THEN <<Line("get"), Line("upgrade"), Line("blank")>>
  ELSE <<Line("get"), Line("blank")>>

(* What follows a part of a message: the next part, the end, or the end of *)
(* the library's patience with a payload above WEBSOCKETS_MAX_DATA_SIZE.   *)
After(m, n) ==
  CASE n = "head" -> IF m.size \in {"long", "huge"} THEN "ext" ELSE "mask"
    [] n = "ext" -> IF m.size = "huge" THEN "refused" ELSE "mask"
    [] n = "mask" -> IF m.size = "none" THEN "done" ELSE "data"
    [] OTHER -> "done"
Shape(size) == CASE size = "none" -> <<"head", "mask">>
                 [] size = "short" -> <<"head", "mask", "data">>
                 [] OTHER -> <<"head", "ext", "mask", "data">>
Frame(m) == [i \in DOMAIN Shape(m.size) |-> Part(m, Shape(m.size)[i])]

Stream(c) == conn[c].inbox \o conn[c].wire
Gone(c) == conn[c].peer = "gone"
Lost(s) == slot[s].tcp # None /\ Gone(slot[s].tcp)
Alive(s) == /\ slot[s].tcp # None /\ ~Gone(slot[s].tcp)
            /\ slot[s].status # "NOT_CONNECTED"
Talks(c) == \E s \in Slots : slot[s].tcp = c /\ slot[s].status = "CONNECTED"

(* The message that is being read has left the stream and is not applied.  *)
Reading(c) == /\ slot[at].tcp = c
              /\ \/ pc = "event"
                 \/ pc = "read" /\ need # "head" /\ ~Gone(c)
Heads(q) ==
  LET upTo[n \in 0..Len(q)] ==
        IF n = 0 THEN <<>>
        ELSE IF q[n].name = "head" THEN Append(upTo[n - 1], q[n].of)
        ELSE upTo[n - 1]
  IN  upTo[Len(q)]
Pending(c) == (IF Reading(c) THEN <<msg>> ELSE <<>>) \o Heads(Stream(c))

Init ==
  /\ conn = [c \in Conns |-> Unborn]
  /\ backlog = <<>>
  /\ slot = [s \in Slots |-> Cleared]
  /\ pc = "accept" /\ at = 0
  /\ need = "head" /\ msg = None
  /\ leds = Dark /\ newWsData = FALSE /\ strip = Dark
  /\ \E b \in {0, ByteSize - 1} : eeprom = [a \in Address |-> b]
  /\ saved = None

-----------------------------------------------------------------------------
(* The pages and the network.  http is a browser that is pointed at the    *)
(* port of the WebSocket server.                                           *)
Open(c, kind) ==
  /\ conn[c] = Unborn
  /\ conn' = [conn EXCEPT ![c] = [Unborn EXCEPT !.peer = "here", !.kind = kind,
                                                !.wire = Handshake(kind)]]
  /\ backlog' = Append(backlog, c)
  /\ UNCHANGED <<slot, pc, at, readers, lights, store>>

(* Nothing follows the close frame of a page.  BOUND: the page is slower   *)
(* than the network; the device sees the same arrivals without it.         *)
Send(c, m) ==
  /\ conn[c].peer = "here" /\ conn[c].kind = "ws" /\ conn[c].wire = <<>>
  /\ Talks(c)
  /\ Len(Pending(c)) < MaxPending
  /\ conn' = [conn EXCEPT
       ![c].wire = Frame(m),
       ![c].kind = IF m.op = "close" THEN "closing" ELSE @]
  /\ UNCHANGED <<backlog, slot, pc, at, readers, lights, store>>

Segment(w) == IF Head(w).of = None THEN Len(w) ELSE 1
Deliver(c) ==
  /\ conn[c].wire # <<>>
  /\ LET w == conn[c].wire IN
       conn' = [conn EXCEPT ![c].inbox = @ \o SubSeq(w, 1, Segment(w)),
                            ![c].wire = SubSeq(w, Segment(w) + 1, Len(w))]
  /\ UNCHANGED <<backlog, slot, pc, at, readers, lights, store>>

(* The page is closed or the connection reset, and connected() says so ... *)
Leave(c) ==
  /\ conn[c].peer \in {"here", "silent"}
  /\ conn' = [conn EXCEPT ![c].peer = "gone", ![c].wire = <<>>, ![c].inbox = <<>>]
  /\ UNCHANGED <<backlog, slot, pc, at, readers, lights, store>>

(* ... or the page is out of reach and nobody says anything. *)
Vanish(c) ==
  /\ conn[c].peer = "here"
  /\ conn' = [conn EXCEPT ![c].peer = "silent", ![c].wire = <<>>]
  /\ UNCHANGED <<backlog, slot, pc, at, readers, lights, store>>

-----------------------------------------------------------------------------
clientDisconnect_keepsFlags(s) ==
  /\ slot' = [slot EXCEPT ![s].tcp = None, ![s].status = "NOT_CONNECTED",
                          ![s].rx = 0]
  /\ conn' = [conn EXCEPT ![slot[s].tcp] = Unborn]

clientDisconnect(s) ==
  /\ slot' = [slot EXCEPT ![s] = Cleared]
  /\ conn' = [conn EXCEPT ![slot[s].tcp] = Unborn]

NextSlot_past ==
  /\ IF at < CLIENT_MAX THEN at' = at + 1 /\ pc' = "visit"
                        ELSE at' = 0 /\ pc' = "show"
  /\ need' = "head" /\ msg' = None

NextSlot == /\ IF at + 1 \in Slots THEN at' = at + 1 /\ pc' = "visit"
                                   ELSE at' = 0 /\ pc' = "show"
            /\ need' = "head" /\ msg' = None

(* newClient takes the first slot that clientIsConnected does not confirm; *)
(* the check tears down what the slot still has.                           *)
Taken(s) == ~Alive(s) /\ \A r \in 0..s - 1 : Alive(r)

newClient_keepsLost(s) ==
  /\ pc = "accept" /\ backlog # <<>> /\ Taken(s)
  /\ slot' = [slot EXCEPT ![s].tcp = Head(backlog), ![s].status = "HEADER"]
  /\ backlog' = Tail(backlog)
  /\ UNCHANGED <<conn, pc, at, readers, lights, store>>

newClient(s) ==
  /\ pc = "accept" /\ backlog # <<>> /\ Taken(s)
  /\ conn' = IF slot[s].tcp = None THEN conn
             ELSE [conn EXCEPT ![slot[s].tcp] = Unborn]
  /\ LET free == IF slot[s].tcp = None THEN slot[s] ELSE Cleared
     IN slot' = [slot EXCEPT ![s] =
          [free EXCEPT !.tcp = Head(backlog), !.status = "HEADER"]]
  /\ backlog' = Tail(backlog)
  /\ UNCHANGED <<pc, at, readers, lights, store>>

(* Without a free slot handleNewClient calls dropNativeClient(nullptr).    *)
noFreeSpace_leaks ==
  /\ pc = "accept" /\ backlog # <<>>
  /\ \A s \in Slots : Alive(s)
  /\ backlog' = Tail(backlog)
  /\ UNCHANGED <<conn, slot, pc, at, readers, lights, store>>

noFreeSpace ==
  /\ pc = "accept" /\ backlog # <<>>
  /\ \A s \in Slots : Alive(s)
  /\ pc' = "panic"
  /\ backlog' = Tail(backlog)
  /\ UNCHANGED <<conn, slot, at, readers, lights, store>>

noClient ==
  /\ pc = "accept" /\ backlog = <<>>
  /\ pc' = "visit" /\ at' = 0
  /\ UNCHANGED <<conn, backlog, slot, readers, lights, store>>

-----------------------------------------------------------------------------
(* handleClientData, for one slot. *)
cleanUp ==
  /\ pc = "visit" /\ ~Alive(at) /\ slot[at].tcp # None
  /\ clientDisconnect(at)
  /\ NextSlot
  /\ UNCHANGED <<backlog, lights, store>>

(* There is no client, nothing to read, or a message was begun before:     *)
(* handleWebsocket starts only with an empty header.                       *)
pass ==
  /\ pc = "visit"
  /\ Alive(at) => \/ conn[slot[at].tcp].inbox = <<>>
                  \/ slot[at].status = "CONNECTED" /\ slot[at].rx # 0
  /\ slot[at].tcp # None => Alive(at)
  /\ NextSlot
  /\ UNCHANGED <<conn, backlog, slot, lights, store>>

Received == conn[slot[at].tcp].inbox
ReadOne == [conn EXCEPT ![slot[at].tcp].inbox = Tail(@)]
Visited(status) == /\ pc = "visit" /\ Alive(at) /\ slot[at].status = status
                   /\ Received # <<>>

(* A line that is not empty.  What a page sends as data is taken for one   *)
(* as well: it has no GET and no colon the library knows.                  *)
headerLine ==
  /\ Visited("HEADER") /\ Head(Received).name # "blank"
  /\ conn' = ReadOne
  /\ slot' = [slot EXCEPT
       ![at].url = @ \/ Head(Received).name = "get",
       ![at].upgrade = @ \/ Head(Received).name = "upgrade"]
  /\ NextSlot
  /\ UNCHANGED <<backlog, lights, store>>

(* The empty line of a request for an upgrade: headerDone, then the event  *)
(* WStype_CONNECTED.                                                       *)
headerDone ==
  /\ Visited("HEADER") /\ Head(Received).name = "blank"
  /\ slot[at].url /\ slot[at].upgrade
  /\ conn' = ReadOne
  /\ slot' = [slot EXCEPT ![at].status = "CONNECTED", ![at].rx = 0]
  /\ pc' = "greet"
  /\ UNCHANGED <<backlog, at, readers, lights, store>>

handleNonWebsocketConnection ==
  /\ Visited("HEADER") /\ Head(Received).name = "blank"
  /\ ~(slot[at].url /\ slot[at].upgrade)
  /\ clientDisconnect(at)
  /\ NextSlot
  /\ UNCHANGED <<backlog, lights, store>>

handleWebsocket ==
  /\ Visited("CONNECTED") /\ slot[at].rx = 0
  /\ pc' = "read" /\ need' = "head"
  /\ UNCHANGED <<conn, backlog, slot, at, msg, lights, store>>

-----------------------------------------------------------------------------
(* handleWebsocketCb and readCb: the thread waits for the next part.       *)
ReadNow == IF need = "head" THEN Head(Received).of ELSE msg
Reads(n) == /\ pc = "read" /\ ~Lost(at) /\ Received # <<>>
            /\ After(ReadNow, need) = n
CountRx == [slot EXCEPT ![at].rx = IF need = "data" THEN @ ELSE @ + 1]

readPart ==
  /\ \E n \in PartNames : Reads(n) /\ need' = n
  /\ msg' = ReadNow
  /\ conn' = ReadOne
  /\ slot' = CountRx
  /\ UNCHANGED <<backlog, pc, at, lights, store>>

readLast ==
  /\ Reads("done")
  /\ msg' = ReadNow
  /\ conn' = ReadOne
  /\ slot' = CountRx
  /\ pc' = "event"
  /\ UNCHANGED <<backlog, at, need, lights, store>>

(* A payload above the limit (1009), or no memory for it (1011). *)
refuse ==
  /\ Reads("refused") \/ Reads("data")
  /\ clientDisconnect(at)
  /\ NextSlot
  /\ UNCHANGED <<backlog, lights, store>>

(* Five seconds without a byte. *)
timeout_returns ==
  /\ pc = "read" /\ ~Lost(at) /\ Received = <<>>
  /\ NextSlot
  /\ UNCHANGED <<conn, backlog, slot, lights, store>>

timeout_waits ==
  /\ pc = "read" /\ ~Lost(at) /\ Received = <<>>
  /\ UNCHANGED vars

timeout ==
  /\ pc = "read" /\ ~Lost(at) /\ Received = <<>>
  /\ clientDisconnect(at)
  /\ NextSlot
  /\ UNCHANGED <<backlog, lights, store>>

(* The connection is lost: handleWebsocketCb and handleWebsocketWaitFor,   *)
(* which look for it before every part, just return and leave the slot to  *)
(* the next visit; readCb fails.                                           *)
lostReturns ==
  /\ pc = "read" /\ Lost(at)
  /\ NextSlot
  /\ UNCHANGED <<conn, backlog, slot, lights, store>>

lostFails ==
  /\ pc = "read" /\ Lost(at)
  /\ clientDisconnect(at)
  /\ NextSlot
  /\ UNCHANGED <<backlog, lights, store>>

-----------------------------------------------------------------------------
(* webSocketEvent.  Its first call, remoteIP, tears down a connection that *)
(* is found lost; the event is handled all the same.                       *)
remoteIP(s) == IF Lost(s) THEN clientDisconnect(s) ELSE UNCHANGED <<slot, conn>>

connected ==
  /\ pc = "greet"
  /\ remoteIP(at)
  /\ NextSlot
  /\ UNCHANGED <<backlog, lights, store>>

(* After the event handleWebsocketPayloadCb resets the input. *)
messageReceived_keepsRx(op) ==
  /\ pc = "event" /\ msg.op = op
  /\ remoteIP(at)
  /\ NextSlot

messageReceived_twice(op) ==
  /\ pc = "event" /\ msg.op = op
  /\ IF Lost(at) THEN clientDisconnect(at) /\ NextSlot
     ELSE /\ slot' = [slot EXCEPT ![at].rx = 0] /\ UNCHANGED conn
          /\ NextSlot \/ UNCHANGED <<pc, at, readers>>

messageReceived(op) ==
  /\ pc = "event" /\ msg.op = op
  /\ IF Lost(at) THEN clientDisconnect(at)
                 ELSE slot' = [slot EXCEPT ![at].rx = 0] /\ UNCHANGED conn
  /\ NextSlot

text == /\ messageReceived("text")
        /\ eeprom' = saveTemplate(eeprom, msg.body) /\ saved' = msg.body
        /\ UNCHANGED <<backlog, lights>>

bin_keepsFlag ==
  /\ messageReceived("bin")
  /\ leds' = msg.body
  /\ UNCHANGED <<backlog, newWsData, strip, store>>

bin == /\ messageReceived("bin")
       /\ leds' = msg.body /\ newWsData' = TRUE
       /\ UNCHANGED <<backlog, strip, store>>

pong == /\ messageReceived("pong")
        /\ UNCHANGED <<backlog, lights, store>>

close == /\ pc = "event" /\ msg.op = "close"
         /\ clientDisconnect(at)
         /\ NextSlot
         /\ UNCHANGED <<backlog, lights, store>>

show ==
  /\ pc = "show" /\ pc' = "accept"
  /\ strip' = IF newWsData THEN leds ELSE strip
  /\ newWsData' = FALSE
  /\ UNCHANGED <<conn, backlog, slot, at, readers, leds, store>>

(* setup(), after a power cycle or when the watchdog ends a panic.  The    *)
(* LEDs keep their light as long as they have power.                       *)
setup ==
  /\ conn' = [c \in Conns |-> Unborn]
  /\ backlog' = <<>>
  /\ slot' = [s \in Slots |-> Cleared]
  /\ pc' = "accept" /\ at' = 0
  /\ need' = "head" /\ msg' = None
  /\ leds' = Dark /\ newWsData' = FALSE /\ strip' \in {strip, Dark}
  /\ UNCHANGED store

-----------------------------------------------------------------------------
Pages == \E c \in Conns :
  \/ \E kind \in {"ws", "http"} : Open(c, kind)
  \/ \E m \in Messages : Send(c, m)
  \/ Deliver(c) \/ Leave(c) \/ Vanish(c)

handleNewClients == (\E s \in Slots : newClient(s)) \/ noFreeSpace \/ noClient

handleClientData == \/ cleanUp \/ pass \/ headerLine \/ headerDone
                    \/ handleNonWebsocketConnection \/ handleWebsocket
                    \/ readPart \/ readLast \/ refuse \/ timeout
                    \/ lostReturns \/ lostFails

webSocketEvent == connected \/ text \/ bin \/ pong \/ close

loop == handleNewClients \/ handleClientData \/ webSocketEvent \/ show

Next == Pages \/ loop \/ setup

Spec == Init /\ [][Next]_vars

(* The thread runs and its timers fire; connections come more slowly than  *)
(* hasClient() is asked; TCP delivers to and from pages that are there;    *)
(* the watchdog ends a panic.                                              *)
FairSpec == /\ Spec
            /\ WF_vars(loop) /\ SF_vars(noClient)
            /\ WF_vars(pc = "panic" /\ setup)
            /\ \A c \in Conns : WF_vars(Deliver(c))

-----------------------------------------------------------------------------
SlotRecord == [tcp : Conns \cup {None},
               status : {"NOT_CONNECTED", "HEADER", "CONNECTED"},
               url : BOOLEAN, upgrade : BOOLEAN, rx : 0..3]
Parts == [of : Messages \cup {None}, name : Lines \cup PartNames]
Connection == [peer : {"none", "here", "silent", "gone"},
               kind : {"ws", "http", "closing"},
               wire : Seq(Parts), inbox : Seq(Parts)]
TypeOK ==
  /\ conn \in [Conns -> Connection]
  /\ backlog \in Seq(Conns)
  /\ slot \in [Slots -> SlotRecord]
  /\ pc \in {"accept", "visit", "greet", "read", "event", "show", "panic"}
  /\ at \in Slots
  /\ need \in PartNames /\ msg \in Messages \cup {None}
  /\ leds \in Frames /\ newWsData \in BOOLEAN /\ strip \in Frames
  /\ eeprom \in Eeprom /\ saved \in {None} \cup Text

(* Every connection has one holder, the backlog or a slot, so nothing is   *)
(* torn down twice and nothing is forgotten; only a panic drops one.       *)
Waits(c) == \E i \in 1..Len(backlog) : backlog[i] = c
Served(c) == \E s \in Slots : slot[s].tcp = c
OneHolder ==
  /\ \A i, j \in 1..Len(backlog) : backlog[i] = backlog[j] => i = j
  /\ \A s, r \in Slots : slot[s].tcp = slot[r].tcp => s = r \/ slot[s].tcp = None
  /\ \A c \in Conns : /\ ~(Waits(c) /\ Served(c))
                      /\ (Waits(c) \/ Served(c)) => conn[c].peer # "none"
                      /\ \/ conn[c].peer = "none" \/ pc = "panic"
                         \/ Waits(c) \/ Served(c)

(* A slot that was used before does not help the next request: a plain     *)
(* HTTP request never becomes a WebSocket.                                 *)
OnlyAskersTalk == \A c \in Conns : Talks(c) => conn[c].kind # "http"

(* Whatever was refused, timed out or cut off before, the thread reads a   *)
(* stream in step: a header state meets lines, a slot at rest meets the    *)
(* head of a message, and a readCb the part it waits for.                  *)
Expected(s) == IF slot[s].status = "HEADER" THEN Lines
               ELSE IF pc = "read" /\ at = s THEN {need}
               ELSE {"head"}
InSync == \A s \in Slots :
  Alive(s) /\ Stream(slot[s].tcp) # <<>> /\ ~(pc = "event" /\ at = s)
    => Head(Stream(slot[s].tcp)).name \in Expected(s)

(* handleWebsocket ignores a slot that has a part of a header, so only the *)
(* slot that is being read, or one whose connection is lost and that the   *)
(* next visit frees, may have one.                                         *)
NoWedgedSlot == \A s \in Slots :
  slot[s].rx # 0 => Lost(s) \/ (at = s /\ pc \in {"read", "event"})

(* What a greeting reads is what was stored last, whatever longer template *)
(* was stored before it; a text with other than printable characters is    *)
(* stored and never greeted with, and a new EEPROM has no template.        *)
StoredIsLast ==
  IF saved # None /\ (\A i \in 1..Len(saved) : saved[i] \in Printable)
  THEN hasTemplate(eeprom) /\ readTemplate(eeprom) = saved
  ELSE ~hasTemplate(eeprom)

(* Frames that arrive between two shows replace each other, but the last   *)
(* one is shown or about to be.                                            *)
ShownUnlessPending == newWsData \/ leds = Dark \/ strip = leds

(* The device implements Session. *)
Phase(c) == IF conn[c].peer = "none" THEN "none"
            ELSE IF conn[c].peer # "here" THEN "ending"
            ELSE IF Talks(c) THEN "talking" ELSE "waiting"
Abstract == INSTANCE Session WITH
  NoTemplate <- None, stored <- saved,
  phase <- [c \in Conns |-> Phase(c)],
  pending <- [c \in Conns |-> Pending(c)]
ImplementsSession == Abstract!Spec

(* No page that stays is left waiting for the greeting: slots held by      *)
(* pages that have vanished are freed at the latest by the panic of        *)
(* noFreeSpace.  It is what WsConnection expects of IDENTIFY.              *)
StayersAreGreeted == \A c \in Conns :
  (conn[c].peer = "here" /\ conn[c].kind = "ws")
    ~> (Talks(c) \/ conn[c].peer # "here")

(* What has arrived on a connection is read in the end: a page that stops  *)
(* in the middle of a message holds the others, and the LEDs, up only      *)
(* until the timeout, and the last frame to arrive is shown.               *)
InboxIsRead ==
  /\ \A c \in Conns :
       \/ []<>(conn[c].inbox = <<>>)
       \/ []<><<Len(conn'[c].inbox) < Len(conn[c].inbox)>>_vars
  /\ newWsData ~> ~newWsData

(* "no free space to handle client" is a case the library handles, by      *)
(* discarding the new connection.                                          *)
NeverPanics == pc # "panic"
=============================================================================
