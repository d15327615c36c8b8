--------------------------- MODULE WsServer_proofs ---------------------------
(* Theorems about WsServer, for any number of slots and connections, any   *)
(* messages and any size of the EEPROM.                                    *)
EXTENDS WsServer, SequenceTheorems, WellFoundedInduction, TLAPS

(***************************************************************************)
(* The inductive invariant.                                                *)
(***************************************************************************)

(* A slot without a connection is as new. *)
SlotsClean == \A s \in Slots : slot[s].tcp = None => slot[s] = Cleared

(* The thread that handles a message or a greeting has a connection. *)
Busy == pc \in {"greet", "read", "event"} =>
          slot[at].tcp \in Conns /\ slot[at].status = "CONNECTED"

(* What rx counts while a header is read. *)
Counted(n) == CASE n = "head" -> {0} [] n = "ext" -> {1}
                [] n = "mask" -> {1, 2} [] OTHER -> {2, 3}
RxCounts == pc = "read" => slot[at].rx \in Counted(need)

(* What is left of a request before it is answered. *)
Suffixes(kind) == {<<>>, <<Line("blank")>>, Handshake(kind)}
  \cup (IF kind = "ws" THEN {<<Line("upgrade"), Line("blank")>>} ELSE {})
Asking == \A c \in Conns :
  (conn[c].peer \in {"here", "silent"} /\ ~Talks(c)) =>
    /\ conn[c].kind \in {"ws", "http"}
    /\ \/ conn[c].wire = <<>> /\ conn[c].inbox \in Suffixes(conn[c].kind)
       \/ conn[c].inbox = <<>> /\ conn[c].wire = Handshake(conn[c].kind)

(* The flags of a slot are those of the connection it has. *)
FlagsAreTrue == \A s \in Slots :
  (slot[s].upgrade \/ slot[s].status = "CONNECTED") =>
    slot[s].tcp \in Conns /\ conn[slot[s].tcp].kind # "http"

(* The grammar of a stream of messages. *)
Closes(p) == \/ p.name = "data"
             \/ p.name = "mask" /\ p.of.size = "none"
NameAfter(p) == IF Closes(p) THEN "head"
                ELSE IF p.name = "ext" THEN "mask" ELSE After(p.of, p.name)
MessagePart == [of : Messages, name : PartNames]
Good(q) == /\ q \in Seq(MessagePart)
           /\ \A i \in 1..Len(q) : i + 1 \in 1..Len(q) =>
                /\ q[i + 1].name = NameAfter(q[i])
                /\ ~Closes(q[i]) => q[i + 1].of = q[i].of

Needed(s) == IF pc = "read" /\ at = s THEN need ELSE "head"
Fresh(s, q) == /\ q[1].name = Needed(s)
               /\ Needed(s) # "head" => q[1].of = msg
Whole(s, q) == IF q = <<>> THEN Needed(s) = "head" ELSE Closes(q[Len(q)])
Talking == \A s \in Slots :
  slot[s].status = "CONNECTED" /\ ~Lost(s) =>
    LET q == Stream(slot[s].tcp)
    IN /\ Good(q)
       /\ q # <<>> => Fresh(s, q)
       /\ conn[slot[s].tcp].peer = "here" => Whole(s, q)

(* What the messages change. *)
DataOK == /\ leds \in Frames /\ newWsData \in BOOLEAN /\ strip \in Frames
          /\ eeprom \in Eeprom /\ saved \in {None} \cup Text

(* The message being read is one, and what has gone is empty. *)
MsgIsOne == (pc = "event" \/ (pc = "read" /\ need # "head")) => msg \in Messages
GoneIsEmpty == \A c \in Conns : Gone(c) => Stream(c) = <<>>

Inv == /\ TypeOK /\ SlotsClean /\ OneHolder /\ Busy /\ NoWedgedSlot /\ RxCounts
       /\ Asking /\ FlagsAreTrue /\ Talking /\ MsgIsOne /\ GoneIsEmpty

(***************************************************************************)
(* Sequences and the grammar.                                              *)
(***************************************************************************)
LEMMA DeliverKeepsStream ==
  ASSUME NEW S, NEW a \in Seq(S), NEW w \in Seq(S), NEW k \in 0..Len(w)
  PROVE  /\ SubSeq(w, 1, k) \in Seq(S) /\ SubSeq(w, k + 1, Len(w)) \in Seq(S)
         /\ (a \o SubSeq(w, 1, k)) \o SubSeq(w, k + 1, Len(w)) = a \o w
<1> DEFINE u == SubSeq(w, 1, k)
           v == SubSeq(w, k + 1, Len(w))
<1>1. u \in Seq(S) /\ v \in Seq(S)
  OBVIOUS
<1>2. u \o v = w
  <2>1. 1 \in 1..Len(w) + 1 /\ k \in 0..Len(w) /\ Len(w) \in k..Len(w)
    OBVIOUS
  <2>2. SubSeq(w, 1, k) \o SubSeq(w, k + 1, Len(w)) = SubSeq(w, 1, Len(w))
    <3>1. k \in 1 - 1..Len(w)
      OBVIOUS
    <3> QED BY <2>1, <3>1, ConcatAdjacentSubSeq, Zenon
  <2>3. SubSeq(w, 1, Len(w)) = w
    BY SubSeqFull, Zenon
  <2> QED BY <2>2, <2>3
<1>3. (a \o u) \o v = a \o (u \o v)
  <2> HIDE DEF u, v
  <2> QED BY <1>1, ConcatAssociative
<1> QED BY <1>1, <1>2, <1>3

LEMMA ReadingShortens ==
  ASSUME NEW S, NEW a \in Seq(S), NEW w \in Seq(S), a # <<>>
  PROVE  /\ a \o w \in Seq(S) /\ a \o w # <<>> /\ (a \o w)[1] = Head(a)
         /\ Tail(a) \in Seq(S) /\ Tail(a) \o w = Tail(a \o w)
<1>1. Len(a) > 0 /\ Tail(a) \in Seq(S) /\ Len(Tail(a)) = Len(a) - 1
  OBVIOUS
<1>2. /\ a \o w \in Seq(S) /\ a \o w # <<>>
      /\ (a \o w)[1] = Head(a) /\ Len(a \o w) = Len(a) + Len(w)
  BY <1>1
<1>3. /\ Tail(a) \o w \in Seq(S) /\ Tail(a \o w) \in Seq(S)
      /\ Len(Tail(a) \o w) = Len(Tail(a \o w))
  BY <1>1, <1>2
<1>4. ASSUME NEW i \in 1..Len(Tail(a) \o w) PROVE (Tail(a) \o w)[i] = Tail(a \o w)[i]
  <2>1. CASE i \leq Len(a) - 1
    BY <2>1, <1>1, <1>2
  <2>2. CASE i > Len(a) - 1
    BY <2>2, <1>1, <1>2
  <2> QED BY <2>1, <2>2, <1>1
<1>5. Tail(a) \o w = Tail(a \o w)
  BY <1>3, <1>4, SeqEqual
<1> QED BY <1>1, <1>2, <1>5

(* A stream of messages stays one when its first part is read, and when    *)
(* only a first part of it is left.                                        *)
LEMMA GoodTail ==
  ASSUME NEW q, Good(q), q # <<>>
  PROVE  /\ q[1] \in MessagePart /\ Good(Tail(q))
         /\ Tail(q) # <<>> => /\ Tail(q)[1].name = NameAfter(q[1])
                              /\ ~Closes(q[1]) => Tail(q)[1].of = q[1].of
                              /\ Tail(q)[Len(Tail(q))] = q[Len(q)]
         /\ Tail(q) = <<>> => q[1] = q[Len(q)]
<1>1. /\ q \in Seq(MessagePart) /\ Len(q) > 0
      /\ Tail(q) \in Seq(MessagePart) /\ Len(Tail(q)) = Len(q) - 1
      /\ \A i \in 1..Len(Tail(q)) : Tail(q)[i] = q[i + 1]
  BY DEF Good
<1>2. ASSUME NEW i \in 1..Len(Tail(q)), i + 1 \in 1..Len(Tail(q))
      PROVE  /\ Tail(q)[i + 1].name = NameAfter(Tail(q)[i])
             /\ ~Closes(Tail(q)[i]) => Tail(q)[i + 1].of = Tail(q)[i].of
  <2>1. /\ i + 1 \in 1..Len(q) /\ (i + 1) + 1 \in 1..Len(q)
        /\ Tail(q)[i] = q[i + 1] /\ Tail(q)[i + 1] = q[(i + 1) + 1]
    BY <1>1, <1>2
  <2> QED BY <2>1 DEF Good
<1>3. Good(Tail(q))
  BY <1>1, <1>2 DEF Good
<1>4. ASSUME Tail(q) # <<>>
      PROVE  /\ Tail(q)[1].name = NameAfter(q[1])
             /\ ~Closes(q[1]) => Tail(q)[1].of = q[1].of
             /\ Tail(q)[Len(Tail(q))] = q[Len(q)]
  <2>1. /\ 1 \in 1..Len(q) /\ 1 + 1 \in 1..Len(q)
        /\ Tail(q)[1] = q[1 + 1] /\ Tail(q)[Len(Tail(q))] = q[Len(q)]
    BY <1>1, <1>4
  <2> QED BY <2>1 DEF Good
<1>5. q[1] \in MessagePart
  BY <1>1
<1>6. Tail(q) = <<>> => q[1] = q[Len(q)]
  <2>1. ASSUME Tail(q) = <<>> PROVE Len(q) = 1
    BY <1>1, <2>1
  <2> QED BY <2>1
<1> QED BY <1>3, <1>4, <1>5, <1>6

LEMMA GoodPrefix ==
  ASSUME NEW S, NEW a \in Seq(S), NEW w \in Seq(S), Good(a \o w)
  PROVE  Good(a) /\ (a # <<>> => a \o w # <<>> /\ a[1] = (a \o w)[1])
<1>1. /\ a \o w \in Seq(MessagePart) /\ Len(a \o w) = Len(a) + Len(w)
      /\ \A i \in 1..Len(a) : a[i] = (a \o w)[i]
  BY DEF Good
<1>2. a \in Seq(MessagePart)
  <2>1. \A i \in 1..Len(a) : a[i] \in MessagePart
    BY <1>1
  <2> QED BY <2>1
<1>3. ASSUME NEW i \in 1..Len(a), i + 1 \in 1..Len(a)
      PROVE  /\ a[i + 1].name = NameAfter(a[i])
             /\ ~Closes(a[i]) => a[i + 1].of = a[i].of
  <2>1. /\ i \in 1..Len(a \o w) /\ i + 1 \in 1..Len(a \o w)
        /\ a[i] = (a \o w)[i] /\ a[i + 1] = (a \o w)[i + 1]
    BY <1>1, <1>3
  <2> QED BY <2>1 DEF Good
<1> QED BY <1>1, <1>2, <1>3 DEF Good

LEMMA FrameIsGood ==
  ASSUME NEW m \in Messages
  PROVE  /\ Good(Frame(m)) /\ Frame(m) # <<>>
         /\ Frame(m)[1].name = "head" /\ Closes(Frame(m)[Len(Frame(m))])
<1>1. m.size \in Sizes
  BY ServerAssumption DEF Message
<1>2. CASE m.size = "none"
  <2>1. Frame(m) = <<Part(m, "head"), Part(m, "mask")>>
    <3>1. Shape(m.size) = <<"head", "mask">>
      BY <1>2 DEF Shape
    <3> QED BY <3>1 DEF Frame
  <2>2. /\ Len(Frame(m)) = 2 /\ Frame(m) \in Seq(MessagePart)
        /\ Frame(m)[1] = Part(m, "head")
        /\ Frame(m)[2] = Part(m, "mask")
    BY <2>1 DEF MessagePart, PartNames, Part
  <2>3. ASSUME NEW i \in 1..Len(Frame(m)), i + 1 \in 1..Len(Frame(m))
        PROVE  /\ Frame(m)[i + 1].name = NameAfter(Frame(m)[i])
               /\ ~Closes(Frame(m)[i]) => Frame(m)[i + 1].of = Frame(m)[i].of
    <3>1. i \in {1}
      BY <2>2, <2>3
    <3> QED BY <3>1, <2>2, <1>2 DEF Part, Closes, NameAfter, After
  <2>4. Good(Frame(m))
    BY <2>2, <2>3 DEF Good
  <2>5. Frame(m)[1].name = "head" /\ Closes(Frame(m)[Len(Frame(m))])
    BY <2>2, <1>2 DEF Part, Closes
  <2>6. Frame(m) # <<>>
    BY <2>2
  <2> QED BY <2>4, <2>5, <2>6
<1>3. CASE m.size = "short"
  <2>1. Frame(m) = <<Part(m, "head"), Part(m, "mask"), Part(m, "data")>>
    <3>1. Shape(m.size) = <<"head", "mask", "data">>
      BY <1>3 DEF Shape
    <3> QED BY <3>1 DEF Frame
  <2>2. /\ Len(Frame(m)) = 3 /\ Frame(m) \in Seq(MessagePart)
        /\ Frame(m)[1] = Part(m, "head")
        /\ Frame(m)[2] = Part(m, "mask")
        /\ Frame(m)[3] = Part(m, "data")
    BY <2>1 DEF MessagePart, PartNames, Part
  <2>3. ASSUME NEW i \in 1..Len(Frame(m)), i + 1 \in 1..Len(Frame(m))
        PROVE  /\ Frame(m)[i + 1].name = NameAfter(Frame(m)[i])
               /\ ~Closes(Frame(m)[i]) => Frame(m)[i + 1].of = Frame(m)[i].of
    <3>1. i \in {1, 2}
      BY <2>2, <2>3
    <3> QED BY <3>1, <2>2, <1>3 DEF Part, Closes, NameAfter, After
  <2>4. Good(Frame(m))
    BY <2>2, <2>3 DEF Good
  <2>5. Frame(m)[1].name = "head" /\ Closes(Frame(m)[Len(Frame(m))])
    BY <2>2, <1>3 DEF Part, Closes
  <2>6. Frame(m) # <<>>
    BY <2>2
  <2> QED BY <2>4, <2>5, <2>6
<1>4. CASE m.size \in {"long", "huge"}
  <2>1. Frame(m) = <<Part(m, "head"), Part(m, "ext"), Part(m, "mask"), Part(m, "data")>>
    <3>1. Shape(m.size) = <<"head", "ext", "mask", "data">>
      BY <1>4 DEF Shape
    <3> QED BY <3>1 DEF Frame
  <2>2. /\ Len(Frame(m)) = 4 /\ Frame(m) \in Seq(MessagePart)
        /\ Frame(m)[1] = Part(m, "head")
        /\ Frame(m)[2] = Part(m, "ext")
        /\ Frame(m)[3] = Part(m, "mask")
        /\ Frame(m)[4] = Part(m, "data")
    BY <2>1 DEF MessagePart, PartNames, Part
  <2>3. ASSUME NEW i \in 1..Len(Frame(m)), i + 1 \in 1..Len(Frame(m))
        PROVE  /\ Frame(m)[i + 1].name = NameAfter(Frame(m)[i])
               /\ ~Closes(Frame(m)[i]) => Frame(m)[i + 1].of = Frame(m)[i].of
    <3>1. i \in {1, 2, 3}
      BY <2>2, <2>3
    <3> QED BY <3>1, <2>2, <1>4 DEF Part, Closes, NameAfter, After
  <2>4. Good(Frame(m))
    BY <2>2, <2>3 DEF Good
  <2>5. Frame(m)[1].name = "head" /\ Closes(Frame(m)[Len(Frame(m))])
    BY <2>2, <1>4 DEF Part, Closes
  <2>6. Frame(m) # <<>>
    BY <2>1
  <2> QED BY <2>4, <2>5, <2>6
<1> QED BY <1>1, <1>2, <1>3, <1>4 DEF Sizes

LEMMA GoodConcat ==
  ASSUME NEW q, Good(q), NEW f, Good(f), f # <<>>, f[1].name = "head",
         q = <<>> \/ Closes(q[Len(q)])
  PROVE  /\ Good(q \o f) /\ q \o f # <<>>
         /\ (q \o f)[Len(q \o f)] = f[Len(f)]
         /\ (q \o f)[1] = IF q = <<>> THEN f[1] ELSE q[1]
<1>1. /\ q \in Seq(MessagePart) /\ f \in Seq(MessagePart) /\ Len(f) > 0
      /\ q \o f \in Seq(MessagePart) /\ Len(q \o f) = Len(q) + Len(f)
      /\ \A i \in 1..Len(q) + Len(f) :
           (q \o f)[i] = IF i \leq Len(q) THEN q[i] ELSE f[i - Len(q)]
  BY ConcatProperties DEF Good
<1>2. ASSUME NEW i \in 1..Len(q \o f), i + 1 \in 1..Len(q \o f)
      PROVE  /\ (q \o f)[i + 1].name = NameAfter((q \o f)[i])
             /\ ~Closes((q \o f)[i]) => (q \o f)[i + 1].of = (q \o f)[i].of
  <2>1. CASE i + 1 \leq Len(q)
    <3>1. (q \o f)[i] = q[i] /\ (q \o f)[i + 1] = q[i + 1] /\ i \in 1..Len(q)
      BY <2>1, <1>1, <1>2
    <3> QED BY <3>1, <2>1, <1>1 DEF Good
  <2>2. CASE i = Len(q)
    <3>1. (q \o f)[i] = q[Len(q)] /\ (q \o f)[i + 1] = f[1] /\ q # <<>>
      BY <2>2, <1>1, <1>2
    <3> QED BY <3>1 DEF NameAfter
  <2>3. CASE i > Len(q)
    <3>1. /\ i - Len(q) \in 1..Len(f) /\ (i - Len(q)) + 1 \in 1..Len(f)
          /\ (q \o f)[i] = f[i - Len(q)]
          /\ (q \o f)[i + 1] = f[(i - Len(q)) + 1]
      BY <2>3, <1>1, <1>2
    <3> QED BY <3>1 DEF Good
  <2>4. i + 1 \leq Len(q) \/ i = Len(q) \/ i > Len(q)
    <3>1. i \in Int /\ Len(q) \in Int
      BY <1>1
    <3> QED BY <3>1
  <2> QED BY <2>1, <2>2, <2>3, <2>4
<1>3. Good(q \o f)
  BY <1>1, <1>2 DEF Good
<1>4. /\ q \o f # <<>> /\ (q \o f)[Len(q \o f)] = f[Len(f)]
      /\ (q \o f)[1] = IF q = <<>> THEN f[1] ELSE q[1]
  BY <1>1
<1> QED BY <1>3, <1>4

(***************************************************************************)
(* The EEPROM.                                                             *)
(***************************************************************************)
LEMMA Division ==
  ASSUME NEW n \in Nat, NEW b \in Nat, b > 0
  PROVE  n \div b \in Nat /\ n % b \in Nat /\ n % b < b /\ (n \div b) * b + (n % b) = n
<1>1. n \div b \in Nat /\ n % b \in Nat /\ n % b < b
  OBVIOUS
<1>2. n = (n \div b) * b + (n % b)
  OBVIOUS
<1> QED BY <1>1, <1>2

LEMMA SaveFits ==
  ASSUME NEW t \in Text
  PROVE  /\ Len(t) \in Nat /\ Len(t) > 0 /\ Len(t) + 2 \leq EEPROM_SIZE
         /\ (Len(t) \div Base) % ByteSize = Len(t) \div Base
         /\ Len(t) \div Base \in Byte /\ Len(t) % Base \in Byte
         /\ (Len(t) \div Base) * Base + (Len(t) % Base) = Len(t)
         /\ \A i \in 1..Len(t) : t[i] \in Byte
<1> DEFINE n == Len(t)
           d == n \div Base
<1>1. /\ n \in Nat /\ n > 0 /\ n + 2 \leq EEPROM_SIZE /\ d < ByteSize
      /\ \A i \in 1..n : t[i] \in Byte
  BY DEF Text, Fits, Byte
<1>2. Base \in Nat /\ Base > 0 /\ ByteSize \in Nat /\ Base \leq ByteSize
  BY FormatAssumption
<1> HIDE DEF n
<1>3. d \in Nat /\ n % Base \in Nat /\ n % Base < Base /\ d * Base + (n % Base) = n
  BY <1>1, <1>2, Division, Zenon
<1> HIDE DEF d
<1>4. d % ByteSize = d
  BY <1>1, <1>2, <1>3
<1>5. d \in Byte /\ n % Base \in Byte
  BY <1>1, <1>2, <1>3 DEF Byte
<1> QED BY <1>1, <1>3, <1>4, <1>5 DEF n, d

(* A text that fits is read back as it was stored, and it can be greeted   *)
(* with if it is printable: whatever the EEPROM had before.                *)
LEMMA RoundTrip ==
  ASSUME NEW e \in Eeprom, NEW t \in Text
  PROVE  /\ saveTemplate(e, t) \in Eeprom
         /\ StoredLength(saveTemplate(e, t)) = Len(t)
         /\ readTemplate(saveTemplate(e, t)) = t
         /\ hasTemplate(saveTemplate(e, t)) <=> \A i \in 1..Len(t) : t[i] \in Printable
<1> DEFINE f == saveTemplate(e, t)
<1>1. EEPROM_SIZE \in Nat /\ EEPROM_SIZE > 2
  BY FormatAssumption
<1>2. f \in Eeprom
  <2>1. ASSUME NEW a \in Address
        PROVE (IF a = 0 THEN (Len(t) \div Base) % ByteSize
               ELSE IF a = 1 THEN Len(t) % Base
               ELSE IF a - 1 \in 1..Len(t) THEN t[a - 1]
               ELSE e[a]) \in Byte
    BY SaveFits DEF Eeprom
  <2> QED BY <2>1 DEF saveTemplate, Eeprom
<1>3. /\ read(f, 0) = Len(t) \div Base /\ read(f, 1) = Len(t) % Base
  <2>1. 0 \in Address /\ 1 \in Address
    BY <1>1 DEF Address
  <2> QED BY <2>1, SaveFits DEF saveTemplate, read
<1>4. StoredLength(f) = Len(t)
  <2> HIDE DEF f
  <2>1. StoredLength(f) = read(f, 0) * Base + read(f, 1)
    BY DEF StoredLength
  <2>2. (Len(t) \div Base) * Base + (Len(t) % Base) = Len(t)
    BY SaveFits, Zenon
  <2> QED BY <2>1, <2>2, <1>3, Zenon
<1>5. \A i \in 1..Len(t) : read(f, 1 + i) = t[i]
  <2>1. ASSUME NEW i \in 1..Len(t) PROVE read(f, 1 + i) = t[i]
    <3>1. /\ 1 + i \in Address /\ 1 + i # 0 /\ 1 + i # 1
          /\ (1 + i) - 1 = i
      BY <1>1, SaveFits DEF Address
    <3> QED BY <3>1 DEF saveTemplate, read
  <2> QED BY <2>1
<1>6. readTemplate(f) = t
  <2>1. t \in Seq(Byte \ {0})
    BY DEF Text
  <2>2. t = [i \in 1..Len(t) |-> t[i]]
    BY <2>1
  <2> HIDE DEF f
  <2> QED BY <1>4, <1>5, <2>2 DEF readTemplate
<1>7. hasTemplate(f) <=> \A i \in 1..Len(t) : t[i] \in Printable
  <2> HIDE DEF f
  <2> QED BY <1>4, <1>5, SaveFits DEF hasTemplate
<1> QED BY <1>2, <1>4, <1>6, <1>7

(***************************************************************************)
(* The steps.  Many actions of the thread differ only in what they mean:   *)
(* they end a connection, answer a message, or change nothing but where    *)
(* the thread is.                                                          *)
(***************************************************************************)
Moves == /\ pc' \in {"visit", "show"} /\ at' \in Slots
         /\ need' = "head" /\ msg' = None
Drops == /\ pc \in {"visit", "greet", "read", "event"}
         /\ slot[at].tcp \in Conns
         /\ clientDisconnect(at) /\ Moves /\ UNCHANGED backlog
Answers == /\ pc = "event" /\ ~Lost(at)
           /\ slot' = [slot EXCEPT ![at].rx = 0]
           /\ UNCHANGED <<conn, backlog>> /\ Moves
Rests == /\ UNCHANGED <<conn, backlog, slot>>
         /\ pc \in {"accept", "visit", "greet", "read", "show"}
         /\ pc = "read" => Lost(at)
         /\ at' \in Slots /\ need' \in PartNames /\ msg' \in Messages \cup {None}
         /\ \/ pc' \in {"accept", "visit", "show"}
            \/ /\ pc' = "read" /\ at' = at /\ need' = "head"
               /\ slot[at].tcp \in Conns /\ slot[at].status = "CONNECTED"
               /\ slot[at].rx = 0
Shapes == Pages \/ (\E s \in Slots : newClient(s)) \/ noFreeSpace
          \/ Rests \/ Drops \/ Answers
          \/ (headerLine /\ Moves) \/ headerDone \/ readPart \/ readLast \/ setup

LEMMA NextSlotMoves == ASSUME TypeOK, NextSlot PROVE Moves
  BY ServerAssumption DEF TypeOK, NextSlot, Moves, Slots

LEMMA AliveHasOne ==
  ASSUME TypeOK, NEW s \in Slots, slot[s].tcp # None
  PROVE  slot[s].tcp \in Conns
  BY DEF TypeOK, SlotRecord

LEMMA StepHasShape ==
  ASSUME Inv, Next
  PROVE  Shapes
<1> USE DEF Shapes
<1>1. TypeOK /\ at \in Slots /\ Busy
  BY DEF Inv, TypeOK
<1>2. CASE Pages \/ setup
  BY <1>2
<1>3. CASE handleNewClients
  <2>1. CASE noClient
    <3>1. 0 \in Slots
      BY ServerAssumption DEF Slots
    <3> QED BY <2>1, <3>1, <1>1 DEF noClient, Rests, TypeOK, readers
  <2> QED BY <1>3, <2>1 DEF handleNewClients
<1>4. CASE show
  BY <1>4, <1>1 DEF show, Rests, TypeOK, readers
<1>5. CASE handleWebsocket
  BY <1>5, <1>1, AliveHasOne
     DEF handleWebsocket, Visited, Alive, Rests, TypeOK, PartNames
<1>6. CASE pass \/ lostReturns
  BY <1>6, <1>1, NextSlotMoves DEF pass, lostReturns, Moves, Rests, PartNames
<1>7. CASE connected
  BY <1>7, <1>1, NextSlotMoves
     DEF connected, remoteIP, Busy, Moves, Rests, Drops, PartNames
<1>8. CASE cleanUp \/ handleNonWebsocketConnection
  BY <1>8, <1>1, NextSlotMoves, AliveHasOne
     DEF cleanUp, handleNonWebsocketConnection, Visited, Alive, Drops
<1>9. CASE refuse \/ timeout \/ lostFails \/ close
  BY <1>9, <1>1, NextSlotMoves DEF refuse, Reads, timeout, lostFails, close, Busy, Drops
<1>10. CASE text \/ bin \/ pong
  BY <1>10, <1>1, NextSlotMoves
     DEF text, bin, pong, messageReceived, Busy, Drops, Answers
<1>11. CASE headerLine
  BY <1>11, <1>1, NextSlotMoves DEF headerLine
<1> QED BY <1>2, <1>3, <1>4, <1>5, <1>6, <1>7, <1>8, <1>9, <1>10, <1>11
        DEF Next, loop, handleClientData, webSocketEvent

(***************************************************************************)
(* Types.                                                                  *)
(***************************************************************************)
LEMMA FramesAreParts ==
  /\ \A m \in Messages : Frame(m) \in Seq(Parts)
  /\ \A kind \in {"ws", "http"} : Handshake(kind) \in Seq(Parts)
<1>1. ASSUME NEW m \in Messages PROVE Frame(m) \in Seq(Parts)
  <2>1. Frame(m) \in Seq(MessagePart)
    BY FrameIsGood DEF Good
  <2>2. \A i \in 1..Len(Frame(m)) : Frame(m)[i] \in Parts
    <3>1. MessagePart \subseteq Parts
      BY DEF MessagePart, Parts
    <3> QED BY <2>1, <3>1
  <2> QED BY <2>1, <2>2
<1>2. ASSUME NEW kind \in {"ws", "http"} PROVE Handshake(kind) \in Seq(Parts)
  <2>1. \A l \in Lines : Line(l) \in Parts
    BY DEF Line, Parts
  <2>2. Line("get") \in Parts /\ Line("upgrade") \in Parts /\ Line("blank") \in Parts
    BY <2>1 DEF Lines
  <2> QED BY <2>2 DEF Handshake
<1> QED BY <1>1, <1>2

LEMMA ConnType ==
  ASSUME Inv, Shapes
  PROVE  conn' \in [Conns -> Connection]
<1>1. TypeOK /\ \A c \in Conns : conn[c] \in Connection
  BY DEF Inv, TypeOK
<1>2. Unborn \in Connection /\ <<>> \in Seq(Parts)
  BY DEF Unborn, Connection
<1>3. ASSUME NEW c \in Conns, NEW r \in Connection, conn' = [conn EXCEPT ![c] = r]
      PROVE  conn' \in [Conns -> Connection]
  BY <1>1, <1>3 DEF TypeOK
<1>4. CASE Pages
  <2>1. PICK c \in Conns : \/ \E kind \in {"ws", "http"} : Open(c, kind)
                           \/ \E m \in Messages : Send(c, m)
                           \/ Deliver(c) \/ Leave(c) \/ Vanish(c)
    BY <1>4 DEF Pages
  <2>2. CASE \E kind \in {"ws", "http"} : Open(c, kind)
    <3>1. PICK kind \in {"ws", "http"} : Open(c, kind)
      BY <2>2
    <3>2. [Unborn EXCEPT !.peer = "here", !.kind = kind, !.wire = Handshake(kind)]
            \in Connection
      BY <1>2, FramesAreParts DEF Connection
    <3> QED BY <1>3, <3>1, <3>2 DEF Open
  <2>3. CASE \E m \in Messages : Send(c, m)
    <3>1. PICK m \in Messages : Send(c, m)
      BY <2>3
    <3>2. [conn[c] EXCEPT !.wire = Frame(m),
                          !.kind = IF m.op = "close" THEN "closing" ELSE @] \in Connection
      BY <1>1, FramesAreParts DEF Connection
    <3>3. conn' = [conn EXCEPT ![c] =
            [conn[c] EXCEPT !.wire = Frame(m),
                            !.kind = IF m.op = "close" THEN "closing" ELSE @]]
      BY <3>1 DEF Send
    <3> QED BY <1>3, <3>2, <3>3
  <2>4. CASE Deliver(c)
    <3> DEFINE w == conn[c].wire
               r == [conn[c] EXCEPT !.inbox = @ \o SubSeq(w, 1, Segment(w)),
                                    !.wire = SubSeq(w, Segment(w) + 1, Len(w))]
    <3>1. w \in Seq(Parts) /\ conn[c].inbox \in Seq(Parts) /\ w # <<>>
      BY <1>1, <2>4 DEF Connection, Deliver
    <3>2. Segment(w) \in 0..Len(w)
      <4>1. Len(w) \in Nat /\ Len(w) > 0
        BY <3>1
      <4> QED BY <4>1 DEF Segment
    <3>3. SubSeq(w, 1, Segment(w)) \in Seq(Parts)
          /\ SubSeq(w, Segment(w) + 1, Len(w)) \in Seq(Parts)
      BY <3>1, <3>2, DeliverKeepsStream
    <3>4. r \in Connection
      <4>1. conn[c].inbox \o SubSeq(w, 1, Segment(w)) \in Seq(Parts)
        BY <3>1, <3>3
      <4> HIDE DEF w
      <4> QED BY <1>1, <3>3, <4>1 DEF Connection
    <3>5. conn' = [conn EXCEPT ![c] = r]
      BY <2>4 DEF Deliver
    <3> QED BY <1>3, <3>4, <3>5
  <2>5. CASE Leave(c)
    <3>1. [conn[c] EXCEPT !.peer = "gone", !.wire = <<>>, !.inbox = <<>>] \in Connection
      BY <1>1, <1>2 DEF Connection
    <3>2. conn' = [conn EXCEPT ![c] =
            [conn[c] EXCEPT !.peer = "gone", !.wire = <<>>, !.inbox = <<>>]]
      BY <2>5 DEF Leave
    <3> QED BY <1>3, <3>1, <3>2
  <2>6. CASE Vanish(c)
    <3>1. [conn[c] EXCEPT !.peer = "silent", !.wire = <<>>] \in Connection
      BY <1>1, <1>2 DEF Connection
    <3>2. conn' = [conn EXCEPT ![c] = [conn[c] EXCEPT !.peer = "silent", !.wire = <<>>]]
      BY <2>6 DEF Vanish
    <3> QED BY <1>3, <3>1, <3>2
  <2> QED BY <2>1, <2>2, <2>3, <2>4, <2>5, <2>6
<1>5. ASSUME NEW s \in Slots, newClient(s) PROVE conn' \in [Conns -> Connection]
  <2>1. CASE slot[s].tcp = None
    BY <2>1, <1>1, <1>5 DEF newClient, TypeOK
  <2>2. CASE slot[s].tcp # None
    BY <2>2, <1>1, <1>2, <1>3, <1>5, AliveHasOne DEF newClient
  <2> QED BY <2>1, <2>2
<1>6. CASE noFreeSpace \/ Rests \/ Answers
  BY <1>6, <1>1 DEF noFreeSpace, Rests, Answers, TypeOK
<1>7. CASE Drops
  BY <1>7, <1>2, <1>3 DEF Drops, clientDisconnect
<1>8. CASE headerLine \/ headerDone \/ readPart \/ readLast
  <2> DEFINE c == slot[at].tcp
             r == [conn[c] EXCEPT !.inbox = Tail(@)]
  <2>1. c \in Conns /\ conn[c].inbox \in Seq(Parts) /\ conn[c].inbox # <<>>
    <3>1. c \in Conns /\ conn[c].inbox # <<>>
      BY <1>8, <1>1 DEF headerLine, headerDone, readPart, readLast, Visited, Alive, Reads,
                        Received, Inv, Busy, TypeOK, SlotRecord
    <3> QED BY <3>1, <1>1 DEF Connection
  <2>2. r \in Connection
    <3>1. Tail(conn[c].inbox) \in Seq(Parts)
      BY <2>1
    <3> HIDE DEF c
    <3> QED BY <2>1, <3>1, <1>1 DEF Connection
  <2>3. conn' = [conn EXCEPT ![c] = r]
    BY <1>8 DEF headerLine, headerDone, readPart, readLast, ReadOne
  <2> QED BY <1>3, <2>1, <2>2, <2>3
<1>9. CASE setup
  BY <1>9, <1>2 DEF setup
<1> QED BY <1>4, <1>5, <1>6, <1>7, <1>8, <1>9 DEF Shapes

(* What readCb finds, and what it leaves. *)
LEMMA ReadsItsPart ==
  ASSUME Inv, NEW n, Reads(n)
  PROVE  /\ slot[at].tcp \in Conns /\ slot[at].status = "CONNECTED"
         /\ conn[slot[at].tcp].inbox # <<>> /\ Stream(slot[at].tcp) # <<>>
         /\ Good(Stream(slot[at].tcp))
         /\ Stream(slot[at].tcp)[1] \in MessagePart
         /\ Stream(slot[at].tcp)[1].name = need
         /\ ReadNow = Stream(slot[at].tcp)[1].of /\ ReadNow \in Messages
<1> DEFINE c == slot[at].tcp
           q == Stream(c)
<1>1. /\ pc = "read" /\ ~Lost(at) /\ conn[c].inbox # <<>> /\ at \in Slots
      /\ c \in Conns /\ slot[at].status = "CONNECTED"
  BY DEF Reads, Received, Inv, Busy, TypeOK
<1>2. Good(q) /\ (q # <<>> => Fresh(at, q))
  BY <1>1 DEF Inv, Talking
<1>3. conn[c].inbox \in Seq(Parts) /\ conn[c].wire \in Seq(Parts)
  BY <1>1 DEF Inv, TypeOK, Connection
<1>4. q # <<>> /\ q[1] = Head(conn[c].inbox)
  <2> DEFINE a == conn[c].inbox
             w == conn[c].wire
  <2>1. Stream(c) = a \o w
    BY DEF Stream
  <2>2. a \in Seq(Parts) /\ w \in Seq(Parts) /\ a # <<>>
    BY <1>1, <1>3
  <2> HIDE DEF a, w
  <2>3. a \o w # <<>> /\ (a \o w)[1] = Head(a)
    BY <2>2, ReadingShortens
  <2> QED BY <2>1, <2>3 DEF a
<1>5. q[1] \in MessagePart
  BY <1>2, <1>4, GoodTail
<1>6. q[1].name = need /\ (need # "head" => q[1].of = msg)
  BY <1>1, <1>2, <1>4 DEF Fresh, Needed
<1>7. ReadNow = q[1].of
  BY <1>4, <1>6 DEF ReadNow, Received
<1>8. ReadNow \in Messages
  BY <1>5, <1>7 DEF MessagePart
<1> QED BY <1>1, <1>2, <1>4, <1>5, <1>6, <1>7, <1>8

ControlOK ==
  /\ backlog \in Seq(Conns) /\ slot \in [Slots -> SlotRecord]
  /\ pc \in {"accept", "visit", "greet", "read", "event", "show", "panic"}
  /\ at \in Slots
  /\ need \in PartNames /\ msg \in Messages \cup {None}
  /\ RxCounts /\ MsgIsOne

LEMMA ControlType ==
  ASSUME Inv, Shapes
  PROVE  ControlOK'
<1> USE DEF ControlOK
<1>1. /\ TypeOK /\ RxCounts /\ MsgIsOne /\ at \in Slots /\ backlog \in Seq(Conns)
      /\ \A s \in Slots : slot[s] \in SlotRecord
  BY DEF Inv, TypeOK
<1>2. Cleared \in SlotRecord /\ "head" \in PartNames
  BY DEF Cleared, SlotRecord, PartNames
<1>3. ASSUME NEW s \in Slots, NEW r \in SlotRecord, slot' = [slot EXCEPT ![s] = r]
      PROVE  slot' \in [Slots -> SlotRecord]
  BY <1>1, <1>3 DEF TypeOK
<1>4. CASE Pages
  <2>1. UNCHANGED <<slot, pc, at, need, msg>>
    BY <1>4 DEF Pages, Open, Send, Deliver, Leave, Vanish, readers
  <2>2. backlog' = backlog \/ \E c \in Conns : backlog' = Append(backlog, c)
    BY <1>4 DEF Pages, Open, Send, Deliver, Leave, Vanish
  <2>3. backlog' \in Seq(Conns)
    BY <2>2, <1>1
  <2> QED BY <2>1, <2>3, <1>1 DEF TypeOK, RxCounts, MsgIsOne
<1>5. ASSUME NEW s \in Slots, newClient(s) PROVE ControlOK'
  <2>1. /\ UNCHANGED <<pc, at, need, msg>> /\ pc = "accept"
        /\ Head(backlog) \in Conns /\ backlog' \in Seq(Conns)
    BY <1>1, <1>5 DEF newClient, readers
  <2> DEFINE free == IF slot[s].tcp = None THEN slot[s] ELSE Cleared
             r == [free EXCEPT !.tcp = Head(backlog), !.status = "HEADER"]
  <2>2. r \in SlotRecord
    <3>1. free \in SlotRecord
      BY <1>1, <1>2
    <3> HIDE DEF free
    <3> QED BY <2>1, <3>1 DEF SlotRecord
  <2>3. slot' = [slot EXCEPT ![s] = r]
    BY <1>5 DEF newClient
  <2> HIDE DEF r
  <2>4. slot' \in [Slots -> SlotRecord]
    BY <1>3, <2>2, <2>3
  <2> QED BY <2>1, <2>4, <1>1 DEF TypeOK, RxCounts, MsgIsOne
<1>6. CASE noFreeSpace
  <2>1. /\ UNCHANGED <<slot, at, need, msg>> /\ pc' = "panic"
        /\ backlog' \in Seq(Conns)
    BY <1>1, <1>6 DEF noFreeSpace, readers
  <2> QED BY <2>1, <1>1 DEF TypeOK, RxCounts, MsgIsOne
<1>7. CASE Rests
  BY <1>1, <1>7 DEF Rests, TypeOK, RxCounts, MsgIsOne, Counted
<1>8. CASE Drops
  <2>1. slot' \in [Slots -> SlotRecord]
    BY <1>1, <1>2, <1>3, <1>8 DEF Drops, clientDisconnect
  <2> QED BY <2>1, <1>1, <1>2, <1>8 DEF Drops, Moves, RxCounts, MsgIsOne
<1>9. CASE Answers
  <2>1. [slot[at] EXCEPT !.rx = 0] \in SlotRecord
    BY <1>1 DEF SlotRecord
  <2>2. slot' \in [Slots -> SlotRecord]
    BY <1>1, <1>3, <1>9, <2>1 DEF Answers
  <2> QED BY <2>2, <1>1, <1>2, <1>9 DEF Answers, Moves, RxCounts, MsgIsOne
<1>10. CASE headerLine /\ Moves
  <2>1. PICK u \in BOOLEAN, v \in BOOLEAN :
          slot' = [slot EXCEPT ![at] = [slot[at] EXCEPT !.url = u, !.upgrade = v]]
    BY <1>1, <1>10 DEF headerLine, SlotRecord
  <2> DEFINE old == slot[at]
  <2>2. [old EXCEPT !.url = u, !.upgrade = v] \in SlotRecord
    <3>1. old \in SlotRecord
      BY <1>1
    <3> HIDE DEF old
    <3> QED BY <3>1 DEF SlotRecord
  <2>3. slot' \in [Slots -> SlotRecord]
    BY <1>1, <1>3, <2>1, <2>2
  <2> QED BY <2>3, <1>1, <1>2, <1>10 DEF headerLine, Moves, RxCounts, MsgIsOne
<1>11. CASE headerDone
  <2> DEFINE old == slot[at]
  <2>1. [old EXCEPT !.status = "CONNECTED", !.rx = 0] \in SlotRecord
    <3>1. old \in SlotRecord
      BY <1>1
    <3>2. \A k \in 0..3 : [old EXCEPT !.status = "CONNECTED", !.rx = k] \in SlotRecord
      <4> HIDE DEF old
      <4> QED BY <3>1 DEF SlotRecord
    <3> QED BY <3>2
  <2>2. slot' = [slot EXCEPT ![at] = [slot[at] EXCEPT !.status = "CONNECTED", !.rx = 0]]
    BY <1>11 DEF headerDone
  <2>3. slot' \in [Slots -> SlotRecord]
    BY <1>1, <1>3, <2>1, <2>2
  <2> QED BY <2>3, <1>1, <1>11 DEF headerDone, readers, TypeOK, RxCounts, MsgIsOne
<1>12. ASSUME NEW n \in PartNames \cup {"done"}, Reads(n), slot' = CountRx
       PROVE  /\ slot' \in [Slots -> SlotRecord] /\ ReadNow \in Messages
              /\ n = After(ReadNow, need) /\ (n # "done" => slot'[at].rx \in Counted(n))
  <2>1. /\ ReadNow \in Messages /\ n = After(ReadNow, need)
        /\ need \in PartNames /\ slot[at].rx \in Counted(need)
    BY <1>1, <1>12, ReadsItsPart DEF TypeOK, RxCounts, Reads
  <2> DEFINE old == slot[at]
             k == IF need = "data" THEN old.rx ELSE old.rx + 1
             r == [old EXCEPT !.rx = k]
  <2>2. k \in 0..3
    BY <2>1 DEF Counted, PartNames
  <2>3. n # "done" => k \in Counted(n)
    BY <2>1 DEF After, Counted, PartNames
  <2>4. slot' = [slot EXCEPT ![at] = r]
    BY <1>12 DEF CountRx
  <2>5. old \in SlotRecord
    BY <1>1
  <2> HIDE DEF old, k
  <2>6. r \in SlotRecord /\ r.rx = k
    BY <2>2, <2>5 DEF SlotRecord
  <2> HIDE DEF r
  <2>7. slot' \in [Slots -> SlotRecord] /\ slot'[at] = r
    BY <1>1, <1>3, <2>4, <2>6 DEF TypeOK
  <2> QED BY <2>1, <2>3, <2>6, <2>7
<1>13. CASE readPart
  <2>1. PICK n \in PartNames : Reads(n) /\ need' = n
    BY <1>13 DEF readPart
  <2>2. /\ UNCHANGED <<backlog, pc, at>> /\ msg' = ReadNow /\ slot' = CountRx
    BY <1>13 DEF readPart
  <2>3. n \in PartNames \cup {"done"} /\ n # "done"
    BY DEF PartNames
  <2>4. /\ slot' \in [Slots -> SlotRecord] /\ ReadNow \in Messages
        /\ slot'[at].rx \in Counted(n)
    BY <1>12, <2>1, <2>2, <2>3
  <2> QED BY <2>1, <2>2, <2>4, <1>1 DEF TypeOK, RxCounts, MsgIsOne
<1>14. CASE readLast
  <2>1. /\ Reads("done") /\ slot' = CountRx /\ msg' = ReadNow
        /\ UNCHANGED <<backlog, at, need>> /\ pc' = "event"
    BY <1>14 DEF readLast
  <2>2. slot' \in [Slots -> SlotRecord] /\ ReadNow \in Messages
    BY <1>12, <2>1
  <2> QED BY <2>1, <2>2, <1>1 DEF TypeOK, RxCounts, MsgIsOne
<1>15. CASE setup
  <2>1. 0 \in Slots
    BY ServerAssumption DEF Slots
  <2> QED BY <2>1, <1>2, <1>15 DEF setup, RxCounts, MsgIsOne
<1> QED BY <1>4, <1>5, <1>6, <1>7, <1>8, <1>9, <1>10, <1>11, <1>13,
        <1>14, <1>15 DEF Shapes

(***************************************************************************)
(* The LEDs and the EEPROM.                                                *)
(***************************************************************************)
LEMMA DataInit ==
  ASSUME Init
  PROVE  DataOK /\ ShownUnlessPending /\ StoredIsLast
<1>1. PICK b \in {0, ByteSize - 1} : eeprom = [a \in Address |-> b]
  BY DEF Init
<1>2. b \in Byte /\ b \notin Printable /\ Base \in Nat /\ 2 \in Address
  <2>1. ByteSize \in Nat /\ ByteSize > 0 /\ Base \in Nat /\ EEPROM_SIZE \in Nat
        /\ EEPROM_SIZE > 2 /\ Printable \subseteq 1..ByteSize - 2
    BY FormatAssumption
  <2> QED BY <2>1 DEF Byte, Address
<1>3. eeprom \in Eeprom /\ read(eeprom, 2) = b
  BY <1>1, <1>2 DEF Eeprom, read
<1>4. ~hasTemplate(eeprom)
  <2>1. CASE StoredLength(eeprom) = 0
    BY <2>1 DEF hasTemplate
  <2>2. CASE StoredLength(eeprom) # 0
    <3>1. read(eeprom, 0) \in Nat /\ read(eeprom, 1) \in Nat
      BY <1>3 DEF Eeprom, Byte, read
    <3>2. read(eeprom, 0) * Base \in Nat
      BY <3>1, <1>2
    <3>3. StoredLength(eeprom) \in Nat
      BY <3>1, <3>2 DEF StoredLength
    <3>4. 1 \in 1..StoredLength(eeprom) /\ read(eeprom, 1 + 1) = b
      BY <3>3, <2>2, <1>3
    <3> QED BY <3>4, <1>2 DEF hasTemplate
  <2> QED BY <2>1, <2>2
<1> QED BY <1>3, <1>4, ServerAssumption DEF Init, DataOK, ShownUnlessPending, StoredIsLast

LEMMA DataStep ==
  ASSUME Inv, DataOK, ShownUnlessPending, StoredIsLast, [Next]_vars
  PROVE  DataOK' /\ ShownUnlessPending' /\ StoredIsLast'
<1> USE DEF DataOK, ShownUnlessPending, StoredIsLast
<1>1. CASE text
  <2>1. msg \in Messages /\ msg.body \in Text /\ msg.body # None
    BY <1>1, ServerAssumption DEF text, messageReceived, Inv, MsgIsOne
  <2>2. eeprom' = saveTemplate(eeprom, msg.body) /\ saved' = msg.body /\ UNCHANGED lights
    BY <1>1 DEF text
  <2>3. /\ eeprom' \in Eeprom /\ readTemplate(eeprom') = saved'
        /\ hasTemplate(eeprom') <=> \A i \in 1..Len(saved') : saved'[i] \in Printable
    BY <2>1, <2>2, RoundTrip
  <2> QED BY <2>1, <2>2, <2>3 DEF lights
<1>2. CASE bin
  <2>1. msg \in Messages /\ msg.body \in Frames
    BY <1>2, ServerAssumption DEF bin, messageReceived, Inv, MsgIsOne
  <2> QED BY <2>1, <1>2 DEF bin, store
<1>3. CASE show
  BY <1>3 DEF show, store
<1>4. CASE setup
  BY <1>4, ServerAssumption DEF setup, store
<1>5. CASE UNCHANGED <<lights, store>>
  BY <1>5 DEF lights, store
<1>6. CASE Pages \/ handleNewClients
  BY <1>5, <1>6 DEF Pages, Open, Send, Deliver, Leave, Vanish,
                    handleNewClients, newClient, noFreeSpace, noClient
<1>7. CASE handleClientData
  BY <1>5, <1>7 DEF handleClientData, cleanUp, pass, headerLine, headerDone,
     handleNonWebsocketConnection, handleWebsocket, readPart, readLast, refuse,
     timeout, lostReturns, lostFails
<1>8. CASE connected \/ pong \/ close \/ UNCHANGED vars
  BY <1>5, <1>8 DEF connected, pong, close, vars
<1> QED BY <1>1, <1>2, <1>3, <1>4, <1>6, <1>7, <1>8 DEF Next, loop, webSocketEvent

(***************************************************************************)
(* The slots.                                                              *)
(***************************************************************************)
LEMMA SlotsStep ==
  ASSUME Inv, Shapes
  PROVE  SlotsClean' /\ Busy' /\ NoWedgedSlot'
<1> USE DEF SlotsClean, Busy, NoWedgedSlot
<1>1. /\ TypeOK /\ SlotsClean /\ Busy /\ NoWedgedSlot /\ OneHolder /\ at \in Slots
      /\ slot \in [Slots -> SlotRecord] /\ conn \in [Conns -> Connection]
      /\ None \notin Conns
  BY ServerAssumption DEF Inv, TypeOK
<1>2. CASE Pages
  <2>1. UNCHANGED <<slot, pc, at>>
    BY <1>2 DEF Pages, Open, Send, Deliver, Leave, Vanish
  <2>2. \A c \in Conns : Gone(c) => Gone(c)'
    <3>1. ASSUME NEW c \in Conns, Gone(c) PROVE Gone(c)'
      <4>1. PICK d \in Conns : \/ \E kind \in {"ws", "http"} : Open(d, kind)
                               \/ \E m \in Messages : Send(d, m)
                               \/ Deliver(d) \/ Leave(d) \/ Vanish(d)
        BY <1>2 DEF Pages
      <4>2. CASE \E kind \in {"ws", "http"} : Open(d, kind)
        BY <1>1, <3>1, <4>2 DEF Open, Gone, Unborn
      <4>3. CASE \E m \in Messages : Send(d, m)
        BY <1>1, <3>1, <4>3 DEF Send, Gone, Connection
      <4>4. CASE Deliver(d)
        BY <1>1, <3>1, <4>4 DEF Deliver, Gone, Connection
      <4>5. CASE Leave(d) \/ Vanish(d)
        BY <1>1, <3>1, <4>5 DEF Leave, Vanish, Gone, Connection
      <4> QED BY <4>1, <4>2, <4>3, <4>4, <4>5
    <3> QED BY <3>1
  <2>3. \A s \in Slots : Lost(s) => Lost(s)'
    BY <2>1, <2>2, AliveHasOne, <1>1 DEF Lost
  <2>4. NoWedgedSlot'
    <3>1. ASSUME NEW s \in Slots, slot'[s].rx # 0
          PROVE Lost(s)' \/ (at' = s /\ pc' \in {"read", "event"})
      <4>1. Lost(s) \/ (at = s /\ pc \in {"read", "event"})
        BY <2>1, <3>1, <1>1
      <4> QED BY <4>1, <2>1, <2>3
    <3> QED BY <3>1
  <2> QED BY <2>1, <2>4, <1>1
<1>3. ASSUME NEW r \in Slots, newClient(r)
      PROVE SlotsClean' /\ Busy' /\ NoWedgedSlot'
  <2>1. /\ UNCHANGED <<pc, at>> /\ pc = "accept" /\ Head(backlog) \in Conns
    BY <1>1, <1>3 DEF newClient, TypeOK
  <2>2. /\ slot'[r].tcp = Head(backlog) /\ slot'[r].rx = 0
        /\ \A s \in Slots \ {r} : slot'[s] = slot[s]
    BY <1>1, <1>3 DEF newClient, Cleared, SlotRecord
  <2>3. ASSUME NEW s \in Slots \ {r}, Lost(s) PROVE Lost(s)'
    <3>1. conn'[slot[s].tcp] = conn[slot[s].tcp]
      BY <1>1, <1>3, <2>3, AliveHasOne DEF newClient, OneHolder, Lost
    <3> QED BY <2>2, <2>3, <3>1 DEF Lost, Gone
  <2>4. NoWedgedSlot'
    <3>1. ASSUME NEW s \in Slots, slot'[s].rx # 0 PROVE Lost(s)'
      <4>1. s # r /\ Lost(s)
        BY <2>1, <2>2, <3>1, <1>1
      <4> QED BY <4>1, <2>3
    <3> QED BY <3>1
  <2>5. SlotsClean'
    BY <1>1, <2>1, <2>2
  <2> QED BY <2>1, <2>4, <2>5
<1>4. CASE noFreeSpace
  BY <1>1, <1>4 DEF noFreeSpace, Lost, Gone
<1>5. CASE Rests
  BY <1>1, <1>5 DEF Rests, Lost, Gone
<1>6. CASE Drops
  <2>1. /\ slot'[at] = Cleared /\ \A s \in Slots \ {at} : slot'[s] = slot[s]
        /\ pc' \in {"visit", "show"}
    BY <1>1, <1>6 DEF Drops, Moves, clientDisconnect
  <2>2. ASSUME NEW s \in Slots \ {at}, Lost(s) PROVE Lost(s)'
    <3>1. conn'[slot[s].tcp] = conn[slot[s].tcp]
      BY <1>1, <1>6, <2>2, AliveHasOne DEF Drops, clientDisconnect, OneHolder, Lost
    <3> QED BY <2>1, <2>2, <3>1 DEF Lost, Gone
  <2>3. Cleared.tcp = None /\ Cleared.rx = 0
    BY DEF Cleared
  <2>4. NoWedgedSlot'
    <3>1. ASSUME NEW s \in Slots, slot'[s].rx # 0 PROVE Lost(s)'
      <4>1. s # at /\ Lost(s)
        BY <2>1, <2>3, <3>1, <1>1
      <4> QED BY <4>1, <2>2
    <3> QED BY <3>1
  <2> QED BY <1>1, <2>1, <2>3, <2>4
<1>7. CASE Answers
  <2>1. /\ slot'[at].tcp # None /\ slot'[at].rx = 0
        /\ \A s \in Slots \ {at} : slot'[s] = slot[s]
        /\ pc' \in {"visit", "show"} /\ conn' = conn
    BY <1>1, <1>7 DEF Answers, Moves, SlotRecord
  <2> QED BY <1>1, <2>1 DEF Lost, Gone
<1>8. ASSUME \/ (headerLine /\ Moves) \/ headerDone \/ readPart \/ readLast
      PROVE  SlotsClean' /\ Busy' /\ NoWedgedSlot'
  <2> DEFINE c == slot[at].tcp
  <2>1. /\ c \in Conns /\ conn' = [conn EXCEPT ![c].inbox = Tail(@)]
        /\ slot'[at].tcp = c /\ \A s \in Slots \ {at} : slot'[s] = slot[s]
    BY <1>1, <1>8, AliveHasOne
       DEF headerLine, headerDone, readPart, readLast, Visited, Alive, Reads, ReadOne,
           CountRx, SlotRecord
  <2>2. ASSUME NEW s \in Slots, Lost(s) PROVE Lost(s)'
    <3>1. slot'[s].tcp = slot[s].tcp /\ slot[s].tcp \in Conns
      BY <2>1, <2>2, AliveHasOne, <1>1 DEF Lost
    <3>2. conn'[slot[s].tcp].peer = conn[slot[s].tcp].peer
      BY <2>1, <3>1, <1>1 DEF Connection
    <3> QED BY <2>2, <3>1, <3>2 DEF Lost, Gone
  <2>3. CASE headerLine /\ Moves
    <3>1. slot'[at].rx = slot[at].rx /\ pc = "visit" /\ pc' \in {"visit", "show"}
      BY <2>3, <1>1 DEF headerLine, Visited, Moves, SlotRecord
    <3> QED BY <1>1, <2>1, <2>2, <3>1
  <2>4. CASE headerDone
    <3>1. /\ slot'[at].rx = 0 /\ pc = "visit" /\ pc' = "greet" /\ at' = at
          /\ slot'[at].status = "CONNECTED"
      BY <2>4, <1>1 DEF headerDone, Visited, SlotRecord
    <3> QED BY <1>1, <2>1, <2>2, <3>1
  <2>5. CASE readPart \/ readLast
    <3>1. /\ pc = "read" /\ pc' \in {"read", "event"} /\ at' = at
          /\ slot'[at].status = slot[at].status
      BY <2>5, <1>1 DEF readPart, readLast, Reads, CountRx, SlotRecord
    <3> QED BY <1>1, <2>1, <2>2, <3>1
  <2> QED BY <1>8, <2>3, <2>4, <2>5
<1>9. CASE setup
  <2>1. pc' = "accept" /\ \A s \in Slots : slot'[s] = Cleared
    BY <1>9 DEF setup
  <2>2. Cleared.rx = 0
    BY DEF Cleared
  <2> QED BY <2>1, <2>2
<1> QED BY <1>2, <1>3, <1>4, <1>5, <1>6, <1>7, <1>8, <1>9 DEF Shapes

(***************************************************************************)
(* Every connection has one holder.                                        *)
(***************************************************************************)
Known(c) == conn[c].peer # "none"
Distinct == \A i, j \in 1..Len(backlog) : backlog[i] = backlog[j] => i = j

Single == \A s, r \in Slots :
  slot[s].tcp = slot[r].tcp => s = r \/ slot[s].tcp = None
Holding(c) == /\ ~(Waits(c) /\ Served(c))
              /\ Waits(c) \/ Served(c) => Known(c)
              /\ ~Known(c) \/ pc = "panic" \/ Waits(c) \/ Served(c)

LEMMA TakingWaits ==
  ASSUME backlog \in Seq(Conns), Distinct, backlog # <<>>, backlog' = Tail(backlog)
  PROVE  /\ Distinct' /\ Waits(Head(backlog))
         /\ \A c \in Conns : Waits(c)' <=> Waits(c) /\ c # Head(backlog)
<1>1. /\ Len(backlog) \in Nat /\ Len(backlog) > 0 /\ Len(backlog') = Len(backlog) - 1
      /\ Head(backlog) = backlog[1]
      /\ \A i \in 1..Len(backlog') : backlog'[i] = backlog[i + 1]
  OBVIOUS
<1>2. Distinct'
  <2>1. ASSUME NEW i \in 1..Len(backlog'), NEW j \in 1..Len(backlog'),
               backlog'[i] = backlog'[j]
        PROVE  i = j
    <3>1. i + 1 \in 1..Len(backlog) /\ j + 1 \in 1..Len(backlog)
          /\ backlog[i + 1] = backlog[j + 1]
      BY <1>1, <2>1
    <3>2. i + 1 = j + 1
      BY <3>1 DEF Distinct
    <3> QED BY <3>2
  <2> QED BY <2>1 DEF Distinct
<1>3. Waits(Head(backlog))
  <2>1. 1 \in 1..Len(backlog)
    BY <1>1
  <2> QED BY <1>1, <2>1 DEF Waits
<1>4. ASSUME NEW c \in Conns, Waits(c)' PROVE Waits(c) /\ c # Head(backlog)
  <2>1. PICK i \in 1..Len(backlog') : backlog'[i] = c
    BY <1>4 DEF Waits
  <2>2. /\ i + 1 \in 1..Len(backlog) /\ 1 \in 1..Len(backlog) /\ i + 1 # 1
        /\ backlog[i + 1] = c
    BY <1>1, <2>1
  <2> QED BY <1>1, <2>2 DEF Waits, Distinct
<1>5. ASSUME NEW c \in Conns, Waits(c), c # Head(backlog) PROVE Waits(c)'
  <2>1. PICK i \in 1..Len(backlog) : backlog[i] = c
    BY <1>5 DEF Waits
  <2>2. i - 1 \in 1..Len(backlog') /\ backlog'[i - 1] = c
    BY <1>1, <1>5, <2>1
  <2> QED BY <2>2 DEF Waits
<1> QED BY <1>2, <1>3, <1>4, <1>5

LEMMA OpeningWaits ==
  ASSUME backlog \in Seq(Conns), Distinct, NEW d \in Conns, ~Waits(d),
         backlog' = Append(backlog, d)
  PROVE  /\ Distinct'
         /\ \A c \in Conns : Waits(c)' <=> Waits(c) \/ c = d
<1>1. /\ Len(backlog) \in Nat /\ Len(backlog') = Len(backlog) + 1
      /\ backlog'[Len(backlog')] = d
      /\ \A i \in 1..Len(backlog) : backlog'[i] = backlog[i] /\ backlog[i] # d
  BY DEF Waits
<1>2. Distinct'
  <2>1. ASSUME NEW i \in 1..Len(backlog'), NEW j \in 1..Len(backlog'),
               backlog'[i] = backlog'[j]
        PROVE  i = j
    <3>1. CASE i \in 1..Len(backlog) /\ j \in 1..Len(backlog)
      <4>1. backlog[i] = backlog[j]
        BY <1>1, <2>1, <3>1
      <4> QED BY <3>1, <4>1 DEF Distinct
    <3>2. CASE ~(i \in 1..Len(backlog) /\ j \in 1..Len(backlog))
      BY <1>1, <2>1, <3>2
    <3> QED BY <3>1, <3>2
  <2> QED BY <2>1 DEF Distinct
<1>3. ASSUME NEW c \in Conns PROVE Waits(c)' <=> Waits(c) \/ c = d
  <2>1. ASSUME Waits(c)' PROVE Waits(c) \/ c = d
    <3>1. PICK i \in 1..Len(backlog') : backlog'[i] = c
      BY <2>1 DEF Waits
    <3>2. i = Len(backlog') \/ i \in 1..Len(backlog)
      BY <1>1
    <3> QED BY <1>1, <3>1, <3>2 DEF Waits
  <2>2. ASSUME Waits(c) \/ c = d PROVE Waits(c)'
    <3>1. CASE Waits(c)
      <4>1. PICK i \in 1..Len(backlog) : backlog[i] = c
        BY <3>1 DEF Waits
      <4>2. i \in 1..Len(backlog') /\ backlog'[i] = c
        BY <1>1, <4>1
      <4> QED BY <4>2 DEF Waits
    <3>2. CASE c = d
      <4>1. Len(backlog') \in 1..Len(backlog')
        BY <1>1
      <4> QED BY <1>1, <3>2, <4>1 DEF Waits
    <3> QED BY <2>2, <3>1, <3>2
  <2> QED BY <2>1, <2>2
<1> QED BY <1>2, <1>3

LEMMA HolderStep ==
  ASSUME Inv, Shapes
  PROVE  OneHolder'
<1>1. /\ Distinct /\ Single /\ at \in Slots /\ None \notin Conns
      /\ backlog \in Seq(Conns)
      /\ slot \in [Slots -> SlotRecord] /\ conn \in [Conns -> Connection]
  BY ServerAssumption DEF Inv, OneHolder, TypeOK, Distinct, Single
<1>2. \A c \in Conns : Holding(c)
  <2>1. ASSUME NEW c \in Conns PROVE Holding(c)
    <3>1. OneHolder
      BY DEF Inv
    <3>2. /\ ~(Waits(c) /\ Served(c))
          /\ (Waits(c) \/ Served(c)) => conn[c].peer # "none"
          /\ \/ conn[c].peer = "none" \/ pc = "panic"
             \/ Waits(c) \/ Served(c)
      BY <3>1, Zenon DEF OneHolder
    <3> QED BY <3>2, Zenon DEF Holding, Known
  <2> QED BY <2>1
<1>3. SUFFICES Distinct' /\ Single' /\ \A c \in Conns : Holding(c)'
  BY DEF OneHolder, Distinct, Single, Holding, Known
<1>4. ASSUME UNCHANGED backlog, pc # "panic" \/ pc' = "panic",
             \A s \in Slots : slot'[s].tcp = slot[s].tcp,
             \A c \in Conns : Known(c)' <=> Known(c)
      PROVE  Distinct' /\ Single' /\ \A c \in Conns : Holding(c)'
  <2>1. Distinct' /\ Single'
    BY <1>1, <1>4 DEF Distinct, Single
  <2>2. ASSUME NEW c \in Conns PROVE Holding(c)'
    <3>1. (Waits(c)' <=> Waits(c)) /\ (Served(c)' <=> Served(c)) /\ (Known(c)' <=> Known(c))
      BY <1>4 DEF Waits, Served
    <3> QED BY <1>2, <1>4, <3>1 DEF Holding
  <2> QED BY <2>1, <2>2
<1>5. CASE Pages
  <2>1. PICK d \in Conns : \/ \E kind \in {"ws", "http"} : Open(d, kind)
                           \/ \E m \in Messages : Send(d, m)
                           \/ Deliver(d) \/ Leave(d) \/ Vanish(d)
    BY <1>5 DEF Pages
  <2>2. CASE \E kind \in {"ws", "http"} : Open(d, kind)
    <3>1. /\ ~Known(d) /\ backlog' = Append(backlog, d) /\ UNCHANGED <<slot, pc>>
          /\ \A c \in Conns : Known(c)' <=> Known(c) \/ c = d
      BY <1>1, <2>2 DEF Open, Unborn, Known
    <3>2. ~Waits(d) /\ ~Served(d)
      BY <1>2, <3>1 DEF Holding
    <3>3. Distinct' /\ \A c \in Conns : Waits(c)' <=> Waits(c) \/ c = d
      BY <1>1, <3>1, <3>2, OpeningWaits
    <3>4. Single' /\ \A c \in Conns : Served(c)' <=> Served(c)
      BY <1>1, <3>1 DEF Served, Single
    <3>5. ASSUME NEW c \in Conns PROVE Holding(c)'
      BY <1>2, <3>1, <3>2, <3>3, <3>4 DEF Holding
    <3> QED BY <3>3, <3>4, <3>5
  <2>3. CASE \E m \in Messages : Send(d, m)
    BY <1>1, <1>4, <2>3 DEF Send, Connection, Known
  <2>4. CASE Deliver(d)
    BY <1>1, <1>4, <2>4 DEF Deliver, Connection, Known
  <2>5. CASE Leave(d) \/ Vanish(d)
    BY <1>1, <1>4, <2>5 DEF Leave, Vanish, Connection, Known
  <2> QED BY <2>1, <2>2, <2>3, <2>4, <2>5
<1>6. ASSUME NEW r \in Slots, newClient(r)
      PROVE  Distinct' /\ Single' /\ \A c \in Conns : Holding(c)'
  <2> DEFINE d == Head(backlog)
             old == slot[r].tcp
  <2>1. backlog # <<>> /\ backlog' = Tail(backlog) /\ pc = "accept" /\ pc' = pc
    BY <1>6 DEF newClient
  <2>2. /\ Distinct' /\ Waits(d) /\ d \in Conns
        /\ \A c \in Conns : Waits(c)' <=> Waits(c) /\ c # d
    BY <1>1, <2>1, TakingWaits
  <2>3. ~Served(d) /\ Known(d) /\ old # d
    BY <1>2, <2>2 DEF Served, Holding
  <2>4. slot'[r].tcp = d /\ \A s \in Slots \ {r} : slot'[s] = slot[s]
    BY <1>1, <1>6 DEF newClient, Cleared, SlotRecord
  <2>5. \A c \in Conns : Known(c)' <=> Known(c) /\ c # old
    BY <1>1, <1>6 DEF newClient, Unborn, Known
  <2> HIDE DEF d
  <2>6. Single'
    BY <1>1, <2>3, <2>4 DEF Served, Single
  <2>7. \A c \in Conns : Served(c)' <=> (Served(c) /\ c # old) \/ c = d
    <3>1. ASSUME NEW c \in Conns, Served(c)' PROVE (Served(c) /\ c # old) \/ c = d
      <4>1. PICK s \in Slots : slot'[s].tcp = c
        BY <3>1 DEF Served
      <4> QED BY <1>1, <2>4, <4>1 DEF Served, Single
    <3>2. ASSUME NEW c \in Conns, (Served(c) /\ c # old) \/ c = d PROVE Served(c)'
      BY <2>4, <3>2 DEF Served
    <3> QED BY <3>1, <3>2
  <2> HIDE DEF old
  <2>8. ASSUME NEW c \in Conns PROVE Holding(c)'
    <3>1. Holding(c) /\ Holding(d) /\ pc' # "panic" /\ pc # "panic"
      BY <1>2, <2>1, <2>2
    <3>2. /\ Waits(c)' <=> Waits(c) /\ c # d
          /\ Served(c)' <=> (Served(c) /\ c # old) \/ c = d
          /\ Known(c)' <=> Known(c) /\ c # old
      BY <2>2, <2>5, <2>7
    <3>3. c = old => ~Waits(c)
      BY <1>1, <3>1 DEF Holding, Served, old
    <3> QED BY <3>1, <3>2, <3>3, <2>2, <2>3 DEF Holding
  <2> QED BY <2>2, <2>6, <2>8
<1>7. CASE noFreeSpace
  <2>1. /\ backlog # <<>> /\ backlog' = Tail(backlog) /\ pc' = "panic"
        /\ UNCHANGED <<conn, slot>>
    BY <1>7 DEF noFreeSpace
  <2>2. Distinct' /\ \A c \in Conns : Waits(c)' => Waits(c)
    BY <1>1, <2>1, TakingWaits
  <2>3. Single' /\ \A c \in Conns : (Served(c)' <=> Served(c)) /\ (Known(c)' <=> Known(c))
    BY <1>1, <2>1 DEF Served, Single, Known
  <2>4. ASSUME NEW c \in Conns PROVE Holding(c)'
    BY <1>2, <2>1, <2>2, <2>3 DEF Holding
  <2> QED BY <2>2, <2>3, <2>4
<1>8. CASE Rests \/ Answers
  <2>1. UNCHANGED <<conn, backlog>> /\ pc # "panic"
    BY <1>8 DEF Rests, Answers
  <2>2. \A s \in Slots : slot'[s].tcp = slot[s].tcp
    BY <1>1, <1>8 DEF Rests, Answers, SlotRecord
  <2> QED BY <1>4, <2>1, <2>2 DEF Known
<1>9. CASE Drops
  <2> DEFINE old == slot[at].tcp
  <2>1. /\ old \in Conns /\ UNCHANGED backlog /\ pc # "panic"
        /\ slot'[at].tcp = None /\ \A s \in Slots \ {at} : slot'[s] = slot[s]
        /\ \A c \in Conns : Known(c)' <=> Known(c) /\ c # old
    BY <1>1, <1>9 DEF Drops, clientDisconnect, Cleared, Unborn, Known
  <2>2. Distinct' /\ \A c \in Conns : Waits(c)' <=> Waits(c)
    BY <1>1, <2>1 DEF Distinct, Waits
  <2>3. \A c \in Conns : Served(c)' <=> Served(c) /\ c # old
    BY <1>1, <2>1 DEF Served, Single
  <2>4. Single' /\ Served(old)
    BY <1>1, <2>1 DEF Served, Single
  <2> HIDE DEF old
  <2>5. ASSUME NEW c \in Conns PROVE Holding(c)'
    BY <1>2, <2>1, <2>2, <2>3, <2>4 DEF Holding
  <2> QED BY <2>2, <2>4, <2>5
<1>10. CASE headerLine \/ headerDone \/ readPart \/ readLast
  <2>1. /\ slot[at].tcp \in Conns /\ UNCHANGED backlog
        /\ conn' = [conn EXCEPT ![slot[at].tcp].inbox = Tail(@)]
        /\ pc # "panic" /\ pc' # "panic"
        /\ \A s \in Slots : slot'[s].tcp = slot[s].tcp
    <3>1. TypeOK /\ Busy
      BY DEF Inv
    <3>2. CASE headerLine \/ headerDone
      BY <1>1, <3>1, <3>2, AliveHasOne
         DEF headerLine, headerDone, NextSlot, Visited, Alive, ReadOne, SlotRecord
    <3>3. CASE readPart \/ readLast
      <4>1. pc = "read" /\ pc' \in {"read", "event"} /\ slot' = CountRx
        BY <3>3 DEF readPart, readLast, Reads
      <4>2. \A s \in Slots : slot'[s].tcp = slot[s].tcp
        BY <1>1, <4>1 DEF CountRx, SlotRecord
      <4> QED BY <3>1, <3>3, <4>1, <4>2 DEF readPart, readLast, ReadOne, Busy
    <3> QED BY <1>10, <3>2, <3>3
  <2>2. \A c \in Conns : Known(c)' <=> Known(c)
    BY <1>1, <2>1 DEF Connection, Known
  <2> QED BY <1>4, <2>1, <2>2
<1>11. CASE setup
  <2>1. /\ backlog' = <<>> /\ \A s \in Slots : slot'[s].tcp = None
        /\ \A c \in Conns : ~Known(c)'
    BY <1>11 DEF setup, Cleared, Unborn, Known
  <2> QED BY <1>1, <2>1 DEF Distinct, Single, Holding, Waits, Served
<1> QED BY <1>5, <1>6, <1>7, <1>8, <1>9, <1>10, <1>11 DEF Shapes

(***************************************************************************)
(* The streams.                                                            *)
(***************************************************************************)

(* What the pages do to a connection that is theirs. *)
LEMMA PagesChange ==
  ASSUME Inv, NEW d \in Conns,
         \/ \E kind \in {"ws", "http"} : Open(d, kind)
         \/ \E m \in Messages : Send(d, m)
         \/ Deliver(d) \/ Leave(d) \/ Vanish(d)
  PROVE  /\ UNCHANGED <<slot, pc, at, need, msg>>
         /\ \A c \in Conns \ {d} : conn'[c] = conn[c]
         /\ \/ /\ conn[d].peer = "none" /\ conn'[d].peer = "here"
               /\ conn'[d].kind \in {"ws", "http"} /\ conn'[d].inbox = <<>>
               /\ conn'[d].wire = Handshake(conn'[d].kind)
            \/ /\ conn[d].peer = "here" /\ conn'[d].peer = "here" /\ Talks(d)
               /\ conn[d].kind # "http" /\ conn'[d].kind # "http"
               /\ conn[d].wire = <<>> /\ conn'[d].inbox = conn[d].inbox
               /\ \E m \in Messages : conn'[d].wire = Frame(m)
            \/ /\ conn'[d].peer = conn[d].peer /\ conn'[d].kind = conn[d].kind
               /\ conn[d].wire # <<>>
               /\ conn'[d].inbox = conn[d].inbox \o SubSeq(conn[d].wire, 1, Segment(conn[d].wire))
               /\ conn'[d].wire = SubSeq(conn[d].wire, Segment(conn[d].wire) + 1,
                                         Len(conn[d].wire))
            \/ /\ conn'[d].kind = conn[d].kind /\ conn'[d].peer = "gone"
               /\ conn'[d].wire = <<>> /\ conn'[d].inbox = <<>>
            \/ /\ conn[d].peer = "here" /\ conn'[d].peer = "silent"
               /\ conn'[d].kind = conn[d].kind
               /\ conn'[d].wire = <<>> /\ conn'[d].inbox = conn[d].inbox
<1>1. conn \in [Conns -> Connection]
  BY DEF Inv, TypeOK
<1>2. CASE \E kind \in {"ws", "http"} : Open(d, kind)
  BY <1>1, <1>2 DEF Open, Unborn, readers
<1>3. CASE \E m \in Messages : Send(d, m)
  <2>1. PICK m \in Messages : Send(d, m)
    BY <1>3
  <2>2. /\ conn'[d].peer = conn[d].peer /\ conn'[d].inbox = conn[d].inbox
        /\ conn'[d].wire = Frame(m)
        /\ conn'[d].kind = IF m.op = "close" THEN "closing" ELSE conn[d].kind
    BY <1>1, <2>1 DEF Send, Connection
  <2>3. /\ UNCHANGED <<slot, pc, at, need, msg>>
        /\ \A c \in Conns \ {d} : conn'[c] = conn[c]
    BY <1>1, <2>1 DEF Send, readers
  <2>4. /\ conn[d].peer = "here" /\ Talks(d) /\ conn[d].wire = <<>>
        /\ conn[d].kind # "http" /\ conn'[d].kind # "http"
    BY <2>1, <2>2 DEF Send
  <2> QED BY <2>2, <2>3, <2>4
<1>4. CASE Deliver(d)
  BY <1>1, <1>4 DEF Deliver, Connection, readers
<1>5. CASE Leave(d) \/ Vanish(d)
  BY <1>1, <1>5 DEF Leave, Vanish, Connection, readers
<1> QED BY <1>2, <1>3, <1>4, <1>5

(* What the thread does to the slots and to what they read. *)
LEMMA ThreadChanges ==
  ASSUME Inv, Shapes, ~Pages
  PROVE  \/ \E r \in Slots :
               /\ pc \in {"accept", "visit", "greet", "read", "event"}
               /\ pc = "read" => r = at
               /\ pc' \in {"accept", "visit", "show"}
               /\ \A s \in Slots \ {r} : slot'[s] = slot[s]
               /\ slot'[r].status # "CONNECTED" /\ ~slot'[r].upgrade
               /\ slot[r].status = "CONNECTED" => slot[r].tcp \in Conns
               /\ \A c \in Conns : conn'[c] = IF c = slot[r].tcp THEN Unborn ELSE conn[c]
         \/ /\ \A s \in Slots : /\ slot'[s].tcp = slot[s].tcp
                                /\ slot'[s].status = slot[s].status
                                /\ slot'[s].upgrade = slot[s].upgrade
            /\ conn' = conn
            /\ \A s \in Slots : ~Lost(s) => Needed(s) = "head"
            /\ pc' = "read" => need' = "head"
         \/ (headerLine /\ Moves) \/ headerDone \/ readPart \/ readLast
         \/ setup
<1>1. /\ slot \in [Slots -> SlotRecord] /\ conn \in [Conns -> Connection]
      /\ at \in Slots /\ SlotsClean /\ Busy
  BY DEF Inv, TypeOK
<1>2. CASE \E s \in Slots : newClient(s)
  <2>1. PICK r \in Slots : newClient(r)
    BY <1>2
  <2>2. /\ slot'[r].status = "HEADER" /\ ~slot'[r].upgrade
        /\ \A s \in Slots \ {r} : slot'[s] = slot[s]
    BY <1>1, <2>1 DEF newClient, Cleared, SlotRecord, SlotsClean
  <2>3. \A c \in Conns : conn'[c] = IF c = slot[r].tcp THEN Unborn ELSE conn[c]
    BY <1>1, <2>1, ServerAssumption DEF newClient
  <2>4. slot[r].status = "CONNECTED" => slot[r].tcp \in Conns
    BY <1>1 DEF SlotsClean, Cleared, SlotRecord
  <2> QED BY <2>1, <2>2, <2>3, <2>4 DEF newClient
<1>3. CASE noFreeSpace
  BY <1>3 DEF noFreeSpace, Needed
<1>4. CASE Rests
  BY <1>4, <1>1 DEF Rests, Needed
<1>5. CASE Drops
  <2>1. /\ slot'[at].status = "NOT_CONNECTED" /\ ~slot'[at].upgrade
        /\ \A s \in Slots \ {at} : slot'[s] = slot[s]
        /\ \A c \in Conns : conn'[c] = IF c = slot[at].tcp THEN Unborn ELSE conn[c]
    BY <1>1, <1>5 DEF Drops, clientDisconnect, Cleared
  <2> QED BY <1>1, <1>5, <2>1 DEF Drops, Moves
<1>6. CASE Answers
  BY <1>6, <1>1 DEF Answers, Needed, SlotRecord, Moves
<1> QED BY <1>2, <1>3, <1>4, <1>5, <1>6 DEF Shapes

(* Of a slot that was not freed, and of a connection that was not ended,   *)
(* nothing changes.                                                        *)
LEMMA FreeingSpares ==
  ASSUME Inv, NEW r \in Slots,
         \A s \in Slots \ {r} : slot'[s] = slot[s],
         slot'[r].status # "CONNECTED",
         \A c \in Conns : conn'[c] = IF c = slot[r].tcp THEN Unborn ELSE conn[c]
  PROVE  /\ \A s \in Slots : slot'[s].status = "CONNECTED" =>
              /\ s # r /\ slot'[s] = slot[s] /\ slot[s].tcp \in Conns
              /\ slot[s].tcp # slot[r].tcp
              /\ conn'[slot[s].tcp] = conn[slot[s].tcp]
         /\ \A c \in Conns : c # slot[r].tcp => (Talks(c) => Talks(c)')
<1>1. /\ slot \in [Slots -> SlotRecord] /\ SlotsClean /\ OneHolder
  BY DEF Inv, TypeOK
<1>2. ASSUME NEW s \in Slots, slot'[s].status = "CONNECTED"
      PROVE  /\ s # r /\ slot'[s] = slot[s] /\ slot[s].tcp \in Conns
             /\ slot[s].tcp # slot[r].tcp
             /\ conn'[slot[s].tcp] = conn[slot[s].tcp]
  <2>1. s # r /\ slot'[s] = slot[s]
    BY <1>2
  <2>2. slot[s].tcp \in Conns
    BY <1>1, <1>2, <2>1 DEF SlotsClean, Cleared, SlotRecord
  <2>3. slot[s].tcp # slot[r].tcp
    BY <1>1, <2>1, <2>2, ServerAssumption DEF OneHolder
  <2> QED BY <2>1, <2>2, <2>3
<1>3. ASSUME NEW c \in Conns, c # slot[r].tcp, Talks(c) PROVE Talks(c)'
  BY <1>3 DEF Talks
<1> QED BY <1>2, <1>3

(* What reading a line or a part changes. *)
LEMMA ReadingChanges ==
  ASSUME Inv, \/ headerLine \/ headerDone \/ readPart \/ readLast
  PROVE  /\ slot[at].tcp \in Conns /\ ~Gone(slot[at].tcp)
         /\ conn[slot[at].tcp].inbox # <<>>
         /\ conn'[slot[at].tcp].inbox = Tail(conn[slot[at].tcp].inbox)
         /\ conn'[slot[at].tcp].wire = conn[slot[at].tcp].wire
         /\ \A c \in Conns : /\ conn'[c].peer = conn[c].peer /\ conn'[c].kind = conn[c].kind
                             /\ c # slot[at].tcp => conn'[c] = conn[c]
         /\ \A s \in Slots : /\ slot'[s].tcp = slot[s].tcp
                             /\ s # at => slot'[s] = slot[s]
         /\ Stream(slot[at].tcp) # <<>>
         /\ conn'[slot[at].tcp].inbox \o conn'[slot[at].tcp].wire = Tail(Stream(slot[at].tcp))
<1> DEFINE c == slot[at].tcp
<1>1. /\ slot \in [Slots -> SlotRecord] /\ conn \in [Conns -> Connection]
      /\ at \in Slots /\ TypeOK /\ Busy
  BY DEF Inv, TypeOK
<1>2. /\ c \in Conns /\ ~Gone(c) /\ conn[c].inbox # <<>>
      /\ conn' = [conn EXCEPT ![c].inbox = Tail(@)]
  <2>1. CASE headerLine \/ headerDone
    BY <1>1, <2>1, AliveHasOne DEF headerLine, headerDone, Visited, Alive, Received, ReadOne
  <2>2. CASE readPart \/ readLast
    BY <1>1, <2>2, ServerAssumption
       DEF readPart, readLast, Reads, Lost, Received, ReadOne, Busy
  <2> QED BY <2>1, <2>2
<1>3. /\ conn'[c].inbox = Tail(conn[c].inbox) /\ conn'[c].wire = conn[c].wire
      /\ \A d \in Conns : /\ conn'[d].peer = conn[d].peer /\ conn'[d].kind = conn[d].kind
                          /\ d # c => conn'[d] = conn[d]
  BY <1>1, <1>2 DEF Connection
<1>4. \A s \in Slots : /\ slot'[s].tcp = slot[s].tcp
                       /\ s # at => slot'[s] = slot[s]
  BY <1>1 DEF headerLine, headerDone, readPart, readLast, CountRx, SlotRecord
<1>5. Stream(c) # <<>> /\ conn'[c].inbox \o conn'[c].wire = Tail(Stream(c))
  <2> DEFINE a == conn[c].inbox
             w == conn[c].wire
  <2>1. a \in Seq(Parts) /\ w \in Seq(Parts) /\ a # <<>>
    BY <1>1, <1>2 DEF Connection
  <2>2. Stream(c) = a \o w /\ conn'[c].inbox = Tail(a) /\ conn'[c].wire = w
    BY <1>3 DEF Stream
  <2> HIDE DEF a, w
  <2>3. a \o w # <<>> /\ Tail(a) \o w = Tail(a \o w)
    BY <2>1, ReadingShortens
  <2> QED BY <2>2, <2>3
<1> QED BY <1>1, <1>2, <1>3, <1>4, <1>5

LEMMA GoneStep ==
  ASSUME Inv, Shapes
  PROVE  GoneIsEmpty'
<1>1. GoneIsEmpty /\ conn \in [Conns -> Connection]
  BY DEF Inv, TypeOK
<1>2. SUFFICES ASSUME NEW c \in Conns, conn'[c].peer = "gone"
               PROVE  conn'[c].inbox \o conn'[c].wire = <<>>
  BY DEF GoneIsEmpty, Gone, Stream
<1>3. CASE conn'[c] = conn[c]
  BY <1>1, <1>2, <1>3 DEF GoneIsEmpty, Gone, Stream
<1>4. CASE Pages
  <2>1. PICK d \in Conns : \/ \E kind \in {"ws", "http"} : Open(d, kind)
                           \/ \E m \in Messages : Send(d, m)
                           \/ Deliver(d) \/ Leave(d) \/ Vanish(d)
    BY <1>4 DEF Pages
  <2>2. CASE c = d
    <3>1. CASE Deliver(d)
      <4>1. conn[d].wire # <<>> /\ conn[d].peer = "gone"
        BY <1>1, <1>2, <2>2, <3>1 DEF Deliver, Connection
      <4>2. conn[d].inbox \o conn[d].wire = <<>>
        BY <1>1, <4>1 DEF GoneIsEmpty, Gone, Stream
      <4> QED BY <1>1, <4>1, <4>2 DEF Connection
    <3>2. CASE Leave(d)
      BY <1>1, <2>2, <3>2 DEF Leave, Connection
    <3>3. CASE \E kind \in {"ws", "http"} : Open(d, kind)
      BY <1>1, <1>2, <2>2, <3>3 DEF Open
    <3>4. CASE \E m \in Messages : Send(d, m)
      BY <1>1, <1>2, <2>2, <3>4 DEF Send, Connection
    <3>5. CASE Vanish(d)
      BY <1>1, <1>2, <2>2, <3>5 DEF Vanish, Connection
    <3> QED BY <2>1, <3>1, <3>2, <3>3, <3>4, <3>5
  <2> QED BY <1>3, <2>1, <2>2, PagesChange
<1>5. CASE ~Pages
  <2>1. CASE headerLine \/ headerDone \/ readPart \/ readLast
    BY <1>2, <1>3, <2>1, ReadingChanges DEF Gone
  <2>2. CASE setup
    BY <1>2, <2>2 DEF setup, Unborn
  <2> QED BY <1>2, <1>3, <1>5, <2>1, <2>2, ThreadChanges DEF Unborn
<1> QED BY <1>4, <1>5

LEMMA ShorterSuffix ==
  ASSUME NEW k \in {"ws", "http"}, NEW q \in Suffixes(k), q # <<>>
  PROVE  /\ Head(q).name # "blank" => Tail(q) \in Suffixes(k)
         /\ Head(q).name = "blank" => Tail(q) = <<>>
         /\ Head(q).name = "upgrade" => k = "ws"
         /\ Head(q).name \in Lines
<1>1. CASE q = <<Line("blank")>>
  BY <1>1 DEF Line, Lines
<1>2. CASE k = "ws" /\ q = <<Line("get"), Line("upgrade"), Line("blank")>>
  <2>1. Head(q) = Line("get") /\ Tail(q) = <<Line("upgrade"), Line("blank")>>
    BY <1>2
  <2> QED BY <1>2, <2>1 DEF Line, Lines, Suffixes
<1>3. CASE k = "ws" /\ q = <<Line("upgrade"), Line("blank")>>
  <2>1. Head(q) = Line("upgrade") /\ Tail(q) = <<Line("blank")>>
    BY <1>3
  <2> QED BY <1>3, <2>1 DEF Line, Lines, Suffixes
<1>4. CASE k = "http" /\ q = <<Line("get"), Line("blank")>>
  <2>1. Head(q) = Line("get") /\ Tail(q) = <<Line("blank")>>
    BY <1>4
  <2> QED BY <1>4, <2>1 DEF Line, Lines, Suffixes
<1> QED BY <1>1, <1>2, <1>3, <1>4 DEF Suffixes, Handshake

LEMMA AskingStep ==
  ASSUME Inv, Shapes
  PROVE  Asking'
<1> DEFINE Ask(p, k, a, w) ==
      p \in {"here", "silent"} =>
        /\ k \in {"ws", "http"}
        /\ \/ w = <<>> /\ a \in Suffixes(k)
           \/ a = <<>> /\ w = Handshake(k)
<1>1. /\ Asking /\ OneHolder /\ conn \in [Conns -> Connection] /\ at \in Slots
      /\ slot \in [Slots -> SlotRecord]
  BY DEF Inv, TypeOK
<1>2. SUFFICES ASSUME NEW c \in Conns, ~Talks(c)'
               PROVE  Ask(conn'[c].peer, conn'[c].kind, conn'[c].inbox, conn'[c].wire)
  BY DEF Asking
<1>3. ~Talks(c) => Ask(conn[c].peer, conn[c].kind, conn[c].inbox, conn[c].wire)
  BY <1>1 DEF Asking
<1>4. CASE Pages
  <2>1. PICK d \in Conns : \/ \E kind \in {"ws", "http"} : Open(d, kind)
                           \/ \E m \in Messages : Send(d, m)
                           \/ Deliver(d) \/ Leave(d) \/ Vanish(d)
    BY <1>4 DEF Pages
  <2>2. ~Talks(c) /\ (c # d => conn'[c] = conn[c])
    BY <1>2, <2>1, PagesChange DEF Talks
  <2>3. CASE c = d /\ Deliver(d)
    <3> DEFINE w == conn[d].wire
    <3>1. /\ conn'[d].peer = conn[d].peer /\ conn'[d].kind = conn[d].kind /\ w # <<>>
          /\ conn'[d].inbox = conn[d].inbox \o SubSeq(w, 1, Segment(w))
          /\ conn'[d].wire = SubSeq(w, Segment(w) + 1, Len(w))
      BY <1>1, <2>3 DEF Deliver, Connection
    <3>2. CASE conn[d].peer \in {"here", "silent"}
      <4>1. /\ conn[d].kind \in {"ws", "http"} /\ conn[d].inbox = <<>>
            /\ w = Handshake(conn[d].kind)
        BY <1>3, <2>2, <2>3, <3>1, <3>2
      <4>2. w # <<>> /\ Head(w).of = None /\ w \in Seq(Parts)
        <5>1. Head(Handshake(conn[d].kind)) = Line("get")
          BY DEF Handshake
        <5>2. w \in Seq(Parts)
          BY <1>1 DEF Connection
        <5> QED BY <3>1, <4>1, <5>1, <5>2 DEF Line
      <4>3. Segment(w) = Len(w)
        BY <4>2 DEF Segment
      <4> HIDE DEF w
      <4>4. /\ <<>> \o SubSeq(w, 1, Len(w)) = w
            /\ SubSeq(w, Len(w) + 1, Len(w)) = <<>>
        BY <4>2
      <4> QED BY <2>3, <3>1, <4>1, <4>3, <4>4 DEF Suffixes
    <3> QED BY <2>3, <3>1, <3>2
  <2>4. CASE c = d /\ ~Deliver(d)
    <3>1. CASE \E kind \in {"ws", "http"} : Open(d, kind)
      BY <1>1, <2>4, <3>1 DEF Open, Unborn
    <3>2. CASE \E m \in Messages : Send(d, m)
      BY <2>2, <2>4, <3>2 DEF Send
    <3>3. CASE Leave(d)
      BY <1>1, <2>4, <3>3 DEF Leave, Connection
    <3>4. CASE Vanish(d)
      <4>1. /\ conn[d].peer = "here" /\ conn'[d].kind = conn[d].kind
            /\ conn'[d].wire = <<>> /\ conn'[d].inbox = conn[d].inbox
        BY <1>1, <3>4 DEF Vanish, Connection
      <4> QED BY <1>3, <2>2, <2>4, <4>1 DEF Suffixes
    <3> QED BY <2>1, <2>4, <3>1, <3>2, <3>3, <3>4
  <2>5. CASE c # d
    <3>1. conn'[c] = conn[c] /\ ~Talks(c)
      BY <2>2, <2>5
    <3> HIDE DEF Ask
    <3> QED BY <1>3, <3>1
  <2> QED BY <2>3, <2>4, <2>5
<1>5. CASE headerLine \/ headerDone \/ readPart \/ readLast
  <2> DEFINE d == slot[at].tcp
  <2>1. /\ d \in Conns /\ conn[d].inbox # <<>>
        /\ conn'[d].inbox = Tail(conn[d].inbox)
        /\ conn'[d].wire = conn[d].wire /\ conn'[d].peer = conn[d].peer
        /\ conn'[d].kind = conn[d].kind /\ (c # d => conn'[c] = conn[c])
        /\ \A s \in Slots : slot'[s].tcp = slot[s].tcp /\ (s # at => slot'[s] = slot[s])
    BY <1>5, ReadingChanges
  <2>2. slot[at].status = "CONNECTED" => slot'[at].status = "CONNECTED"
    BY <1>1, <1>5 DEF headerLine, headerDone, readPart, readLast, CountRx, Visited, SlotRecord
  <2>3. ~Talks(c)
    <3>1. ASSUME NEW s \in Slots, slot[s].tcp = c, slot[s].status = "CONNECTED" PROVE FALSE
      <4>1. slot'[s].tcp = c /\ slot'[s].status = "CONNECTED"
        BY <2>1, <2>2, <3>1
      <4> QED BY <1>2, <4>1 DEF Talks
    <3> QED BY <3>1 DEF Talks
  <2>4. CASE c # d
    <3>1. conn'[c] = conn[c]
      BY <2>1, <2>4
    <3> HIDE DEF Ask
    <3> QED BY <1>3, <2>3, <3>1
  <2>5. CASE c = d /\ headerLine
    <3>1. Head(conn[d].inbox).name # "blank"
      BY <2>5 DEF headerLine, Received
    <3>2. CASE conn[d].peer \in {"here", "silent"}
      <4>1. /\ conn[d].kind \in {"ws", "http"} /\ conn[d].wire = <<>>
            /\ conn[d].inbox \in Suffixes(conn[d].kind)
        BY <1>3, <2>1, <2>3, <2>5, <3>2
      <4>2. Tail(conn[d].inbox) \in Suffixes(conn[d].kind)
        BY <2>1, <3>1, <4>1, ShorterSuffix
      <4> QED BY <2>1, <2>5, <4>1, <4>2
    <3> QED BY <2>1, <2>5, <3>2
  <2>6. CASE c = d /\ headerDone
    <3>1. slot'[at].tcp = d /\ slot'[at].status = "CONNECTED"
      BY <1>1, <2>6 DEF headerDone, SlotRecord
    <3> QED BY <1>1, <1>2, <2>6, <3>1 DEF Talks
  <2>7. CASE c = d /\ (readPart \/ readLast)
    <3>1. slot[at].status = "CONNECTED"
      BY <2>7 DEF Inv, Busy, readPart, readLast, Reads
    <3> QED BY <1>1, <2>3, <2>7, <3>1 DEF Talks
  <2> QED BY <1>5, <2>4, <2>5, <2>6, <2>7
<1>6. CASE setup
  BY <1>6 DEF setup, Unborn
<1>7. CASE ~Pages /\ ~(headerLine \/ headerDone \/ readPart \/ readLast) /\ ~setup
  <2>1. CASE conn'[c].peer = "none"
    BY <2>1
  <2>2. CASE conn'[c].peer # "none"
    <3>1. conn'[c] = conn[c] /\ ~Talks(c)
      <4>1. CASE \E r \in Slots :
               /\ \A s \in Slots \ {r} : slot'[s] = slot[s]
               /\ slot'[r].status # "CONNECTED"
               /\ \A d \in Conns : conn'[d] = IF d = slot[r].tcp THEN Unborn ELSE conn[d]
        <5>1. PICK r \in Slots :
               /\ \A s \in Slots \ {r} : slot'[s] = slot[s]
               /\ slot'[r].status # "CONNECTED"
               /\ \A d \in Conns : conn'[d] = IF d = slot[r].tcp THEN Unborn ELSE conn[d]
          BY <4>1
        <5>2. c # slot[r].tcp /\ conn'[c] = conn[c]
          BY <2>2, <5>1 DEF Unborn
        <5> QED BY <1>2, <5>1, <5>2, FreeingSpares
      <4>2. CASE /\ conn' = conn
                 /\ \A s \in Slots : slot'[s].tcp = slot[s].tcp /\ slot'[s].status = slot[s].status
        BY <1>2, <4>2 DEF Talks
      <4> QED BY <1>7, <4>1, <4>2, ThreadChanges
    <3> HIDE DEF Ask
    <3> QED BY <1>3, <3>1
  <2> QED BY <2>1, <2>2
<1> QED BY <1>4, <1>5, <1>6, <1>7

LEMMA FlagsStep ==
  ASSUME Inv, Shapes
  PROVE  FlagsAreTrue'
<1>1. /\ FlagsAreTrue /\ OneHolder /\ conn \in [Conns -> Connection] /\ at \in Slots
      /\ slot \in [Slots -> SlotRecord]
  BY DEF Inv, TypeOK
<1>2. SUFFICES ASSUME NEW s \in Slots, slot'[s].upgrade \/ slot'[s].status = "CONNECTED"
               PROVE  slot'[s].tcp \in Conns /\ conn'[slot'[s].tcp].kind # "http"
  BY DEF FlagsAreTrue
<1>3. (slot[s].upgrade \/ slot[s].status = "CONNECTED") =>
        slot[s].tcp \in Conns /\ conn[slot[s].tcp].kind # "http"
  BY <1>1 DEF FlagsAreTrue
<1>4. CASE Pages
  <2>1. PICK d \in Conns : \/ \E kind \in {"ws", "http"} : Open(d, kind)
                           \/ \E m \in Messages : Send(d, m)
                           \/ Deliver(d) \/ Leave(d) \/ Vanish(d)
    BY <1>4 DEF Pages
  <2>2. slot' = slot /\ \A c \in Conns \ {d} : conn'[c] = conn[c]
    BY <2>1, PagesChange
  <2>3. slot[s].tcp \in Conns /\ conn[slot[s].tcp].kind # "http"
    BY <1>2, <1>3, <2>2
  <2>4. CASE slot[s].tcp = d
    <3>1. conn[d].peer # "none"
      BY <1>1, <2>3, <2>4 DEF OneHolder, Served
    <3>2. conn'[d].kind # "http"
      BY <2>1, <2>3, <2>4, <3>1, PagesChange
    <3> QED BY <2>2, <2>3, <2>4, <3>2
  <2> QED BY <2>2, <2>3, <2>4
<1>5. CASE headerLine \/ headerDone \/ readPart \/ readLast
  <2> DEFINE d == slot[at].tcp
  <2>1. /\ d \in Conns /\ conn[d].inbox # <<>> /\ ~Gone(d)
        /\ \A c \in Conns : conn'[c].kind = conn[c].kind
        /\ \A r \in Slots : slot'[r].tcp = slot[r].tcp /\ (r # at => slot'[r] = slot[r])
    BY <1>5, ReadingChanges
  <2>2. CASE s # at
    BY <1>2, <1>3, <2>1, <2>2
  <2>3. CASE s = at /\ (headerDone \/ readPart \/ readLast)
    <3>1. slot[at].upgrade \/ slot[at].status = "CONNECTED"
      BY <1>1, <2>3 DEF headerDone, readPart, readLast, Reads, Inv, Busy
    <3> QED BY <1>3, <2>1, <2>3, <3>1
  <2>4. CASE s = at /\ headerLine
    <3>1. /\ slot[at].status = "HEADER" /\ slot'[at].status = "HEADER"
          /\ slot'[at].upgrade => slot[at].upgrade \/ Head(conn[d].inbox).name = "upgrade"
      BY <1>1, <2>4 DEF headerLine, Visited, Received, SlotRecord
    <3>2. CASE slot[at].upgrade
      BY <1>3, <2>1, <2>4, <3>2
    <3>3. CASE Head(conn[d].inbox).name = "upgrade"
      <4>1. ~Talks(d) /\ conn[d].peer # "none"
        <5>1. \A r \in Slots : slot[r].tcp = d => r = at
          BY <1>1, <2>1, ServerAssumption DEF OneHolder
        <5> QED BY <1>1, <2>1, <3>1, <5>1 DEF Talks, OneHolder, Served
      <4>2. conn[d].peer \in {"here", "silent"}
        BY <1>1, <2>1, <4>1 DEF Connection, Gone
      <4>3. conn[d].inbox \in Suffixes(conn[d].kind) /\ conn[d].kind \in {"ws", "http"}
        BY <2>1, <4>1, <4>2 DEF Inv, Asking
      <4>4. conn[d].kind # "http"
        BY <2>1, <3>3, <4>3 DEF Suffixes, Handshake, Line
      <4> QED BY <2>1, <2>4, <4>4
    <3> QED BY <1>2, <2>4, <3>1, <3>2, <3>3
  <2> QED BY <1>5, <2>2, <2>3, <2>4
<1>6. CASE setup
  BY <1>2, <1>6 DEF setup, Cleared
<1>7. CASE ~Pages /\ ~(headerLine \/ headerDone \/ readPart \/ readLast) /\ ~setup
  <2>1. CASE \E r \in Slots :
          /\ \A q \in Slots \ {r} : slot'[q] = slot[q]
          /\ slot'[r].status # "CONNECTED" /\ ~slot'[r].upgrade
          /\ \A c \in Conns : conn'[c] = IF c = slot[r].tcp THEN Unborn ELSE conn[c]
    <3>1. PICK r \in Slots :
          /\ \A q \in Slots \ {r} : slot'[q] = slot[q]
          /\ slot'[r].status # "CONNECTED" /\ ~slot'[r].upgrade
          /\ \A c \in Conns : conn'[c] = IF c = slot[r].tcp THEN Unborn ELSE conn[c]
      BY <2>1
    <3>2. s # r /\ slot'[s] = slot[s]
      BY <1>2, <3>1
    <3>3. slot[s].tcp \in Conns /\ conn[slot[s].tcp].kind # "http"
      BY <1>2, <1>3, <3>2
    <3>4. slot[s].tcp # slot[r].tcp
      BY <1>1, <3>2, <3>3, ServerAssumption DEF OneHolder
    <3> QED BY <3>1, <3>2, <3>3, <3>4
  <2>2. CASE /\ conn' = conn
             /\ \A q \in Slots : /\ slot'[q].tcp = slot[q].tcp
                                 /\ slot'[q].status = slot[q].status
                                 /\ slot'[q].upgrade = slot[q].upgrade
    BY <1>2, <1>3, <2>2
  <2> QED BY <1>7, <2>1, <2>2, ThreadChanges
<1> QED BY <1>4, <1>5, <1>6, <1>7

(* Speaks is what Talking says of one stream. *)
Speaks(s, c, q) == /\ Good(q)
                   /\ q # <<>> => Fresh(s, q)
                   /\ conn[c].peer = "here" => Whole(s, q)

(* A stream that is left alone speaks on, where the thread needs the same  *)
(* part of it.                                                             *)
LEMMA SpeaksOn ==
  ASSUME Talking, NEW s \in Slots,
         slot[s].status = "CONNECTED", ~Lost(s),
         NEW c, c = slot[s].tcp, conn'[c] = conn[c],
         Needed(s)' = Needed(s), Needed(s) # "head" => msg' = msg
  PROVE  Speaks(s, c, conn[c].inbox \o conn[c].wire)'
<1> DEFINE q == conn[c].inbox \o conn[c].wire
<1>1. Good(q) /\ (q # <<>> => Fresh(s, q)) /\ (conn[c].peer = "here" => Whole(s, q))
  BY DEF Talking, Stream
<1>2. conn'[c].inbox \o conn'[c].wire = q /\ conn'[c].peer = conn[c].peer
  OBVIOUS
<1> HIDE DEF q
<1> QED BY <1>1, <1>2 DEF Speaks, Fresh, Whole

LEMMA TalkingStep ==
  ASSUME Inv, Shapes
  PROVE  Talking'
<1>1. /\ Talking /\ SlotsClean /\ OneHolder /\ Busy /\ conn \in [Conns -> Connection]
      /\ at \in Slots /\ slot \in [Slots -> SlotRecord]
  BY DEF Inv, TypeOK
<1>2. SUFFICES ASSUME NEW s \in Slots, slot'[s].status = "CONNECTED",
                      ~Lost(s)', NEW c, c = slot'[s].tcp
               PROVE  Speaks(s, c, conn[c].inbox \o conn[c].wire)'
  BY DEF Talking, Speaks, Stream
<1>3. CASE Pages
  <2>1. PICK d \in Conns : \/ \E kind \in {"ws", "http"} : Open(d, kind)
                           \/ \E m \in Messages : Send(d, m)
                           \/ Deliver(d) \/ Leave(d) \/ Vanish(d)
    BY <1>3 DEF Pages
  <2>2. /\ UNCHANGED <<slot, pc, at, need, msg>>
        /\ \A b \in Conns \ {d} : conn'[b] = conn[b]
    BY <2>1, PagesChange
  <2>3. Needed(s)' = Needed(s)
    BY <2>2 DEF Needed
  <2>4. c \in Conns /\ c = slot[s].tcp /\ slot[s].status = "CONNECTED"
    BY <1>1, <1>2, <2>2 DEF SlotsClean, Cleared, SlotRecord
  <2>5. CASE c # d
    <3>1. conn'[c] = conn[c] /\ ~Lost(s)
      BY <1>2, <2>2, <2>4, <2>5 DEF Lost, Gone
    <3> QED BY <1>1, <2>2, <2>3, <2>4, <3>1, SpeaksOn
  <2>6. CASE c = d /\ conn[d].peer # "none" /\ conn[d].peer # "gone"
    <3> DEFINE q == conn[d].inbox \o conn[d].wire
    <3>1. /\ Good(q) /\ (q # <<>> => Fresh(s, q))
          /\ conn[d].peer = "here" => Whole(s, q)
      BY <1>1, <2>4, <2>6 DEF Talking, Stream, Lost, Gone
    <3>2. /\ conn[d].inbox \in Seq(Parts) /\ conn[d].wire \in Seq(Parts)
          /\ conn'[d].inbox \in Seq(Parts)
      BY <1>1, ConnType DEF Connection
    <3>3. /\ \A x : Fresh(s, x)' <=> Fresh(s, x)
          /\ \A x : Whole(s, x)' <=> Whole(s, x)
      BY <2>2, <2>3 DEF Fresh, Whole
    <3>4. CASE \E m \in Messages : Send(d, m)
      <4>1. PICK m \in Messages : Send(d, m)
        BY <3>4
      <4>2. /\ conn[d].peer = "here" /\ conn[d].wire = <<>>
            /\ conn'[d].inbox = conn[d].inbox /\ conn'[d].wire = Frame(m)
        BY <1>1, <4>1 DEF Send, Connection
      <4>3. q = conn[d].inbox
        BY <3>2, <4>2
      <4>4. q = <<>> \/ Closes(q[Len(q)])
        BY <3>1, <4>2 DEF Whole
      <4> DEFINE f == Frame(m)
      <4>5. /\ Good(f) /\ f # <<>> /\ f[1].name = "head" /\ Closes(f[Len(f)])
        BY FrameIsGood
      <4> HIDE DEF q, f
      <4>6. /\ Good(q \o f) /\ q \o f # <<>>
            /\ (q \o f)[Len(q \o f)] = f[Len(f)]
            /\ (q \o f)[1] = IF q = <<>> THEN f[1] ELSE q[1]
        BY <3>1, <4>4, <4>5, GoodConcat
      <4>7. Fresh(s, q \o f)
        <5>1. CASE q = <<>>
          <6>1. Needed(s) = "head"
            BY <3>1, <4>2, <5>1 DEF Whole
          <6> QED BY <4>5, <4>6, <5>1, <6>1 DEF Fresh
        <5>2. CASE q # <<>>
          BY <3>1, <4>6, <5>2 DEF Fresh
        <5> QED BY <5>1, <5>2
      <4>8. Whole(s, q \o f)
        BY <4>5, <4>6 DEF Whole
      <4>9. conn'[d].inbox \o conn'[d].wire = q \o f
        BY <4>2, <4>3 DEF f
      <4> QED BY <2>6, <3>3, <4>6, <4>7, <4>8, <4>9 DEF Speaks
    <3>5. CASE Deliver(d)
      <4> DEFINE w == conn[d].wire
      <4>1. /\ conn'[d].peer = conn[d].peer /\ w # <<>>
            /\ conn'[d].inbox = conn[d].inbox \o SubSeq(w, 1, Segment(w))
            /\ conn'[d].wire = SubSeq(w, Segment(w) + 1, Len(w))
        BY <1>1, <3>5 DEF Deliver, Connection
      <4>2. Segment(w) \in 0..Len(w)
        <5>1. Len(w) \in Nat /\ Len(w) > 0
          BY <3>2, <4>1, SMTT(30)
        <5> QED BY <5>1 DEF Segment
      <4>3. conn'[d].inbox \o conn'[d].wire = q
        <5> DEFINE a == conn[d].inbox
                   k == Segment(w)
        <5>1. a \in Seq(Parts) /\ w \in Seq(Parts) /\ k \in 0..Len(w) /\ q = a \o w
          BY <3>2, <4>2
        <5>2. /\ conn'[d].inbox = a \o SubSeq(w, 1, k)
              /\ conn'[d].wire = SubSeq(w, k + 1, Len(w))
          BY <4>1
        <5> HIDE DEF a, w, k, q
        <5>3. (a \o SubSeq(w, 1, k)) \o SubSeq(w, k + 1, Len(w)) = a \o w
          BY <5>1, DeliverKeepsStream, ZenonT(40)
        <5> QED BY <5>1, <5>2, <5>3, Zenon
      <4> HIDE DEF q
      <4> QED BY <2>6, <3>1, <3>3, <4>1, <4>3 DEF Speaks
    <3>6. CASE Vanish(d)
      <4> DEFINE a == conn[d].inbox
                 w == conn[d].wire
      <4>1. /\ conn'[d].peer = "silent" /\ conn'[d].inbox = a /\ conn'[d].wire = <<>>
        BY <1>1, <3>6 DEF Vanish, Connection
      <4>2. conn'[d].inbox \o conn'[d].wire = a
        BY <3>2, <4>1
      <4>3. a \in Seq(Parts) /\ w \in Seq(Parts) /\ Good(a \o w)
        BY <3>1, <3>2
      <4>4. a \o w # <<>> => Fresh(s, a \o w)
        BY <3>1
      <4> HIDE DEF a, w, q
      <4>5. Good(a) /\ (a # <<>> => a \o w # <<>> /\ a[1] = (a \o w)[1])
        BY <4>3, GoodPrefix
      <4>6. a # <<>> => Fresh(s, a)
        BY <4>4, <4>5 DEF Fresh
      <4> QED BY <2>6, <3>3, <4>1, <4>2, <4>5, <4>6 DEF Speaks
    <3>7. CASE Leave(d)
      BY <1>1, <1>2, <2>2, <2>4, <2>6, <3>7, ServerAssumption DEF Leave, Lost, Gone, Connection
    <3>8. CASE \E kind \in {"ws", "http"} : Open(d, kind)
      BY <2>6, <3>8 DEF Open, Unborn
    <3> QED BY <2>1, <3>4, <3>5, <3>6, <3>7, <3>8
  <2>7. CASE c = d /\ conn[d].peer = "none"
    BY <1>1, <2>4, <2>7 DEF OneHolder, Served
  <2>8. CASE c = d /\ conn[d].peer = "gone"
    <3>1. ~(\E kind \in {"ws", "http"} : Open(d, kind))
          /\ ~(\E m \in Messages : Send(d, m)) /\ ~Leave(d) /\ ~Vanish(d)
      BY <2>8 DEF Open, Unborn, Send, Leave, Vanish
    <3>2. conn'[d].peer = "gone"
      BY <1>1, <2>1, <2>8, <3>1 DEF Deliver, Connection
    <3> QED BY <1>2, <2>2, <2>4, <2>8, <3>2, ServerAssumption DEF Lost, Gone
  <2> QED BY <2>5, <2>6, <2>7, <2>8, Zenon
<1>4. CASE readPart \/ readLast
  <2> DEFINE d == slot[at].tcp
             q == Stream(d)
  <2>1. /\ d \in Conns /\ conn'[d].inbox \o conn'[d].wire = Tail(q)
        /\ conn'[d].peer = conn[d].peer
        /\ \A b \in Conns : b # d => conn'[b] = conn[b]
        /\ \A r \in Slots : slot'[r].tcp = slot[r].tcp /\ (r # at => slot'[r] = slot[r])
    BY <1>4, ReadingChanges
  <2>2. pc = "read" /\ ~Lost(at) /\ at' = at /\ msg' = ReadNow /\ slot[at].status = "CONNECTED"
    BY <1>1, <1>4 DEF readPart, readLast, Reads, Busy
  <2>3. CASE s # at
    <3>1. c = slot[s].tcp /\ slot[s].status = "CONNECTED" /\ c \in Conns
      BY <1>1, <1>2, <2>1, <2>3 DEF SlotsClean, Cleared, SlotRecord
    <3>2. conn'[c] = conn[c]
      BY <1>1, <2>1, <2>3, <3>1, ServerAssumption DEF OneHolder
    <3>3. ~Lost(s)
      BY <1>2, <2>1, <3>1, <3>2 DEF Lost, Gone
    <3>4. Needed(s)' = "head" /\ Needed(s) = "head"
      BY <2>2, <2>3 DEF Needed
    <3> QED BY <1>1, <3>1, <3>2, <3>3, <3>4, SpeaksOn
  <2>4. CASE s = at
    <3>1. c = d
      BY <1>2, <2>1, <2>4
    <3>2. PICK n : Reads(n)
      BY <1>4 DEF readPart, readLast
    <3>3. /\ Good(q) /\ q # <<>> /\ q[1] \in MessagePart /\ q[1].name = need
          /\ ReadNow = q[1].of
      BY <3>2, ReadsItsPart
    <3>4. conn[d].peer = "here" => Closes(q[Len(q)])
      BY <1>1, <2>2, <3>3 DEF Talking, Whole
    <3> HIDE DEF q
    <3>5. /\ Good(Tail(q))
          /\ Tail(q) # <<>> => /\ Tail(q)[1].name = NameAfter(q[1])
                               /\ ~Closes(q[1]) => Tail(q)[1].of = q[1].of
                               /\ Tail(q)[Len(Tail(q))] = q[Len(q)]
          /\ Tail(q) = <<>> => q[1] = q[Len(q)]
      BY <3>3, GoodTail
    <3>6. CASE readPart
      <4>1. pc' = "read" /\ need' \in PartNames /\ need' = After(q[1].of, q[1].name)
        BY <3>3, <3>6 DEF readPart, Reads
      <4>2. ~Closes(q[1]) /\ need' = NameAfter(q[1]) /\ need' # "head"
        BY <3>3, <4>1 DEF Closes, NameAfter, After, PartNames, MessagePart
      <4>3. Needed(s)' = need'
        BY <2>2, <2>4, <4>1 DEF Needed
      <4>4. Tail(q) # <<>> => Tail(q)[1].name = need' /\ Tail(q)[1].of = msg'
        BY <2>2, <3>3, <3>5, <4>2
      <4>5. /\ conn[d].peer = "here" => Tail(q) # <<>> /\ Closes(Tail(q)[Len(Tail(q))])
        BY <3>4, <3>5, <4>2
      <4> QED BY <2>1, <3>1, <3>5, <4>3, <4>4, <4>5 DEF Speaks, Fresh, Whole
    <3>7. CASE readLast
      <4>1. pc' = "event" /\ After(q[1].of, q[1].name) = "done"
        BY <3>3, <3>7 DEF readLast, Reads
      <4>2. Closes(q[1]) /\ NameAfter(q[1]) = "head"
        BY <3>3, <4>1 DEF Closes, NameAfter, After, PartNames, MessagePart
      <4>3. Needed(s)' = "head"
        BY <4>1 DEF Needed
      <4>4. Tail(q) # <<>> => Tail(q)[1].name = "head"
        BY <3>5, <4>2
      <4>5. conn[d].peer = "here" /\ Tail(q) # <<>> => Closes(Tail(q)[Len(Tail(q))])
        BY <3>4, <3>5
      <4> QED BY <2>1, <3>1, <3>5, <4>3, <4>4, <4>5 DEF Speaks, Fresh, Whole
    <3> QED BY <1>4, <3>6, <3>7
  <2> QED BY <2>3, <2>4
<1>5. CASE headerLine /\ Moves
  <2>1. /\ slot'[at].status = "HEADER" /\ pc = "visit" /\ pc' # "read"
    BY <1>1, <1>5 DEF headerLine, Visited, Moves, SlotRecord
  <2>2. /\ s # at /\ slot'[s] = slot[s] /\ slot[at].tcp \in Conns
        /\ \A b \in Conns : b # slot[at].tcp => conn'[b] = conn[b]
    BY <1>2, <1>5, <2>1, ReadingChanges
  <2>3. c = slot[s].tcp /\ slot[s].status = "CONNECTED" /\ c \in Conns
    BY <1>1, <1>2, <2>2 DEF SlotsClean, Cleared, SlotRecord
  <2>4. conn'[c] = conn[c]
    BY <1>1, <2>2, <2>3, ServerAssumption DEF OneHolder
  <2>5. ~Lost(s) /\ Needed(s)' = "head" /\ Needed(s) = "head"
    BY <1>2, <2>1, <2>2, <2>3, <2>4 DEF Lost, Gone, Needed
  <2> QED BY <1>1, <2>3, <2>4, <2>5, SpeaksOn
<1>6. CASE headerDone
  <2> DEFINE d == slot[at].tcp
  <2>1. /\ slot[at].status = "HEADER" /\ pc = "visit" /\ pc' = "greet"
        /\ Head(conn[d].inbox).name = "blank"
    BY <1>6 DEF headerDone, Visited, Received
  <2>2. /\ d \in Conns /\ ~Gone(d) /\ conn[d].inbox # <<>>
        /\ conn'[d].inbox = Tail(conn[d].inbox) /\ conn'[d].wire = conn[d].wire
        /\ \A b \in Conns : b # d => conn'[b] = conn[b]
        /\ \A r \in Slots : slot'[r].tcp = slot[r].tcp /\ (r # at => slot'[r] = slot[r])
    BY <1>6, ReadingChanges
  <2>3. Needed(s)' = "head" /\ Needed(s) = "head"
    BY <2>1 DEF Needed
  <2>4. CASE s = at
    <3>1. ~Talks(d) /\ conn[d].peer # "none"
      <4>1. \A r \in Slots : slot[r].tcp = d => r = at
        BY <1>1, <2>2, ServerAssumption DEF OneHolder
      <4> QED BY <1>1, <2>1, <2>2, <4>1 DEF Talks, OneHolder, Served
    <3>2. conn[d].peer \in {"here", "silent"}
      BY <1>1, <2>2, <3>1 DEF Connection, Gone
    <3>3. /\ conn[d].kind \in {"ws", "http"} /\ conn[d].wire = <<>>
          /\ conn[d].inbox \in Suffixes(conn[d].kind)
      BY <2>2, <3>1, <3>2 DEF Inv, Asking
    <3>4. Tail(conn[d].inbox) = <<>>
      BY <2>1, <2>2, <3>3, ShorterSuffix
    <3>5. conn'[d].inbox \o conn'[d].wire = <<>>
      BY <2>2, <3>3, <3>4
    <3>6. Good(<<>>)
      BY DEF Good
    <3>7. c = d
      BY <1>2, <2>2, <2>4
    <3> QED BY <2>3, <3>5, <3>6, <3>7 DEF Speaks, Whole
  <2>5. CASE s # at
    <3>1. c = slot[s].tcp /\ slot[s].status = "CONNECTED" /\ c \in Conns
      BY <1>1, <1>2, <2>2, <2>5 DEF SlotsClean, Cleared, SlotRecord
    <3>2. conn'[c] = conn[c]
      BY <1>1, <2>2, <2>5, <3>1, ServerAssumption DEF OneHolder
    <3>3. ~Lost(s)
      BY <1>2, <2>2, <3>1, <3>2 DEF Lost, Gone
    <3> QED BY <1>1, <2>3, <3>1, <3>2, <3>3, SpeaksOn
  <2> QED BY <2>4, <2>5
<1>7. CASE setup
  BY <1>2, <1>7 DEF setup, Cleared
<1>8. CASE ~Pages /\ ~(headerLine /\ Moves) /\ ~headerDone /\ ~readPart /\ ~readLast /\ ~setup
  <2>1. CASE \E r \in Slots :
          /\ pc = "read" => r = at
          /\ pc' \in {"accept", "visit", "show"}
          /\ \A q \in Slots \ {r} : slot'[q] = slot[q]
          /\ slot'[r].status # "CONNECTED"
          /\ \A b \in Conns : conn'[b] = IF b = slot[r].tcp THEN Unborn ELSE conn[b]
    <3>1. PICK r \in Slots :
          /\ pc = "read" => r = at
          /\ pc' \in {"accept", "visit", "show"}
          /\ \A q \in Slots \ {r} : slot'[q] = slot[q]
          /\ slot'[r].status # "CONNECTED"
          /\ \A b \in Conns : conn'[b] = IF b = slot[r].tcp THEN Unborn ELSE conn[b]
      BY <2>1
    <3>2. /\ s # r /\ slot'[s] = slot[s] /\ slot[s].tcp \in Conns
          /\ conn'[slot[s].tcp] = conn[slot[s].tcp]
      BY <1>2, <3>1, FreeingSpares
    <3>3. Needed(s)' = "head" /\ Needed(s) = "head"
      BY <3>1, <3>2 DEF Needed
    <3>4. ~Lost(s) /\ c = slot[s].tcp /\ slot[s].status = "CONNECTED"
      BY <1>2, <3>2 DEF Lost, Gone
    <3> QED BY <1>1, <3>2, <3>3, <3>4, SpeaksOn
  <2>2. CASE /\ \A r \in Slots : /\ slot'[r].tcp = slot[r].tcp
                                 /\ slot'[r].status = slot[r].status
             /\ conn' = conn
             /\ \A r \in Slots : ~Lost(r) => Needed(r) = "head"
             /\ pc' = "read" => need' = "head"
    <3>1. ~Lost(s) /\ c = slot[s].tcp /\ slot[s].status = "CONNECTED"
      BY <1>2, <2>2 DEF Lost, Gone
    <3>2. Needed(s)' = "head" /\ Needed(s) = "head"
      BY <2>2, <3>1 DEF Needed
    <3> QED BY <1>1, <2>2, <3>1, <3>2, SpeaksOn
  <2> QED BY <1>8, <2>1, <2>2, ThreadChanges
<1> QED BY <1>3, <1>4, <1>5, <1>6, <1>7, <1>8

(***************************************************************************)
(* The invariant is inductive.                                             *)
(***************************************************************************)
IInv == Inv /\ ShownUnlessPending /\ StoredIsLast

LEMMA InvInit ==
  ASSUME Init
  PROVE  IInv
<1>1. DataOK /\ ShownUnlessPending /\ StoredIsLast
  BY DataInit
<1>2. /\ 0 \in Slots /\ None \notin Conns
      /\ Cleared \in SlotRecord /\ Cleared.tcp = None /\ Cleared.rx = 0
      /\ Cleared.status = "NOT_CONNECTED" /\ ~Cleared.upgrade
  BY ServerAssumption DEF Slots, Cleared, SlotRecord
<1>3. Unborn \in Connection /\ Unborn.peer = "none"
  BY DEF Unborn, Connection
<1>4. TypeOK
  BY <1>1, <1>2, <1>3 DEF Init, TypeOK, DataOK, PartNames
<1>5. SlotsClean /\ Busy /\ NoWedgedSlot /\ RxCounts /\ MsgIsOne
  BY <1>2 DEF Init, SlotsClean, Busy, NoWedgedSlot, RxCounts, MsgIsOne
<1>6. OneHolder
  BY <1>2, <1>3 DEF Init, OneHolder, Waits, Served
<1>7. Asking /\ GoneIsEmpty
  BY <1>3 DEF Init, Asking, GoneIsEmpty, Gone
<1>8. FlagsAreTrue /\ Talking
  BY <1>2 DEF Init, FlagsAreTrue, Talking
<1> QED BY <1>1, <1>4, <1>5, <1>6, <1>7, <1>8 DEF IInv, Inv

LEMMA InvStep ==
  ASSUME IInv, [Next]_vars
  PROVE  IInv'
<1>1. Inv /\ ShownUnlessPending /\ StoredIsLast /\ DataOK
  BY DEF IInv, Inv, TypeOK, DataOK
<1>2. DataOK' /\ ShownUnlessPending' /\ StoredIsLast'
  BY <1>1, DataStep
<1>3. CASE Next
  <2>1. Shapes
    BY <1>1, <1>3, StepHasShape
  <2>2. ControlOK' /\ conn' \in [Conns -> Connection]
    BY <1>1, <2>1, ControlType, ConnType
  <2>3. TypeOK' /\ RxCounts' /\ MsgIsOne'
    BY <1>2, <2>2 DEF ControlOK, DataOK, TypeOK
  <2>4. SlotsClean' /\ Busy' /\ NoWedgedSlot' /\ OneHolder'
    BY <1>1, <2>1, SlotsStep, HolderStep
  <2>5. Asking' /\ FlagsAreTrue' /\ Talking' /\ GoneIsEmpty'
    BY <1>1, <2>1, AskingStep, FlagsStep, TalkingStep, GoneStep
  <2> QED BY <1>2, <2>3, <2>4, <2>5 DEF IInv, Inv
<1>4. CASE UNCHANGED vars
  <2>1. /\ conn' = conn /\ backlog' = backlog /\ slot' = slot /\ pc' = pc /\ at' = at
        /\ need' = need /\ msg' = msg /\ leds' = leds /\ newWsData' = newWsData
        /\ strip' = strip /\ eeprom' = eeprom /\ saved' = saved
    BY <1>4 DEF vars, readers, lights, store
  <2>2. TypeOK' /\ SlotsClean' /\ RxCounts' /\ MsgIsOne' /\ Busy'
    BY <1>1, <2>1 DEF Inv, TypeOK, SlotsClean, RxCounts, MsgIsOne, Busy
  <2>3. OneHolder' /\ NoWedgedSlot' /\ GoneIsEmpty'
    BY <1>1, <2>1 DEF Inv, OneHolder, Waits, Served, NoWedgedSlot, Lost, Gone,
                      GoneIsEmpty, Stream
  <2>4. Asking' /\ FlagsAreTrue'
    BY <1>1, <2>1 DEF Inv, Asking, Talks, FlagsAreTrue
  <2>5. Talking'
    BY <1>1, <2>1 DEF Inv, Talking, Lost, Gone, Stream, Fresh, Whole, Needed
  <2> QED BY <1>2, <2>2, <2>3, <2>4, <2>5 DEF IInv, Inv
<1> QED BY <1>3, <1>4

LEMMA InvIsInvariant == Spec => []IInv
<1>1. Init => IInv
  BY InvInit
<1>2. IInv /\ [Next]_vars => IInv'
  BY InvStep
<1> QED BY <1>1, <1>2, PTL DEF Spec

LEMMA InvInSync == ASSUME Inv PROVE InSync
<1>1. SUFFICES ASSUME NEW s \in Slots, Alive(s), Stream(slot[s].tcp) # <<>>,
                      ~(pc = "event" /\ at = s)
               PROVE  Head(Stream(slot[s].tcp)).name \in Expected(s)
  BY DEF InSync
<1> DEFINE c == slot[s].tcp
<1>2. /\ c \in Conns /\ ~Lost(s) /\ slot[s].status \in {"HEADER", "CONNECTED"}
      /\ conn[c] \in Connection
  BY <1>1, AliveHasOne DEF Alive, Lost, Inv, TypeOK, SlotRecord
<1>3. CASE slot[s].status = "CONNECTED"
  <2>1. Good(Stream(c)) /\ Fresh(s, Stream(c))
    BY <1>1, <1>2, <1>3 DEF Inv, Talking
  <2>2. Head(Stream(c)) = Stream(c)[1]
    BY <1>1, <2>1 DEF Good
  <2> QED BY <1>3, <2>1, <2>2 DEF Fresh, Needed, Expected
<1>4. CASE slot[s].status = "HEADER"
  <2>1. ~Talks(c) /\ conn[c].peer # "none"
    <3>1. \A r \in Slots : slot[r].tcp = c => r = s
      BY <1>2, ServerAssumption DEF Inv, OneHolder
    <3>2. Served(c)
      BY DEF Served
    <3> QED BY <1>2, <1>4, <3>1, <3>2 DEF Talks, Inv, OneHolder
  <2>2. conn[c].peer \in {"here", "silent"}
    BY <1>1, <1>2, <2>1 DEF Connection, Alive, Gone
  <2>3. /\ conn[c].kind \in {"ws", "http"}
        /\ \/ conn[c].wire = <<>> /\ conn[c].inbox \in Suffixes(conn[c].kind)
           \/ conn[c].inbox = <<>> /\ conn[c].wire = Handshake(conn[c].kind)
    BY <1>2, <2>1, <2>2 DEF Inv, Asking
  <2>4. Stream(c) \in Suffixes(conn[c].kind)
    <3>1. conn[c].inbox \in Seq(Parts) /\ conn[c].wire \in Seq(Parts)
      BY <1>2 DEF Connection
    <3>2. CASE conn[c].wire = <<>> /\ conn[c].inbox \in Suffixes(conn[c].kind)
      <4>1. Stream(c) = conn[c].inbox
        BY <3>1, <3>2 DEF Stream
      <4> QED BY <3>2, <4>1
    <3>3. CASE conn[c].inbox = <<>> /\ conn[c].wire = Handshake(conn[c].kind)
      <4>1. Stream(c) = conn[c].wire
        BY <3>1, <3>3 DEF Stream
      <4> QED BY <3>3, <4>1 DEF Suffixes
    <3> QED BY <2>3, <3>2, <3>3
  <2>5. Head(Stream(c)).name \in Lines
    BY <1>1, <2>3, <2>4, ShorterSuffix
  <2> QED BY <1>4, <2>5 DEF Expected
<1> QED BY <1>2, <1>3, <1>4

(***************************************************************************)
(* The theorems.                                                           *)
(***************************************************************************)

(* Every state has its type: the counter of header parts stays within the  *)
(* header, the slot that is visited exists, what is applied is a message   *)
(* and what is stored a text (setup, loop, webSocketEvent of LedX3.ino).   *)
THEOREM TypeCorrect == Spec => []TypeOK
<1>1. IInv => TypeOK
  BY DEF IInv, Inv
<1> QED BY <1>1, InvIsInvariant, PTL

(* However many pages come and go, a connection is held by the backlog or  *)
(* by one slot, and by nothing else (handleNewClient, newClient,           *)
(* clientDisconnect, and the teardown inside remoteIP).                    *)
THEOREM HolderIsOne == Spec => []OneHolder
<1>1. IInv => OneHolder
  BY DEF IInv, Inv
<1> QED BY <1>1, InvIsInvariant, PTL

(* No slot is left with a part of a header that makes handleWebsocket      *)
(* ignore it for good.                                                     *)
THEOREM NoSlotIsWedged == Spec => []NoWedgedSlot
<1>1. IInv => NoWedgedSlot
  BY DEF IInv, Inv
<1> QED BY <1>1, InvIsInvariant, PTL

(* A connection that asked for no upgrade never becomes a WebSocket, in    *)
(* whatever slot it comes to lie (handleHeader, newClient).                *)
THEOREM AskersTalk == Spec => []OnlyAskersTalk
<1>1. ASSUME Inv PROVE OnlyAskersTalk
  BY <1>1 DEF Inv, FlagsAreTrue, OnlyAskersTalk, Talks
<1>2. IInv => OnlyAskersTalk
  BY <1>1 DEF IInv
<1> QED BY <1>2, InvIsInvariant, PTL

(* The thread and the stream of a page agree on the next part, whatever    *)
(* ended in the middle of one before (handleWebsocketCb, readCb).          *)
THEOREM StreamsInSync == Spec => []InSync
<1>1. IInv => InSync
  BY InvInSync DEF IInv
<1> QED BY <1>1, InvIsInvariant, PTL

(* No frame that arrived last is dropped between webSocketEvent and show.  *)
THEOREM LastFrameIsPending == Spec => []ShownUnlessPending
<1>1. IInv => ShownUnlessPending
  BY DEF IInv
<1> QED BY <1>1, InvIsInvariant, PTL

(* For every size of the EEPROM and every text that fits, the template     *)
(* that is read is the one that was stored last, across restarts.          *)
THEOREM LastTextIsStored == Spec => []StoredIsLast
<1>1. IInv => StoredIsLast
  BY DEF IInv
<1> QED BY <1>1, InvIsInvariant, PTL

(***************************************************************************)
(* The device implements Session.  The messages that are under way are     *)
(* read off a stream by a function over its length, so what it gives for   *)
(* two streams put together is proved by induction, with a set of numbers  *)
(* in the place of a predicate.                                            *)
(***************************************************************************)
LEMMA LeastOfNat ==
  ASSUME NEW T \in SUBSET Nat, T # {}
  PROVE  \E x \in T : \A y \in T : x \leq y
<1> DEFINE R == OpToRel(<, Nat)
<1>1. IsWellFoundedOn(R, Nat)
  BY NatLessThanWellFounded
<1>2. PICK x \in T : \A y \in T : <<y, x>> \notin R
  <2> HIDE DEF R
  <2> QED BY <1>1, WFMin
<1>3. \A y \in T : ~(y < x)
  BY <1>2 DEF OpToRel
<1> QED BY <1>3

LEMMA SetInduction ==
  ASSUME NEW S \in SUBSET Nat, 0 \in S, \A n \in S : n + 1 \in S
  PROVE  S = Nat
<1> SUFFICES ASSUME S # Nat PROVE FALSE
  OBVIOUS
<1>1. PICK x \in Nat \ S : \A y \in Nat \ S : x \leq y
  BY LeastOfNat
<1>2. x # 0 /\ x - 1 \in Nat
  OBVIOUS
<1>3. x - 1 \in S
  BY <1>1, <1>2
<1> QED BY <1>2, <1>3

(* One more part, and what the messages begun so far become by it.         *)
Begun(h, p) == IF p.name = "head" THEN Append(h, p.of) ELSE h

(* f counts the heads of q up to n.                                        *)
CountsHeads(f, q, n) ==
  /\ f[0] = <<>>
  /\ \A i \in 1..n : f[i] = Begun(f[i - 1], q[i])

LEMMA HeadsAre ==
  ASSUME NEW q, Len(q) \in Nat, NEW f, CountsHeads(f, q, Len(q))
  PROVE  Heads(q) = f[Len(q)]
<1> DEFINE upTo == CHOOSE u : u = [n \in 0..Len(q) |->
              IF n = 0 THEN <<>>
              ELSE IF q[n].name = "head" THEN Append(u[n - 1], q[n].of)
              ELSE u[n - 1]]
           g == [n \in 0..Len(q) |-> f[n]]
           U == {n \in Nat : n \leq Len(q) => upTo[n] = f[n]}
<1>1. Heads(q) = upTo[Len(q)]
  BY DEF Heads
<1>2. upTo = [n \in 0..Len(q) |->
                IF n = 0 THEN <<>>
                ELSE IF q[n].name = "head" THEN Append(upTo[n - 1], q[n].of)
                ELSE upTo[n - 1]]
  <2>1. ASSUME NEW n \in 0..Len(q)
        PROVE  g[n] = IF n = 0 THEN <<>>
                      ELSE IF q[n].name = "head" THEN Append(g[n - 1], q[n].of)
                      ELSE g[n - 1]
    <3>1. CASE n = 0
      BY <3>1 DEF CountsHeads
    <3>2. CASE n # 0
      <4>1. n \in 1..Len(q) /\ g[n] = f[n] /\ g[n - 1] = f[n - 1]
        BY <3>2
      <4>2. f[n] = Begun(f[n - 1], q[n])
        BY <4>1 DEF CountsHeads
      <4> QED BY <3>2, <4>1, <4>2 DEF Begun
    <3> QED BY <3>1, <3>2
  <2>2. g = [n \in 0..Len(q) |->
               IF n = 0 THEN <<>>
               ELSE IF q[n].name = "head" THEN Append(g[n - 1], q[n].of)
               ELSE g[n - 1]]
    BY <2>1
  <2> HIDE DEF g
  <2> QED BY <2>2
<1> HIDE DEF upTo
<1>3. 0 \in U
  BY <1>2 DEF CountsHeads
<1>4. ASSUME NEW n \in U PROVE n + 1 \in U
  <2> SUFFICES ASSUME n + 1 \leq Len(q) PROVE upTo[n + 1] = f[n + 1]
    OBVIOUS
  <2>1. /\ n + 1 \in 1..Len(q) /\ n + 1 \in 0..Len(q) /\ n + 1 # 0
        /\ (n + 1) - 1 = n /\ upTo[n] = f[n]
    OBVIOUS
  <2> HIDE DEF U
  <2>2. upTo[n + 1] = Begun(upTo[n], q[n + 1])
    BY <2>1, <1>2 DEF Begun
  <2>3. f[n + 1] = Begun(f[n], q[n + 1])
    BY <2>1 DEF CountsHeads
  <2> QED BY <2>1, <2>2, <2>3
<1>5. Len(q) \in U
  <2>1. U \in SUBSET Nat
    OBVIOUS
  <2> HIDE DEF U
  <2> QED BY <2>1, <1>3, <1>4, SetInduction
<1> QED BY <1>1, <1>5

LEMMA HeadsExist ==
  ASSUME NEW M, NEW P, \A x \in P : x.of \in M, NEW q \in Seq(P)
  PROVE  \E f \in [0..Len(q) -> Seq(M)] : CountsHeads(f, q, Len(q))
<1> DEFINE T == {n \in Nat : n \leq Len(q) =>
                   \E f \in [0..n -> Seq(M)] : CountsHeads(f, q, n)}
<1>0. Len(q) \in Nat
  BY LenProperties
<1>1. 0 \in T
  <2>1. [i \in 0..0 |-> <<>>] \in [0..0 -> Seq(M)]
    OBVIOUS
  <2>2. CountsHeads([i \in 0..0 |-> <<>>], q, 0)
    BY DEF CountsHeads
  <2> QED BY <2>1, <2>2
<1>2. ASSUME NEW n \in T PROVE n + 1 \in T
  <2> SUFFICES ASSUME n + 1 \leq Len(q)
               PROVE  \E f \in [0..n + 1 -> Seq(M)] : CountsHeads(f, q, n + 1)
    OBVIOUS
  <2>1. PICK g \in [0..n -> Seq(M)] : CountsHeads(g, q, n)
    BY <1>0
  <2> DEFINE h == Begun(g[n], q[n + 1])
             f == [i \in 0..n + 1 |-> IF i = n + 1 THEN h ELSE g[i]]
  <2>2. h \in Seq(M)
    <3>1. n + 1 \in 1..Len(q) /\ n \in 0..n
      BY <1>0
    <3>2. q[n + 1] \in P
      BY <3>1, ElementOfSeq
    <3>3. q[n + 1].of \in M
      BY <3>2
    <3>4. g[n] \in Seq(M)
      BY <3>1
    <3> QED BY <3>3, <3>4 DEF Begun
  <2> HIDE DEF h
  <2>3. f \in [0..n + 1 -> Seq(M)]
    BY <2>2
  <2>4. CountsHeads(f, q, n + 1)
    <3>1. f[0] = <<>>
      BY <2>1 DEF CountsHeads
    <3>2. ASSUME NEW i \in 1..n + 1 PROVE f[i] = Begun(f[i - 1], q[i])
      <4>1. CASE i = n + 1
        <5>1. f[i] = h /\ f[i - 1] = g[n] /\ q[i] = q[n + 1]
          BY <4>1
        <5> HIDE DEF f
        <5> QED BY <5>1 DEF h
      <4>2. CASE i # n + 1
        <5>1. i \in 1..n /\ f[i] = g[i] /\ f[i - 1] = g[i - 1]
          BY <4>2
        <5> HIDE DEF f
        <5> QED BY <5>1, <2>1 DEF CountsHeads
      <4> QED BY <4>1, <4>2
    <3> HIDE DEF f
    <3> QED BY <3>1, <3>2 DEF CountsHeads
  <2> HIDE DEF f
  <2> QED BY <2>3, <2>4
<1>3. Len(q) \in T
  <2>1. T \in SUBSET Nat
    OBVIOUS
  <2> HIDE DEF T
  <2> QED BY <2>1, <1>0, <1>1, <1>2, SetInduction
<1> QED BY <1>0, <1>3

(* The messages begun in a stream are sequences of messages, and those of  *)
(* two streams put together are those of the one and then of the other.    *)
LEMMA HeadsType ==
  ASSUME NEW M, NEW P, \A x \in P : x.of \in M, NEW q \in Seq(P)
  PROVE  Heads(q) \in Seq(M)
<1>1. Len(q) \in Nat
  BY LenProperties
<1>2. PICK f \in [0..Len(q) -> Seq(M)] : CountsHeads(f, q, Len(q))
  BY HeadsExist
<1>3. Heads(q) = f[Len(q)]
  BY <1>1, <1>2, HeadsAre
<1> QED BY <1>1, <1>3

LEMMA ConcatAppend ==
  ASSUME NEW M, NEW s \in Seq(M), NEW t \in Seq(M), NEW x \in M
  PROVE  s \o Append(t, x) = Append(s \o t, x)
<1>1. /\ s \o Append(t, x) \in Seq(M) /\ Append(s \o t, x) \in Seq(M)
      /\ Len(s \o Append(t, x)) = Len(Append(s \o t, x))
  OBVIOUS
<1>2. ASSUME NEW i \in 1..Len(s \o Append(t, x))
      PROVE  (s \o Append(t, x))[i] = Append(s \o t, x)[i]
  OBVIOUS
<1> QED BY <1>1, <1>2, SeqEqual

LEMMA HeadsConcat ==
  ASSUME NEW P, NEW a \in Seq(P), NEW b \in Seq(P)
  PROVE  Heads(a \o b) = Heads(a) \o Heads(b)
<1> DEFINE M == {x.of : x \in P}
<1>m. \A x \in P : x.of \in M
  OBVIOUS
<1> HIDE DEF M
<1> DEFINE q == a \o b
           m == Len(a)
           n == Len(b)
<1>0. /\ m \in Nat /\ n \in Nat /\ Len(q) = m + n
      /\ \A i \in 1..m : q[i] = a[i]
      /\ \A i \in 1..n : q[m + i] = b[i]
  BY LenProperties, ConcatProperties
<1>1. PICK f \in [0..m -> Seq(M)] : CountsHeads(f, a, m)
  BY <1>m, HeadsExist
<1>2. PICK g \in [0..n -> Seq(M)] : CountsHeads(g, b, n)
  BY <1>m, HeadsExist
<1>3. Heads(a) = f[m] /\ Heads(b) = g[n]
  BY <1>0, <1>1, <1>2, HeadsAre
<1>4. f[m] \in Seq(M) /\ \A i \in 0..n : g[i] \in Seq(M)
  <2>1. m \in 0..m
    BY <1>0
  <2> HIDE DEF m, n
  <2> QED BY <1>1, <1>2, <2>1
<1> DEFINE h == [i \in 0..(m + n) |-> IF i \leq m THEN f[i] ELSE f[m] \o g[i - m]]
<1> HIDE DEF q, m, n
<1>5. h[0] = <<>> /\ h[m] = f[m]
  BY <1>0, <1>1 DEF CountsHeads
<1>6. ASSUME NEW i \in 0..n PROVE h[m + i] = f[m] \o g[i]
  <2>1. CASE i = 0
    <3>1. g[i] = <<>> /\ h[m + i] = f[m]
      BY <2>1, <1>0, <1>2 DEF CountsHeads
    <3> QED BY <3>1, <1>4, ConcatEmptySeq
  <2>2. CASE i # 0
    <3>1. m + i \in 0..(m + n) /\ ~(m + i \leq m) /\ (m + i) - m = i
      BY <2>2, <1>0
    <3> QED BY <3>1
  <2> QED BY <2>1, <2>2
<1>7. ASSUME NEW i \in 1..(m + n) PROVE h[i] = Begun(h[i - 1], q[i])
  <2>1. CASE i \leq m
    <3>1. i \in 1..m /\ h[i] = f[i] /\ h[i - 1] = f[i - 1] /\ q[i] = a[i]
      BY <2>1, <1>0
    <3> HIDE DEF h
    <3> QED BY <3>1, <1>1 DEF CountsHeads
  <2>2. CASE ~(i \leq m)
    <3>1. /\ i - m \in 1..n /\ m + (i - m) = i
          /\ (i - m) - 1 \in 0..n /\ m + ((i - m) - 1) = i - 1
      BY <2>2, <1>0
    <3> HIDE DEF h
    <3> DEFINE j == i - m
    <3>2. j \in 1..n /\ j \in 0..n /\ m + j = i /\ j - 1 \in 0..n /\ m + (j - 1) = i - 1
      BY <3>1, <1>0
    <3> HIDE DEF j
    <3>3. /\ h[i] = f[m] \o g[j] /\ h[i - 1] = f[m] \o g[j - 1]
          /\ q[i] = b[j] /\ g[j] = Begun(g[j - 1], b[j])
      BY <3>2, <1>0, <1>2, <1>6 DEF CountsHeads
    <3>4. b[j].of \in M
      <4>1. b[j] \in P
        BY <3>2, ElementOfSeq DEF n
      <4> QED BY <4>1, <1>m
    <3>5. f[m] \o Append(g[j - 1], b[j].of) = Append(f[m] \o g[j - 1], b[j].of)
      <4>1. g[j - 1] \in Seq(M)
        BY <3>2, <1>4
      <4> DEFINE s == f[m]
                 t == g[j - 1]
                 x == b[j].of
      <4>2. s \in Seq(M) /\ t \in Seq(M) /\ x \in M
        BY <4>1, <3>4, <1>4
      <4> HIDE DEF s, t, x
      <4>3. s \o Append(t, x) = Append(s \o t, x)
        BY <4>2, ConcatAppend
      <4> QED BY <4>3 DEF s, t, x
    <3> QED BY <3>3, <3>5 DEF Begun
  <2> QED BY <2>1, <2>2
<1>8. CountsHeads(h, q, Len(q))
  <2> HIDE DEF h
  <2> QED BY <1>0, <1>5, <1>7 DEF CountsHeads
<1> HIDE DEF h
<1>9. h[m + n] = f[m] \o g[n]
  <2>1. n \in 0..n
    BY <1>0
  <2> QED BY <1>6, <2>1
<1>10. Heads(q) = h[m + n]
  <2>1. Len(q) \in Nat
    BY <1>0
  <2>2. Heads(q) = h[Len(q)]
    BY <2>1, <1>8, HeadsAre
  <2> QED BY <1>0, <2>2
<1> QED BY <1>3, <1>9, <1>10 DEF q, m, n

LEMMA HeadsOfOne ==
  ASSUME NEW p
  PROVE  /\ Heads(<<>>) = <<>>
         /\ Heads(<<p>>) = IF p.name = "head" THEN <<p.of>> ELSE <<>>
<1>1. Heads(<<>>) = <<>>
  <2>1. CountsHeads([i \in 0..0 |-> <<>>], <<>>, 0)
    BY DEF CountsHeads
  <2>2. Len(<<>>) = 0
    OBVIOUS
  <2> QED BY <2>1, <2>2, HeadsAre
<1>2. Heads(<<p>>) = Begun(<<>>, p)
  <2> DEFINE f == [i \in 0..1 |-> IF i = 0 THEN <<>> ELSE Begun(<<>>, p)]
             q == <<p>>
  <2>1. f[0] = <<>> /\ f[1] = Begun(<<>>, p) /\ Len(q) = 1 /\ q[1] = p
    OBVIOUS
  <2>2. \A i \in 1..1 : i = 1 /\ i - 1 = 0
    OBVIOUS
  <2> HIDE DEF f, q
  <2>3. CountsHeads(f, q, Len(q))
    BY <2>1, <2>2 DEF CountsHeads
  <2>4. Heads(q) = f[1]
    <3>1. Len(q) \in Nat
      BY <2>1
    <3>2. Heads(q) = f[Len(q)]
      BY <3>1, <2>3, HeadsAre
    <3> QED BY <2>1, <3>2
  <2> QED BY <2>1, <2>4 DEF q
<1> QED BY <1>1, <1>2 DEF Begun

(* A stream of which no part is a head, and what a page sends as a message.*)
LEMMA HeadsOfNone ==
  ASSUME NEW P, NEW q \in Seq(P),
         \A i \in 1..Len(q) : q[i].name # "head"
  PROVE  Heads(q) = <<>>
<1>1. Len(q) \in Nat
  BY LenProperties
<1> DEFINE f == [i \in 0..Len(q) |-> <<>>]
<1>2. CountsHeads(f, q, Len(q))
  BY <1>1 DEF CountsHeads, Begun
<1>3. f[Len(q)] = <<>>
  BY <1>1
<1> HIDE DEF f
<1> QED BY <1>1, <1>2, <1>3, HeadsAre

LEMMA Uncons ==
  ASSUME NEW P, NEW q \in Seq(P), q # <<>>
  PROVE  /\ q[1] \in P /\ Tail(q) \in Seq(P) /\ <<q[1]>> \in Seq(P)
         /\ q = <<q[1]>> \o Tail(q)
<1>1. Len(q) \in Nat /\ Len(q) > 0 /\ Tail(q) \in Seq(P)
  OBVIOUS
<1>2. q[1] \in P
  <2>1. 1 \in 1..Len(q)
    BY <1>1
  <2> QED BY <2>1, ElementOfSeq
<1> DEFINE r == <<q[1]>> \o Tail(q)
<1>3. r \in Seq(P) /\ Len(r) = Len(q) /\ \A i \in 1..Len(q) : r[i] = q[i]
  BY <1>1, <1>2
<1>4. r = q
  <2> HIDE DEF r
  <2> QED BY <1>3, SeqEqual
<1> QED BY <1>1, <1>2, <1>4

LEMMA HeadsOfTail ==
  ASSUME NEW P, NEW q \in Seq(P), q # <<>>
  PROVE  Heads(q) = (IF q[1].name = "head" THEN <<q[1].of>> ELSE <<>>)
                    \o Heads(Tail(q))
<1> DEFINE p == q[1]
           u == <<q[1]>>
           t == Tail(q)
<1>1. /\ p \in P /\ q = u \o t
      /\ t \in Seq(P) /\ u \in Seq(P)
  BY Uncons
<1>2. Heads(u) = IF p.name = "head" THEN <<p.of>> ELSE <<>>
  <2>1. u = <<p>>
    OBVIOUS
  <2> HIDE DEF p, u
  <2> QED BY <1>1, <2>1, HeadsOfOne
<1> HIDE DEF u, t
<1>3. Heads(u \o t) = Heads(u) \o Heads(t)
  BY <1>1, HeadsConcat
<1> QED BY <1>1, <1>2, <1>3 DEF t

LEMMA HeadsOfFrame ==
  ASSUME NEW m \in Messages
  PROVE  Heads(Frame(m)) = <<m>>
<1> DEFINE q == Frame(m)
           f == [i \in 0..Len(q) |-> IF i = 0 THEN <<>> ELSE <<m>>]
<1>1. /\ Len(q) \in Nat /\ Len(q) > 0
      /\ \A i \in 1..Len(q) : q[i].of = m /\ (q[i].name = "head" <=> i = 1)
  <2>1. m.size \in Sizes
    BY ServerAssumption DEF Message
  <2>2. CASE m.size = "none"
    <3>1. Shape(m.size) = <<"head", "mask">>
      BY <2>2 DEF Shape
    <3>2. q = <<Part(m, "head"), Part(m, "mask")>>
      BY <3>1 DEF Frame
    <3> QED BY <3>2 DEF Part
  <2>3. CASE m.size = "short"
    <3>1. Shape(m.size) = <<"head", "mask", "data">>
      BY <2>3 DEF Shape
    <3>2. q = <<Part(m, "head"), Part(m, "mask"), Part(m, "data")>>
      BY <3>1 DEF Frame
    <3> QED BY <3>2 DEF Part
  <2>4. CASE m.size \in {"long", "huge"}
    <3>1. Shape(m.size) = <<"head", "ext", "mask", "data">>
      BY <2>4 DEF Shape
    <3>2. q = <<Part(m, "head"), Part(m, "ext"), Part(m, "mask"), Part(m, "data")>>
      BY <3>1 DEF Frame
    <3> QED BY <3>2 DEF Part
  <2> QED BY <2>1, <2>2, <2>3, <2>4 DEF Sizes
<1> HIDE DEF q
<1>2. f[0] = <<>> /\ \A i \in 1..Len(q) : f[i] = Begun(f[i - 1], q[i])
  <2>1. ASSUME NEW i \in 1..Len(q) PROVE f[i] = Begun(f[i - 1], q[i])
    <3>1. f[i] = <<m>> /\ f[i - 1] = (IF i = 1 THEN <<>> ELSE <<m>>)
      BY <1>1
    <3>2. Append(<<>>, m) = <<m>>
      OBVIOUS
    <3> HIDE DEF f
    <3> QED BY <1>1, <3>1, <3>2 DEF Begun
  <2>2. f[0] = <<>>
    BY <1>1
  <2> QED BY <2>1, <2>2
<1>3. f[Len(q)] = <<m>>
  BY <1>1
<1> HIDE DEF f
<1>4. CountsHeads(f, q, Len(q))
  BY <1>2 DEF CountsHeads
<1>5. Heads(q) = f[Len(q)]
  BY <1>1, <1>4, HeadsAre
<1> QED BY <1>3, <1>5 DEF q

(***************************************************************************)
(* The steps of Session, in the terms of the device.                       *)
(***************************************************************************)
SameSession == \A d \in Conns : Phase(d)' = Phase(d) /\ Pending(d)' = Pending(d)
Becomes(c, p, q) ==
  \A d \in Conns : /\ Phase(d)' = (IF d = c THEN p ELSE Phase(d))
                   /\ Pending(d)' = (IF d = c THEN q ELSE Pending(d))
SessionStep == Abstract!Next \/ UNCHANGED Abstract!vars

LEMMA Stutters ==
  ASSUME SameSession, UNCHANGED <<saved, leds>> PROVE SessionStep
BY DEF SameSession, SessionStep, Abstract!vars

LEMMA Opens ==
  ASSUME NEW c \in Conns, Phase(c) = "none", Becomes(c, "waiting", Pending(c)),
         UNCHANGED <<saved, leds>>
  PROVE  SessionStep
<1>1. Abstract!Open(c)
  BY DEF Becomes, Abstract!Open
<1> QED BY <1>1 DEF SessionStep, Abstract!Next

LEMMA Greets ==
  ASSUME NEW c \in Conns, Phase(c) = "waiting", Becomes(c, "talking", Pending(c)),
         UNCHANGED <<saved, leds>>
  PROVE  SessionStep
<1>1. Abstract!Greet(c)
  BY DEF Becomes, Abstract!Greet
<1> QED BY <1>1 DEF SessionStep, Abstract!Next

LEMMA Sends ==
  ASSUME NEW c \in Conns, NEW m \in Messages, Phase(c) = "talking",
         Becomes(c, "talking", Append(Pending(c), m)), UNCHANGED <<saved, leds>>
  PROVE  SessionStep
<1>1. Abstract!Send(c, m)
  BY DEF Becomes, Abstract!Send
<1> QED BY <1>1 DEF SessionStep, Abstract!Next

LEMMA Withdraws ==
  ASSUME NEW c \in Conns, Phase(c) # "none", NEW n \in 0..Len(Pending(c)),
         Becomes(c, "ending", SubSeq(Pending(c), 1, n)), UNCHANGED <<saved, leds>>
  PROVE  SessionStep
<1>1. Abstract!Withdraw(c)
  BY DEF Becomes, Abstract!Withdraw
<1> QED BY <1>1 DEF SessionStep, Abstract!Next

LEMMA Ends ==
  ASSUME NEW c \in Conns, Phase(c) # "none", Becomes(c, "none", <<>>),
         UNCHANGED <<saved, leds>>
  PROVE  SessionStep
<1>1. Abstract!End(c)
  BY DEF Becomes, Abstract!End, Abstract!Ended
<1> QED BY <1>1 DEF SessionStep, Abstract!Next

LEMMA Handles ==
  ASSUME NEW c \in Conns, Phase(c) \in {"talking", "ending"}, Pending(c) # <<>>,
         Head(Pending(c)) = msg,
         saved' = IF msg.op = "text" THEN msg.body ELSE saved,
         leds' = IF msg.op = "bin" THEN msg.body ELSE leds,
         \/ Becomes(c, Phase(c), Tail(Pending(c)))
         \/ Becomes(c, "none", <<>>)
  PROVE  SessionStep
<1>1. Abstract!Apply(Head(Pending(c)))
  BY DEF Abstract!Apply
<1>2. CASE Becomes(c, Phase(c), Tail(Pending(c)))
  <2>1. UNCHANGED [d \in Conns |-> Phase(d)]
    BY <1>2 DEF Becomes
  <2>2. Abstract!Handle(c)
    BY <1>1, <1>2, <2>1 DEF Becomes, Abstract!Handle
  <2> QED BY <2>2 DEF SessionStep, Abstract!Next
<1>3. CASE Becomes(c, "none", <<>>)
  <2>1. Abstract!Handle(c)
    BY <1>1, <1>3 DEF Becomes, Abstract!Handle, Abstract!Ended
  <2> QED BY <2>1 DEF SessionStep, Abstract!Next
<1> QED BY <1>2, <1>3

(* What is under way on a connection is a sequence of messages. *)
LEMMA PendingType ==
  ASSUME Inv, NEW c \in Conns
  PROVE  /\ conn[c].inbox \in Seq(Parts) /\ conn[c].wire \in Seq(Parts)
         /\ Stream(c) \in Seq(Parts)
         /\ Heads(conn[c].inbox) \in Seq(Messages \cup {None})
         /\ Heads(Stream(c)) \in Seq(Messages \cup {None})
         /\ Pending(c) \in Seq(Messages \cup {None})
         /\ Heads(<<>>) = <<>>
<1>1. conn[c].inbox \in Seq(Parts) /\ conn[c].wire \in Seq(Parts)
  BY DEF Inv, TypeOK, Connection
<1>2. Stream(c) \in Seq(Parts)
  BY <1>1 DEF Stream
<1>3. \A x \in Parts : x.of \in Messages \cup {None}
  BY DEF Parts
<1>4. \A q \in Seq(Parts) : Heads(q) \in Seq(Messages \cup {None})
  <2>1. ASSUME NEW q \in Seq(Parts) PROVE Heads(q) \in Seq(Messages \cup {None})
    <3> DEFINE M == Messages \cup {None}
    <3> HIDE DEF M
    <3>1. \A x \in Parts : x.of \in M
      BY <1>3 DEF M
    <3>2. Heads(q) \in Seq(M)
      BY <3>1, HeadsType
    <3> QED BY <3>2 DEF M
  <2> QED BY <2>1
<1>5. msg \in Messages \cup {None}
  BY DEF Inv, TypeOK
<1>6. Pending(c) \in Seq(Messages \cup {None})
  <2>1. <<msg>> \in Seq(Messages \cup {None}) /\ <<>> \in Seq(Messages \cup {None})
    BY <1>5
  <2>2. Heads(Stream(c)) \in Seq(Messages \cup {None})
    BY <1>2, <1>4
  <2>3. CASE Reading(c)
    <3>1. Pending(c) = <<msg>> \o Heads(Stream(c))
      BY <2>3 DEF Pending
    <3> QED BY <2>1, <2>2, <3>1
  <2>4. CASE ~Reading(c)
    <3>1. Pending(c) = <<>> \o Heads(Stream(c))
      BY <2>4 DEF Pending
    <3> QED BY <2>1, <2>2, <3>1
  <2> QED BY <2>3, <2>4
<1>7. Heads(<<>>) = <<>>
  BY HeadsOfOne
<1> QED BY <1>1, <1>2, <1>4, <1>6, <1>7

(* A connection that has a slot or waits for one has begun, and the slot   *)
(* that has it is the only one that does.                                  *)
LEMMA HolderFacts ==
  ASSUME Inv, NEW s \in Slots, NEW c \in Conns, slot[s].tcp = c
  PROVE  /\ conn[c].peer # "none" /\ Phase(c) # "none" /\ at \in Slots
         /\ \A r \in Slots : slot[r].tcp = c => r = s
<1>1. Served(c)
  BY DEF Served
<1>2. conn[c].peer # "none"
  BY <1>1 DEF Inv, OneHolder
<1>3. slot[s].tcp # None /\ at \in Slots
  BY ServerAssumption DEF Inv, TypeOK
<1>4. \A r \in Slots : slot[r].tcp = c => r = s
  BY <1>3 DEF Inv, OneHolder
<1>5. Phase(c) # "none"
  BY <1>2 DEF Phase
<1> QED BY <1>2, <1>3, <1>4, <1>5

(* A connection is told from the rest by what it has in flight, by whether *)
(* it was greeted, and by the message that is being read.                  *)
LEMMA SameView ==
  ASSUME NEW d \in Conns, conn'[d].peer = conn[d].peer, Talks(d)' <=> Talks(d)
  PROVE  Phase(d)' = Phase(d)
BY DEF Phase

LEMMA SameQueue ==
  ASSUME NEW d \in Conns, Heads(Stream(d))' = Heads(Stream(d)),
         Reading(d)' <=> Reading(d), Reading(d) => msg' = msg
  PROVE  Pending(d)' = Pending(d)
BY DEF Pending

LEMMA SameBoth ==
  ASSUME NEW d \in Conns, conn'[d] = conn[d], Talks(d)' <=> Talks(d),
         Reading(d)' <=> Reading(d), Reading(d) => msg' = msg
  PROVE  Phase(d)' = Phase(d) /\ Pending(d)' = Pending(d)
<1>1. Stream(d)' = Stream(d)
  BY DEF Stream
<1>2. Heads(Stream(d))' = Heads(Stream(d))
  BY <1>1 DEF Heads
<1> QED BY <1>2, SameView, SameQueue

(* A slot is freed, and maybe taken by a connection that is not greeted.   *)
LEMMA FreesSlot ==
  ASSUME Inv, NEW r \in Slots, NEW c \in Conns, slot[r].tcp = c,
         conn' = [conn EXCEPT ![c] = Unborn],
         \A q \in Slots \ {r} : slot'[q] = slot[q],
         slot'[r].status # "CONNECTED",
         pc' \notin {"read", "event"}, pc \in {"read", "event"} => r = at
  PROVE  Phase(c) # "none" /\ Becomes(c, "none", <<>>)
<1>1. /\ Phase(c) # "none" /\ \A q \in Slots : slot[q].tcp = c => q = r
      /\ at \in Slots /\ c \in Conns
  BY HolderFacts DEF Inv, TypeOK
<1>2. ASSUME NEW d \in Conns, d # c
      PROVE  Phase(d)' = Phase(d) /\ Pending(d)' = Pending(d)
  <2>1. conn'[d] = conn[d]
    BY <1>2 DEF Inv, TypeOK
  <2>2. Talks(d)' <=> Talks(d)
    <3>1. ASSUME NEW q \in Slots
          PROVE  (slot'[q].tcp = d /\ slot'[q].status = "CONNECTED")
                 <=> (slot[q].tcp = d /\ slot[q].status = "CONNECTED")
      <4>1. CASE q = r
        BY <4>1, <1>2
      <4>2. CASE q # r
        BY <4>2
      <4> QED BY <4>1, <4>2
    <3> QED BY <3>1 DEF Talks
  <2>3. ~Reading(d) /\ ~Reading(d)'
    BY <1>1, <1>2 DEF Reading
  <2> QED BY <2>1, <2>2, <2>3, SameBoth
<1>3. conn'[c] = Unborn
  BY <1>1 DEF Inv, TypeOK
<1>4. Phase(c)' = "none"
  BY <1>1, <1>3 DEF Phase, Unborn
<1>5. Pending(c)' = <<>>
  <2>1. Stream(c)' = <<>>
    <3>1. <<>> \o <<>> = <<>>
      OBVIOUS
    <3> QED BY <1>3, <3>1 DEF Stream, Unborn
  <2>2. Heads(Stream(c)') = <<>>
    BY <2>1, HeadsOfOne
  <2>3. ~Reading(c)'
    BY DEF Reading
  <2>4. <<>> \o <<>> = <<>>
    OBVIOUS
  <2> QED BY <2>2, <2>3, <2>4 DEF Pending
<1>6. Becomes(c, "none", <<>>)
  BY <1>1, <1>2, <1>4, <1>5 DEF Becomes
<1> QED BY <1>1, <1>6

(* A step that ends a connection, answers a message or rests.              *)
LEMMA DropsEnds ==
  ASSUME Inv, Drops
  PROVE  \E c \in Conns : /\ slot[at].tcp = c /\ Phase(c) # "none"
                          /\ Becomes(c, "none", <<>>)
<1>1. PICK c \in Conns : slot[at].tcp = c
  BY DEF Drops
<1>2. at \in Slots /\ slot \in [Slots -> SlotRecord]
  BY DEF Inv, TypeOK
<1>3. /\ conn' = [conn EXCEPT ![c] = Unborn]
      /\ slot' = [slot EXCEPT ![at] = Cleared] /\ pc' \in {"visit", "show"}
  BY <1>1 DEF Drops, clientDisconnect, Moves
<1>4. \A q \in Slots \ {at} : slot'[q] = slot[q]
  BY <1>2, <1>3
<1>5. slot'[at].status # "CONNECTED"
  BY <1>2, <1>3 DEF Cleared
<1>6. Phase(c) # "none" /\ Becomes(c, "none", <<>>)
  BY <1>1, <1>2, <1>3, <1>4, <1>5, FreesSlot
<1> QED BY <1>1, <1>6

LEMMA RestsSame ==
  ASSUME Inv, Rests \/ noFreeSpace
  PROVE  SameSession
<1>1. conn' = conn /\ slot' = slot
  BY DEF Rests, noFreeSpace
<1>2. ASSUME NEW d \in Conns PROVE Phase(d)' = Phase(d) /\ Pending(d)' = Pending(d)
  <2>1. Talks(d)' <=> Talks(d)
    BY <1>1 DEF Talks
  <2>2. ~Reading(d)
    BY DEF Rests, noFreeSpace, Reading, Lost, Gone
  <2>3. ~Reading(d)'
    BY DEF Rests, noFreeSpace, Reading
  <2> QED BY <1>1, <2>1, <2>2, <2>3, SameBoth
<1> QED BY <1>2 DEF SameSession

LEMMA AnswersTail ==
  ASSUME Inv, NEW c \in Conns, slot[at].tcp = c, pc = "event"
  PROVE  /\ Phase(c) \in {"talking", "ending"}
         /\ Pending(c) # <<>> /\ Head(Pending(c)) = msg
         /\ Answers => Becomes(c, Phase(c), Tail(Pending(c)))
<1>1. at \in Slots /\ slot \in [Slots -> SlotRecord]
  BY DEF Inv, TypeOK
<1>2. Phase(c) \in {"talking", "ending"}
  <2>1. Talks(c)
    BY <1>1 DEF Inv, Busy, Talks
  <2>2. Phase(c) # "none"
    BY <1>1, HolderFacts
  <2> QED BY <2>1, <2>2 DEF Phase
<1> DEFINE h == Heads(Stream(c))
<1>3. h \in Seq(Messages \cup {None})
  BY PendingType
<1>4. Pending(c) = <<msg>> \o h
  BY DEF Reading, Pending
<1>5. msg \in Messages \cup {None}
  BY DEF Inv, TypeOK
<1> HIDE DEF h
<1>6. /\ <<msg>> \o h # <<>> /\ Head(<<msg>> \o h) = msg /\ Tail(<<msg>> \o h) = h
      /\ <<>> \o h = h
  <2> DEFINE M == Messages \cup {None}
  <2>1. h \in Seq(M) /\ msg \in M
    BY <1>3, <1>5
  <2> HIDE DEF M
  <2>2. /\ <<msg>> \o h \in Seq(M) /\ Len(<<msg>> \o h) = Len(h) + 1
        /\ Head(<<msg>> \o h) = msg /\ \A i \in 1..Len(h) : (<<msg>> \o h)[i + 1] = h[i]
    BY <2>1
  <2>3. Tail(<<msg>> \o h) = h
    <3> DEFINE t == Tail(<<msg>> \o h)
    <3>1. t \in Seq(M) /\ Len(t) = Len(h) /\ \A i \in 1..Len(h) : t[i] = h[i]
      BY <2>1, <2>2
    <3> HIDE DEF t
    <3>2. t = h
      BY <3>1, <2>1, SeqEqual
    <3> QED BY <3>2 DEF t
  <2>4. <<msg>> \o h # <<>> /\ <<>> \o h = h
    BY <2>1, <2>2
  <2> QED BY <2>2, <2>3, <2>4
<1>7. ASSUME Answers PROVE Becomes(c, Phase(c), Tail(Pending(c)))
  <2>1. /\ conn' = conn /\ slot' = [slot EXCEPT ![at].rx = 0]
        /\ pc' \in {"visit", "show"}
    BY <1>7 DEF Answers, Moves
  <2>2. \A s \in Slots : slot'[s].tcp = slot[s].tcp /\ slot'[s].status = slot[s].status
    BY <2>1, <1>1 DEF SlotRecord
  <2>3. \A d \in Conns : (Talks(d)' <=> Talks(d)) /\ ~Reading(d)'
    BY <2>1, <2>2 DEF Talks, Reading
  <2>4. ASSUME NEW d \in Conns, d # c
        PROVE  Phase(d)' = Phase(d) /\ Pending(d)' = Pending(d)
    <3>1. ~Reading(d)
      BY <2>4 DEF Reading
    <3> QED BY <2>1, <2>3, <3>1, SameBoth
  <2>5. Phase(c)' = Phase(c)
    BY <2>1, <2>3, SameView
  <2>6. Pending(c)' = Tail(Pending(c))
    <3>1. Heads(Stream(c))' = h
      BY <2>1 DEF Stream, Heads, h
    <3>2. Pending(c)' = <<>> \o h
      BY <2>3, <3>1 DEF Pending
    <3> QED BY <1>4, <1>6, <3>2
  <2> QED BY <2>4, <2>5, <2>6 DEF Becomes
<1> QED BY <1>2, <1>4, <1>6, <1>7

(* The thread reads the first part of a stream.                            *)
LEMMA ReadingTakes ==
  ASSUME Inv, NEW c \in Conns, slot[at].tcp = c, conn[c].inbox # <<>>, conn' = ReadOne
  PROVE  /\ \A d \in Conns \ {c} : conn'[d] = conn[d]
         /\ conn'[c].peer = conn[c].peer /\ conn'[c].kind = conn[c].kind
         /\ Stream(c) # <<>> /\ Stream(c)[1] = Head(conn[c].inbox)
         /\ Heads(Stream(c))' \in Seq(Messages \cup {None})
         /\ Heads(Stream(c)) = (IF Head(conn[c].inbox).name = "head"
                                THEN <<Head(conn[c].inbox).of>> ELSE <<>>)
                               \o Heads(Stream(c))'
<1> DEFINE a == conn[c].inbox
           w == conn[c].wire
           q == Stream(c)
<1>1. conn \in [Conns -> Connection]
  BY DEF Inv, TypeOK
<1>2. conn' = [conn EXCEPT ![c].inbox = Tail(@)]
  BY DEF ReadOne
<1>3. /\ \A d \in Conns \ {c} : conn'[d] = conn[d]
      /\ conn'[c].peer = conn[c].peer /\ conn'[c].kind = conn[c].kind
      /\ conn'[c].inbox = Tail(a) /\ conn'[c].wire = w
  BY <1>1, <1>2 DEF Connection
<1>4. a \in Seq(Parts) /\ w \in Seq(Parts) /\ q \in Seq(Parts)
  BY PendingType
<1>5. q = a \o w /\ Stream(c)' = Tail(a) \o w
  BY <1>3 DEF Stream
<1> HIDE DEF a, w, q
<1>6. /\ a \o w # <<>> /\ (a \o w)[1] = Head(a)
      /\ Tail(a) \o w = Tail(a \o w) /\ Tail(a \o w) \in Seq(Parts)
  <2>1. a # <<>>
    BY DEF a
  <2>2. /\ a \o w # <<>> /\ (a \o w)[1] = Head(a) /\ Tail(a) \o w = Tail(a \o w)
    BY <1>4, <2>1, ReadingShortens
  <2>3. a \o w \in Seq(Parts)
    BY <1>4
  <2> DEFINE r == a \o w
  <2> HIDE DEF r
  <2>4. Tail(r) \in Seq(Parts)
    BY <2>2, <2>3 DEF r
  <2> QED BY <2>2, <2>4 DEF r
<1>7. Stream(c)' = Tail(q) /\ q # <<>> /\ q[1] = Head(a) /\ Tail(q) \in Seq(Parts)
  BY <1>5, <1>6
<1>8. Heads(q) = (IF q[1].name = "head" THEN <<q[1].of>> ELSE <<>>) \o Heads(Tail(q))
  BY <1>4, <1>7, HeadsOfTail
<1>9. Heads(Stream(c))' = Heads(Tail(q))
  BY <1>7 DEF Heads
<1>10. Heads(Tail(q)) \in Seq(Messages \cup {None})
  <2> DEFINE M == Messages \cup {None}
             t == Tail(q)
  <2>1. \A x \in Parts : x.of \in M
    BY DEF Parts
  <2>2. t \in Seq(Parts)
    BY <1>7
  <2> HIDE DEF M, t
  <2>3. Heads(t) \in Seq(M)
    BY <2>1, <2>2, HeadsType
  <2> QED BY <2>3 DEF M, t
<1> QED BY <1>3, <1>7, <1>8, <1>9, <1>10 DEF a, q

(* What is read of a message leaves the stream and is still under way.     *)
LEMMA ReadsSame ==
  ASSUME Inv, readPart \/ readLast
  PROVE  SameSession
<1>1. PICK n \in PartNames \cup {"done"} :
        /\ Reads(n)
        /\ \/ readPart /\ n \in PartNames /\ need' = n /\ pc' = "read"
           \/ readLast /\ pc' = "event"
  <2>1. CASE readPart
    BY <2>1 DEF readPart, Reads
  <2>2. CASE readLast
    BY <2>2 DEF readLast
  <2> QED BY <2>1, <2>2
<1>2. /\ conn' = ReadOne /\ msg' = ReadNow /\ at' = at /\ slot' = CountRx
  BY DEF readPart, readLast
<1>3. /\ slot[at].tcp \in Conns /\ conn[slot[at].tcp].inbox # <<>>
      /\ Stream(slot[at].tcp)[1].name = need
      /\ ReadNow = Stream(slot[at].tcp)[1].of /\ ReadNow \in Messages
  BY <1>1, ReadsItsPart
<1>4. PICK c \in Conns : slot[at].tcp = c
  BY <1>3
<1>5. /\ at \in Slots /\ slot \in [Slots -> SlotRecord] /\ need \in PartNames
  BY DEF Inv, TypeOK
<1>6. /\ \A d \in Conns \ {c} : conn'[d] = conn[d]
      /\ conn'[c].peer = conn[c].peer
      /\ Stream(c)[1] = Head(conn[c].inbox)
      /\ Heads(Stream(c))' \in Seq(Messages \cup {None})
      /\ Heads(Stream(c)) = (IF Head(conn[c].inbox).name = "head"
                             THEN <<Head(conn[c].inbox).of>> ELSE <<>>)
                            \o Heads(Stream(c))'
  BY <1>2, <1>3, <1>4, ReadingTakes
<1>7. \A s \in Slots : slot'[s].tcp = slot[s].tcp /\ slot'[s].status = slot[s].status
  BY <1>2, <1>5 DEF CountRx, SlotRecord
<1>8. \A d \in Conns : Talks(d)' <=> Talks(d)
  BY <1>7 DEF Talks
<1>9. ASSUME NEW d \in Conns, d # c
      PROVE  Phase(d)' = Phase(d) /\ Pending(d)' = Pending(d)
  <2>1. ~Reading(d) /\ ~Reading(d)'
    BY <1>2, <1>4, <1>5, <1>7, <1>9 DEF Reading
  <2> QED BY <1>6, <1>8, <1>9, <2>1, SameBoth
<1>10. Phase(c)' = Phase(c)
  BY <1>6, <1>8, SameView
<1>11. pc = "read" /\ ~Gone(c) /\ ~Gone(c)'
  <2>1. pc = "read" /\ ~Lost(at)
    BY <1>1 DEF Reads
  <2>2. slot[at].tcp # None
    BY <1>4, ServerAssumption
  <2> QED BY <1>4, <1>6, <2>1, <2>2 DEF Lost, Gone
<1>12. Reading(c)' /\ (Reading(c) <=> need # "head")
  <2>1. Reading(c) <=> need # "head"
    BY <1>4, <1>11 DEF Reading
  <2>2. slot'[at'].tcp = c
    BY <1>2, <1>4, <1>5, <1>7
  <2>3. CASE readLast /\ pc' = "event"
    BY <2>1, <2>2, <2>3 DEF Reading
  <2>4. CASE readPart
    <3>1. need' # "head" /\ pc' = "read"
      BY <1>1, <2>4 DEF readPart, readLast, Reads, After
    <3> QED BY <2>1, <2>2, <3>1, <1>11 DEF Reading
  <2> QED BY <1>1, <2>1, <2>3, <2>4
<1> DEFINE h == Heads(Stream(c))
           k == Heads(Stream(c))'
<1>13. Pending(c)' = <<ReadNow>> \o k
  BY <1>2, <1>12 DEF Pending
<1>14. CASE need = "head"
  <2>1. h = <<ReadNow>> \o k
    BY <1>3, <1>4, <1>6, <1>14
  <2>2. Pending(c) = <<>> \o h
    BY <1>12, <1>14 DEF Pending
  <2>3. h \in Seq(Messages \cup {None})
    BY PendingType
  <2> HIDE DEF h, k
  <2>4. <<>> \o h = h
    BY <2>3
  <2> QED BY <1>9, <1>10, <1>13, <2>1, <2>2, <2>4 DEF SameSession
<1>15. CASE need # "head"
  <2>1. ReadNow = msg
    BY <1>15 DEF ReadNow
  <2>2. h = <<>> \o k
    BY <1>3, <1>4, <1>6, <1>15
  <2>3. Pending(c) = <<msg>> \o h
    BY <1>12, <1>15 DEF Pending
  <2>4. k \in Seq(Messages \cup {None})
    BY <1>6
  <2> HIDE DEF h, k
  <2>5. <<>> \o k = k
    BY <2>4
  <2> QED BY <1>9, <1>10, <1>13, <2>1, <2>2, <2>3, <2>5 DEF SameSession
<1> QED BY <1>14, <1>15

(* A line of a request is none of the messages, and the last one greets.   *)
LEMMA HeaderReads ==
  ASSUME Inv, NEW c \in Conns, slot[at].tcp = c,
         (headerLine /\ Moves) \/ headerDone
  PROVE  /\ \A d \in Conns \ {c} : Phase(d)' = Phase(d)
         /\ \A d \in Conns : Pending(d)' = Pending(d)
         /\ Phase(c) \in {"waiting", "ending"}
         /\ Phase(c)' = IF headerLine \/ conn[c].peer # "here" THEN Phase(c)
                        ELSE "talking"
<1>1. /\ conn' = ReadOne /\ conn[c].inbox # <<>> /\ at \in Slots
      /\ slot \in [Slots -> SlotRecord] /\ Alive(at) /\ slot[at].status = "HEADER"
      /\ pc = "visit" /\ pc' \in {"visit", "show", "greet"}
  BY DEF headerLine, headerDone, Visited, Received, Moves, Inv, TypeOK
<1>2. /\ \A d \in Conns \ {c} : conn'[d] = conn[d]
      /\ conn'[c].peer = conn[c].peer
      /\ Stream(c) # <<>> /\ Stream(c)[1] = Head(conn[c].inbox)
      /\ Heads(Stream(c))' \in Seq(Messages \cup {None})
      /\ Heads(Stream(c)) = (IF Head(conn[c].inbox).name = "head"
                             THEN <<Head(conn[c].inbox).of>> ELSE <<>>)
                            \o Heads(Stream(c))'
  BY <1>1, ReadingTakes
<1>3. Head(conn[c].inbox).name # "head"
  <2>1. Head(Stream(c)).name \in Expected(at)
    BY <1>1, <1>2, InvInSync DEF InSync
  <2>2. Head(Stream(c)) = Stream(c)[1]
    BY <1>2, PendingType
  <2> QED BY <1>1, <1>2, <2>1, <2>2 DEF Expected, Lines
<1>4. Heads(Stream(c))' = Heads(Stream(c))
  <2> DEFINE k == Heads(Stream(c))'
             h == Heads(Stream(c))
  <2>1. h = <<>> \o k /\ k \in Seq(Messages \cup {None})
    BY <1>2, <1>3
  <2> HIDE DEF h, k
  <2>2. h = k
    BY <2>1
  <2> QED BY <2>2 DEF h, k
<1>5. \A d \in Conns : ~Reading(d) /\ ~Reading(d)'
  BY <1>1 DEF Reading
<1>6. /\ \A s \in Slots : slot'[s].tcp = slot[s].tcp
      /\ \A s \in Slots \ {at} : slot'[s].status = slot[s].status
      /\ slot'[at].status = IF headerLine THEN "HEADER" ELSE "CONNECTED"
  <2>1. CASE headerLine
    BY <1>1, <2>1 DEF headerLine, SlotRecord
  <2>2. CASE ~headerLine
    <3>1. slot' = [slot EXCEPT ![at].status = "CONNECTED", ![at].rx = 0]
      BY <2>2 DEF headerDone
    <3> QED BY <1>1, <2>2, <3>1 DEF SlotRecord
  <2> QED BY <2>1, <2>2
<1>7. \A r \in Slots : slot[r].tcp = c => r = at
  BY <1>1, HolderFacts
<1>8. ASSUME NEW d \in Conns \ {c} PROVE Talks(d)' <=> Talks(d)
  <2>1. ASSUME NEW s \in Slots
        PROVE  (slot'[s].tcp = d /\ slot'[s].status = "CONNECTED")
               <=> (slot[s].tcp = d /\ slot[s].status = "CONNECTED")
    <3>1. CASE s = at
      BY <3>1, <1>6
    <3>2. CASE s # at
      BY <3>2, <1>6
    <3> QED BY <3>1, <3>2
  <2> QED BY <2>1 DEF Talks
<1>9. ~Talks(c) /\ (Talks(c)' <=> ~headerLine)
  BY <1>1, <1>6, <1>7 DEF Talks
<1>10. \A d \in Conns \ {c} : Phase(d)' = Phase(d) /\ Pending(d)' = Pending(d)
  BY <1>2, <1>5, <1>8, SameBoth
<1>11. Pending(c)' = Pending(c)
  BY <1>4, <1>5, SameQueue
<1>12. conn[c].peer # "none"
  BY <1>1, HolderFacts
<1>13. Phase(c) = IF conn[c].peer # "here" THEN "ending" ELSE "waiting"
  BY <1>9, <1>12 DEF Phase
<1>14. Phase(c)' = IF conn[c].peer # "here" THEN "ending"
                   ELSE IF headerLine THEN "waiting" ELSE "talking"
  <2>1. conn'[c].peer = conn[c].peer
    BY <1>2
  <2> HIDE DEF headerLine, headerDone
  <2> QED BY <1>9, <1>12, <2>1 DEF Phase
<1> QED BY <1>10, <1>11, <1>13, <1>14

(* A connection is taken: it waits as before, and what the slot had ends.  *)
LEMMA TakesSame ==
  ASSUME Inv, NEW s \in Slots, newClient(s), slot[s].tcp = None
  PROVE  SameSession
<1>1. /\ slot[s] = Cleared /\ slot \in [Slots -> SlotRecord] /\ conn' = conn
      /\ pc = "accept" /\ pc' = "accept"
  BY DEF Inv, SlotsClean, TypeOK, newClient
<1>2. /\ \A r \in Slots \ {s} : slot'[r] = slot[r]
      /\ slot'[s].status = "HEADER" /\ slot[s].status = "NOT_CONNECTED"
  BY <1>1 DEF newClient, Cleared
<1>3. ASSUME NEW d \in Conns PROVE Phase(d)' = Phase(d) /\ Pending(d)' = Pending(d)
  <2>1. Talks(d)' <=> Talks(d)
    <3>1. ASSUME NEW r \in Slots
          PROVE  (slot'[r].tcp = d /\ slot'[r].status = "CONNECTED")
                 <=> (slot[r].tcp = d /\ slot[r].status = "CONNECTED")
      BY <1>2
    <3> QED BY <3>1 DEF Talks
  <2>2. ~Reading(d) /\ ~Reading(d)'
    BY <1>1 DEF Reading
  <2> QED BY <1>1, <2>1, <2>2, SameBoth
<1> QED BY <1>3 DEF SameSession

LEMMA TakesEnds ==
  ASSUME Inv, NEW s \in Slots, newClient(s), slot[s].tcp # None
  PROVE  \E c \in Conns : Phase(c) # "none" /\ Becomes(c, "none", <<>>)
<1>1. PICK c \in Conns : slot[s].tcp = c
  BY AliveHasOne DEF Inv
<1>2. /\ conn' = [conn EXCEPT ![c] = Unborn] /\ slot \in [Slots -> SlotRecord]
      /\ pc = "accept" /\ pc' = "accept"
  BY <1>1 DEF Inv, TypeOK, newClient
<1>3. /\ \A r \in Slots \ {s} : slot'[r] = slot[r]
      /\ slot'[s].status = "HEADER"
  BY <1>2 DEF newClient, Cleared
<1> QED BY <1>1, <1>2, <1>3, FreesSlot

(* What a page does touches its own connection and not the thread.         *)
LEMMA PageFrame ==
  ASSUME Inv, NEW c \in Conns,
         \/ \E kind \in {"ws", "http"} : Open(c, kind)
         \/ \E m \in Messages : Send(c, m)
         \/ Deliver(c) \/ Leave(c) \/ Vanish(c)
  PROVE  /\ \A d \in Conns \ {c} : Phase(d)' = Phase(d) /\ Pending(d)' = Pending(d)
         /\ Talks(c)' <=> Talks(c)
         /\ slot' = slot /\ pc' = pc /\ at' = at /\ need' = need /\ msg' = msg
         /\ conn \in [Conns -> Connection]
<1>1. /\ slot' = slot /\ pc' = pc /\ at' = at /\ need' = need /\ msg' = msg
      /\ conn \in [Conns -> Connection]
  BY DEF Open, Send, Deliver, Leave, Vanish, readers, Inv, TypeOK
<1>2. \A d \in Conns \ {c} : conn'[d] = conn[d]
  BY <1>1 DEF Open, Send, Deliver, Leave, Vanish
<1>3. \A d \in Conns : Talks(d)' <=> Talks(d)
  BY <1>1 DEF Talks
<1>4. ASSUME NEW d \in Conns \ {c} PROVE Reading(d)' <=> Reading(d)
  BY <1>1, <1>2 DEF Reading, Gone
<1>5. \A d \in Conns \ {c} : Phase(d)' = Phase(d) /\ Pending(d)' = Pending(d)
  BY <1>1, <1>2, <1>3, <1>4, SameBoth
<1> QED BY <1>1, <1>3, <1>5

LEMMA OpenOpens ==
  ASSUME Inv, NEW c \in Conns, NEW kind \in {"ws", "http"}, Open(c, kind)
  PROVE  Phase(c) = "none" /\ Becomes(c, "waiting", Pending(c))
<1>1. /\ \A d \in Conns \ {c} : Phase(d)' = Phase(d) /\ Pending(d)' = Pending(d)
      /\ Talks(c)' <=> Talks(c)
      /\ slot' = slot /\ pc' = pc /\ at' = at /\ at \in Slots
      /\ conn \in [Conns -> Connection]
  BY PageFrame DEF Inv, TypeOK
<1>2. /\ conn[c] = Unborn
      /\ conn'[c] = [Unborn EXCEPT !.peer = "here", !.kind = kind,
                                   !.wire = Handshake(kind)]
  BY <1>1 DEF Open
<1>3. /\ conn[c].peer = "none" /\ conn[c].inbox = <<>> /\ conn[c].wire = <<>>
      /\ conn'[c].peer = "here" /\ conn'[c].inbox = <<>>
      /\ conn'[c].wire = Handshake(kind)
  BY <1>2 DEF Unborn
<1>4. \A s \in Slots : slot[s].tcp # c
  BY <1>3, HolderFacts
<1>5. ~Talks(c) /\ ~Reading(c) /\ ~Reading(c)'
  BY <1>1, <1>4 DEF Talks, Reading
<1>6. Phase(c) = "none" /\ Phase(c)' = "waiting"
  BY <1>1, <1>3, <1>5 DEF Phase
<1>7. Handshake(kind) \in Seq(Parts)
  BY FramesAreParts
<1>8. Heads(Handshake(kind)) = <<>>
  <2> DEFINE q == Handshake(kind)
  <2>1. \A i \in 1..Len(q) : q[i].name # "head"
    BY DEF Handshake, Line
  <2>2. q \in Seq(Parts)
    BY <1>7
  <2> HIDE DEF q
  <2>3. Heads(q) = <<>>
    BY <2>1, <2>2, HeadsOfNone
  <2> QED BY <2>3 DEF q
<1>9. Stream(c) = <<>> /\ Stream(c)' = Handshake(kind)
  <2>1. <<>> \o <<>> = <<>> /\ <<>> \o Handshake(kind) = Handshake(kind)
    BY <1>7
  <2> QED BY <1>3, <2>1 DEF Stream
<1>10. Heads(Stream(c)) = <<>> /\ Heads(Stream(c))' = <<>>
  <2>1. Heads(Stream(c)) = <<>>
    BY <1>9, HeadsOfOne
  <2>2. Heads(Stream(c)') = <<>>
    BY <1>8, <1>9
  <2> QED BY <2>1, <2>2
<1>11. Pending(c)' = Pending(c)
  BY <1>5, <1>10 DEF Pending
<1> QED BY <1>1, <1>6, <1>11 DEF Becomes

LEMMA SendSends ==
  ASSUME Inv, NEW c \in Conns, NEW m \in Messages, Send(c, m)
  PROVE  Phase(c) = "talking" /\ Becomes(c, "talking", Append(Pending(c), m))
<1>1. /\ \A d \in Conns \ {c} : Phase(d)' = Phase(d) /\ Pending(d)' = Pending(d)
      /\ Talks(c)' <=> Talks(c)
      /\ slot' = slot /\ pc' = pc /\ at' = at /\ need' = need /\ msg' = msg
      /\ conn \in [Conns -> Connection]
  BY PageFrame
<1>2. /\ conn[c].peer = "here" /\ conn[c].wire = <<>> /\ Talks(c)
      /\ conn'[c].peer = conn[c].peer /\ conn'[c].wire = Frame(m)
      /\ conn'[c].inbox = conn[c].inbox
  BY <1>1 DEF Send, Connection
<1>3. Phase(c) = "talking" /\ Phase(c)' = "talking"
  BY <1>1, <1>2 DEF Phase
<1>4. Reading(c)' <=> Reading(c)
  BY <1>1, <1>2 DEF Reading, Gone
<1> DEFINE a == conn[c].inbox
<1>5. /\ a \in Seq(Parts) /\ Heads(a) \in Seq(Messages \cup {None})
      /\ Frame(m) \in Seq(Parts)
  BY PendingType, FramesAreParts
<1>6. Heads(Stream(c)) = Heads(a)
  <2>1. Stream(c) = a \o <<>>
    BY <1>2 DEF Stream
  <2> HIDE DEF a
  <2>2. a \o <<>> = a
    BY <1>5
  <2> QED BY <2>1, <2>2
<1>7. Heads(Stream(c))' = Heads(a) \o <<m>>
  <2>1. Stream(c)' = a \o Frame(m)
    BY <1>2 DEF Stream
  <2> DEFINE f == Frame(m)
  <2>2. f \in Seq(Parts) /\ a \in Seq(Parts) /\ Heads(f) = <<m>>
    BY <1>5, HeadsOfFrame
  <2> HIDE DEF a, f
  <2>3. Heads(a \o f) = Heads(a) \o Heads(f)
    BY <2>2, HeadsConcat
  <2>4. Heads(Stream(c)') = Heads(a) \o <<m>>
    BY <2>1, <2>2, <2>3 DEF f
  <2> QED BY <2>4
<1>8. Pending(c)' = Append(Pending(c), m)
  <2> DEFINE p == IF Reading(c) THEN <<msg>> ELSE <<>>
             h == Heads(a)
             M == Messages \cup {None}
  <2>1. Pending(c) = p \o h /\ Pending(c)' = p \o (h \o <<m>>)
    BY <1>1, <1>4, <1>6, <1>7 DEF Pending
  <2>2. p \in Seq(M) /\ h \in Seq(M) /\ m \in M
    <3>1. msg \in M
      BY DEF Inv, TypeOK
    <3> HIDE DEF M
    <3>2. p \in Seq(M)
      BY <3>1
    <3> QED BY <1>5, <3>2 DEF M
  <2> HIDE DEF p, h, M
  <2>3. h \o <<m>> = Append(h, m) /\ p \o Append(h, m) = Append(p \o h, m)
    BY <2>2, ConcatAppend
  <2> QED BY <2>1, <2>3
<1> QED BY <1>1, <1>3, <1>8 DEF Becomes

LEMMA DeliverSame ==
  ASSUME Inv, NEW c \in Conns, Deliver(c)
  PROVE  SameSession
<1>1. /\ \A d \in Conns \ {c} : Phase(d)' = Phase(d) /\ Pending(d)' = Pending(d)
      /\ Talks(c)' <=> Talks(c)
      /\ slot' = slot /\ pc' = pc /\ at' = at /\ need' = need /\ msg' = msg
      /\ conn \in [Conns -> Connection]
  BY PageFrame
<1> DEFINE a == conn[c].inbox
           w == conn[c].wire
           k == Segment(w)
<1>2. /\ conn'[c].peer = conn[c].peer /\ conn'[c].inbox = a \o SubSeq(w, 1, k)
      /\ conn'[c].wire = SubSeq(w, k + 1, Len(w)) /\ w # <<>>
  BY <1>1 DEF Deliver, Connection
<1>3. a \in Seq(Parts) /\ w \in Seq(Parts)
  BY PendingType
<1>4. k \in 0..Len(w)
  <2>1. Len(w) \in Nat /\ Len(w) > 0
    BY <1>2, <1>3
  <2> QED BY <2>1 DEF Segment
<1>5. Stream(c)' = (a \o SubSeq(w, 1, k)) \o SubSeq(w, k + 1, Len(w))
  BY <1>2 DEF Stream
<1>6. Stream(c) = a \o w
  BY DEF Stream
<1>7. Stream(c)' = Stream(c)
  <2> HIDE DEF a, w, k
  <2>1. (a \o SubSeq(w, 1, k)) \o SubSeq(w, k + 1, Len(w)) = a \o w
    BY <1>3, <1>4, DeliverKeepsStream, ZenonT(40)
  <2> QED BY <1>5, <1>6, <2>1
<1>8. Heads(Stream(c))' = Heads(Stream(c))
  BY <1>7 DEF Heads
<1>9. Reading(c)' <=> Reading(c)
  BY <1>1, <1>2 DEF Reading, Gone
<1>10. Phase(c)' = Phase(c) /\ Pending(c)' = Pending(c)
  BY <1>1, <1>2, <1>8, <1>9, SameView, SameQueue
<1> QED BY <1>1, <1>10 DEF SameSession

(* A part of a sequence from its beginning. *)
LEMMA Beginning ==
  ASSUME NEW M, NEW s \in Seq(M), NEW t \in Seq(M)
  PROVE  Len(s) \in 0..Len(s \o t) /\ SubSeq(s \o t, 1, Len(s)) = s
<1> DEFINE r == SubSeq(s \o t, 1, Len(s))
<1>1. /\ Len(s) \in 0..Len(s \o t) /\ r \in Seq(M) /\ Len(r) = Len(s)
      /\ \A i \in 1..Len(s) : r[i] = s[i]
  OBVIOUS
<1>2. r = s
  <2> HIDE DEF r
  <2> QED BY <1>1, SeqEqual
<1> QED BY <1>1, <1>2

LEMMA LeaveWithdraws ==
  ASSUME Inv, NEW c \in Conns, Leave(c) \/ Vanish(c)
  PROVE  /\ Phase(c) # "none"
         /\ \E n \in 0..Len(Pending(c)) :
              Becomes(c, "ending", SubSeq(Pending(c), 1, n))
<1>1. /\ \A d \in Conns \ {c} : Phase(d)' = Phase(d) /\ Pending(d)' = Pending(d)
      /\ Talks(c)' <=> Talks(c)
      /\ slot' = slot /\ pc' = pc /\ at' = at /\ need' = need /\ msg' = msg
      /\ conn \in [Conns -> Connection]
  BY PageFrame
<1>2. Phase(c) # "none" /\ Phase(c)' = "ending"
  <2>1. conn[c].peer \in {"here", "silent"} /\ conn'[c].peer \in {"gone", "silent"}
    BY <1>1 DEF Leave, Vanish, Connection
  <2> QED BY <2>1 DEF Phase
<1> DEFINE M == Messages \cup {None}
           p == IF Reading(c) THEN <<msg>> ELSE <<>>
           h == Heads(Stream(c))
<1>3. Pending(c) = p \o h
  BY DEF Pending
<1>4. p \in Seq(M) /\ h \in Seq(M)
  <2>1. msg \in M
    BY DEF Inv, TypeOK
  <2>2. h \in Seq(M)
    BY PendingType
  <2> HIDE DEF M, h
  <2>3. p \in Seq(M)
    BY <2>1
  <2> QED BY <2>2, <2>3
<1>5. \E u \in Seq(M), v \in Seq(M) : p \o h = u \o v /\ Pending(c)' = u
  <2>1. CASE Leave(c)
    <3>1. conn'[c].inbox = <<>> /\ conn'[c].wire = <<>> /\ Gone(c)'
      BY <1>1, <2>1 DEF Leave, Connection, Gone
    <3>2. Stream(c)' = <<>>
      <4>1. <<>> \o <<>> = <<>>
        OBVIOUS
      <4> QED BY <3>1, <4>1 DEF Stream
    <3>3. Heads(Stream(c)') = <<>>
      BY <3>2, HeadsOfOne
    <3>4. CASE pc = "event" /\ slot[at].tcp = c
      <4>1. Reading(c) /\ Reading(c)'
        BY <1>1, <3>4 DEF Reading
      <4>2. p = <<msg>> /\ Pending(c)' = <<msg>> \o <<>>
        BY <1>1, <3>3, <4>1 DEF Pending
      <4> HIDE DEF p, h, M
      <4>3. p \o <<>> = p
        BY <1>4
      <4> QED BY <1>4, <4>2, <4>3
    <3>5. CASE ~(pc = "event" /\ slot[at].tcp = c)
      <4>1. ~Reading(c)'
        BY <1>1, <3>1, <3>5 DEF Reading
      <4>2. Pending(c)' = <<>> \o <<>>
        BY <3>3, <4>1 DEF Pending
      <4> HIDE DEF p, h, M
      <4>3. <<>> \o <<>> = <<>> /\ <<>> \o (p \o h) = p \o h /\ p \o h \in Seq(M)
        BY <1>4
      <4>4. <<>> \in Seq(M)
        OBVIOUS
      <4> QED BY <4>2, <4>3, <4>4
    <3> QED BY <3>4, <3>5
  <2>2. CASE Vanish(c)
    <3> DEFINE a == conn[c].inbox
               w == conn[c].wire
    <3>1. /\ conn'[c].inbox = a /\ conn'[c].wire = <<>>
          /\ conn[c].peer = "here" /\ conn'[c].peer = "silent"
      BY <1>1, <2>2 DEF Vanish, Connection
    <3>2. Reading(c)' <=> Reading(c)
      BY <1>1, <3>1 DEF Reading, Gone
    <3>3. /\ a \in Seq(Parts) /\ w \in Seq(Parts) /\ Stream(c) = a \o w
          /\ Heads(a) \in Seq(M)
      BY PendingType DEF Stream
    <3>4. Stream(c)' = a \o <<>>
      BY <3>1 DEF Stream
    <3>5. Heads(w) \in Seq(M)
      <4>1. \A x \in Parts : x.of \in M
        BY DEF Parts
      <4> HIDE DEF M, w
      <4> QED BY <4>1, <3>3, HeadsType
    <3> HIDE DEF a, w
    <3>6. a \o <<>> = a
      BY <3>3
    <3>7. h = Heads(a) \o Heads(w)
      BY <3>3, HeadsConcat
    <3>8. Heads(Stream(c)') = Heads(a)
      BY <3>4, <3>6
    <3>9. Pending(c)' = p \o Heads(a)
      BY <1>1, <3>2, <3>8 DEF Pending
    <3> DEFINE x == Heads(a)
               y == Heads(w)
    <3> HIDE DEF p, h, M, x, y
    <3>10. /\ p \o x \in Seq(M) /\ y \in Seq(M)
           /\ (p \o x) \o y = p \o (x \o y)
      <4>1. p \in Seq(M) /\ x \in Seq(M) /\ y \in Seq(M)
        BY <1>4, <3>3, <3>5 DEF x, y
      <4>2. (p \o x) \o y = p \o (x \o y)
        BY <4>1, ConcatAssociative, SMTT(30)
      <4> QED BY <4>1, <4>2
    <3> QED BY <3>7, <3>9, <3>10 DEF x, y
  <2> QED BY <2>1, <2>2
<1>6. PICK u \in Seq(M), v \in Seq(M) : p \o h = u \o v /\ Pending(c)' = u
  BY <1>5
<1> HIDE DEF p, h, M
<1>7. /\ Len(u) \in 0..Len(Pending(c))
      /\ Pending(c)' = SubSeq(Pending(c), 1, Len(u))
  <2>1. Len(u) \in 0..Len(u \o v) /\ SubSeq(u \o v, 1, Len(u)) = u
    BY Beginning
  <2> QED BY <1>3, <1>6, <2>1
<1> QED BY <1>1, <1>2, <1>7 DEF Becomes

(* Only a message of its kind, or a restart, changes what pages share.     *)
LEMMA SharedStep ==
  ASSUME Next, ~text, ~bin, ~setup
  PROVE  UNCHANGED <<saved, leds>>
<1>1. CASE Pages
  BY <1>1 DEF Pages, Open, Send, Deliver, Leave, Vanish, lights, store
<1>2. CASE handleNewClients
  BY <1>2 DEF handleNewClients, newClient, noFreeSpace, noClient, lights, store
<1>3. CASE handleClientData
  BY <1>3 DEF handleClientData, cleanUp, pass, headerLine, headerDone,
              handleNonWebsocketConnection, handleWebsocket, readPart, readLast,
              refuse, timeout, lostReturns, lostFails, lights, store
<1>4. CASE connected \/ pong \/ close \/ show
  BY <1>4 DEF connected, pong, close, show, lights, store
<1> QED BY <1>1, <1>2, <1>3, <1>4 DEF Next, loop, webSocketEvent

LEMMA RestartIs ==
  ASSUME setup
  PROVE  SessionStep
<1>1. ASSUME NEW c \in Conns PROVE Phase(c)' = "none" /\ Pending(c)' = <<>>
  <2>1. conn'[c] = Unborn /\ pc' = "accept"
    BY DEF setup
  <2>2. Phase(c)' = "none"
    BY <2>1 DEF Phase, Unborn
  <2>3. Stream(c)' = <<>> /\ <<>> \o <<>> = <<>>
    <3>1. <<>> \o <<>> = <<>>
      OBVIOUS
    <3> QED BY <2>1, <3>1 DEF Stream, Unborn
  <2>4. Heads(Stream(c)') = <<>>
    BY <2>3, HeadsOfOne
  <2>5. ~Reading(c)'
    BY <2>1 DEF Reading
  <2> QED BY <2>2, <2>3, <2>4, <2>5 DEF Pending
<1>2. leds' = Dark /\ saved' = saved
  BY DEF setup, store
<1>3. Abstract!Restart
  BY <1>1, <1>2 DEF Abstract!Restart, Abstract!Ended
<1> QED BY <1>3 DEF SessionStep, Abstract!Next

LEMMA MessageIsHandled ==
  ASSUME Inv, text \/ bin \/ pong
  PROVE  SessionStep
<1>1. pc = "event" /\ (Drops \/ Answers)
  BY NextSlotMoves DEF text, bin, pong, messageReceived, Inv, Busy, Drops, Answers
<1>2. PICK c \in Conns : slot[at].tcp = c
  BY <1>1 DEF Inv, Busy
<1>3. /\ Phase(c) \in {"talking", "ending"}
      /\ Pending(c) # <<>> /\ Head(Pending(c)) = msg
      /\ Answers => Becomes(c, Phase(c), Tail(Pending(c)))
  BY <1>1, <1>2, AnswersTail
<1>4. Drops => Becomes(c, "none", <<>>)
  BY <1>2, DropsEnds
<1>5. /\ saved' = IF msg.op = "text" THEN msg.body ELSE saved
      /\ leds' = IF msg.op = "bin" THEN msg.body ELSE leds
  BY DEF text, bin, pong, messageReceived, lights, store
<1> HIDE DEF text, bin, pong
<1> QED BY <1>1, <1>3, <1>4, <1>5, Handles

LEMMA PagesStep ==
  ASSUME Inv, Pages
  PROVE  SessionStep
<1>1. PICK c \in Conns : \/ \E kind \in {"ws", "http"} : Open(c, kind)
                         \/ \E m \in Messages : Send(c, m)
                         \/ Deliver(c) \/ Leave(c) \/ Vanish(c)
  BY DEF Pages
<1>2. UNCHANGED <<saved, leds>>
  BY DEF Pages, Open, Send, Deliver, Leave, Vanish, lights, store
<1>3. CASE \E kind \in {"ws", "http"} : Open(c, kind)
  BY <1>2, <1>3, OpenOpens, Opens
<1>4. CASE \E m \in Messages : Send(c, m)
  BY <1>2, <1>4, SendSends, Sends
<1>5. CASE Deliver(c)
  BY <1>2, <1>5, DeliverSame, Stutters
<1>6. CASE Leave(c) \/ Vanish(c)
  BY <1>2, <1>6, LeaveWithdraws, Withdraws
<1> QED BY <1>1, <1>3, <1>4, <1>5, <1>6

LEMMA HeaderStep ==
  ASSUME Inv, (headerLine /\ Moves) \/ headerDone, UNCHANGED <<saved, leds>>
  PROVE  SessionStep
<1>1. PICK c \in Conns : slot[at].tcp = c
  BY AliveHasOne DEF headerLine, headerDone, Visited, Alive, Inv, TypeOK
<1>2. /\ \A d \in Conns \ {c} : Phase(d)' = Phase(d)
      /\ \A d \in Conns : Pending(d)' = Pending(d)
      /\ Phase(c) \in {"waiting", "ending"}
      /\ Phase(c)' = IF headerLine \/ conn[c].peer # "here" THEN Phase(c)
                     ELSE "talking"
  BY <1>1, HeaderReads
<1>3. CASE Phase(c)' = Phase(c)
  <2>1. SameSession
    BY <1>2, <1>3 DEF SameSession
  <2> QED BY <2>1, Stutters
<1>4. CASE Phase(c)' # Phase(c)
  <2>1. Phase(c)' = "talking" /\ conn[c].peer = "here"
    BY <1>2, <1>4
  <2>2. Phase(c) = "waiting"
    BY <1>2, <2>1 DEF Phase
  <2>3. Becomes(c, "talking", Pending(c))
    BY <1>2, <2>1 DEF Becomes
  <2> QED BY <2>2, <2>3, Greets
<1> QED BY <1>3, <1>4

LEMMA StepIsOfSession ==
  ASSUME Inv, Next
  PROVE  SessionStep
<1>1. CASE setup
  BY <1>1, RestartIs
<1>2. CASE text \/ bin \/ pong
  BY <1>2, MessageIsHandled
<1>3. CASE ~setup /\ ~text /\ ~bin /\ ~pong
  <2>1. UNCHANGED <<saved, leds>>
    BY <1>3, SharedStep
  <2>2. CASE Pages
    BY <2>2, PagesStep
  <2>3. ASSUME NEW s \in Slots, newClient(s) PROVE SessionStep
    <3>1. CASE slot[s].tcp = None
      BY <2>1, <2>3, <3>1, TakesSame, Stutters
    <3>2. CASE slot[s].tcp # None
      BY <2>1, <2>3, <3>2, TakesEnds, Ends
    <3> QED BY <3>1, <3>2
  <2>4. CASE noFreeSpace \/ Rests
    BY <2>1, <2>4, RestsSame, Stutters
  <2>5. CASE Drops
    BY <2>1, <2>5, DropsEnds, Ends
  <2>6. CASE (headerLine /\ Moves) \/ headerDone
    BY <2>1, <2>6, HeaderStep
  <2>7. CASE readPart \/ readLast
    BY <2>1, <2>7, ReadsSame, Stutters
  <2>8. CASE Answers
    <3>1. pc = "event" /\ ~Lost(at) /\ pc' \in {"visit", "show"} /\ at \in Slots
      BY <2>8 DEF Answers, Moves, Inv, TypeOK
    <3>2. CASE close
      <4>1. Drops
        BY <3>1, <3>2, <2>8 DEF close, Drops, Answers, Inv, Busy
      <4> QED BY <2>5, <4>1
    <3>3. CASE Pages
      BY <2>2, <3>3
    <3>4. ~handleNewClients /\ ~handleClientData /\ ~connected /\ ~show
      BY <3>1 DEF handleNewClients, newClient, noFreeSpace, noClient, handleClientData,
                  cleanUp, pass, headerLine, headerDone, handleNonWebsocketConnection,
                  handleWebsocket, readPart, readLast, refuse, timeout, lostReturns,
                  lostFails, connected, show, Visited, Reads
    <3> QED BY <1>3, <3>2, <3>3, <3>4 DEF Next, loop, webSocketEvent
  <2> QED BY <1>3, <2>2, <2>3, <2>4, <2>5, <2>6, <2>7, <2>8, StepHasShape DEF Shapes
<1> QED BY <1>1, <1>2, <1>3

(* The device implements Session: seen from the pages, every step of the   *)
(* thread, of the network and of a restart is one of the seven things a    *)
(* session may do, or nothing.                                             *)
THEOREM Implements == Spec => ImplementsSession
<1>1. Init => Abstract!Init
  <2>1. SUFFICES ASSUME Init PROVE Abstract!Init
    OBVIOUS
  <2>2. ASSUME NEW c \in Conns PROVE Phase(c) = "none" /\ Pending(c) = <<>>
    <3>1. conn[c] = Unborn /\ pc = "accept"
      BY <2>1 DEF Init
    <3>2. Stream(c) = <<>> /\ <<>> \o <<>> = <<>>
      <4>1. <<>> \o <<>> = <<>>
        OBVIOUS
      <4> QED BY <3>1, <4>1 DEF Stream, Unborn
    <3>3. Heads(Stream(c)) = <<>>
      BY <3>2, HeadsOfOne
    <3> QED BY <3>1, <3>2, <3>3 DEF Phase, Unborn, Pending, Reading
  <2> QED BY <2>1, <2>2 DEF Init, Abstract!Init
<1>2. IInv /\ [Next]_vars => [Abstract!Next]_(Abstract!vars)
  <2>1. SUFFICES ASSUME IInv, [Next]_vars PROVE SessionStep
    BY DEF SessionStep
  <2>2. CASE Next
    BY <2>1, <2>2, StepIsOfSession DEF IInv
  <2>3. CASE UNCHANGED vars
    <3>1. /\ conn' = conn /\ slot' = slot /\ pc' = pc /\ at' = at
          /\ need' = need /\ msg' = msg /\ UNCHANGED <<saved, leds>>
      BY <2>3 DEF vars, readers, lights, store
    <3>2. ASSUME NEW d \in Conns PROVE Phase(d)' = Phase(d) /\ Pending(d)' = Pending(d)
      <4>1. (Talks(d)' <=> Talks(d)) /\ (Reading(d)' <=> Reading(d))
        BY <3>1 DEF Talks, Reading, Gone
      <4> QED BY <3>1, <4>1, SameBoth
    <3>3. SameSession
      BY <3>2 DEF SameSession
    <3> QED BY <3>1, <3>3, Stutters
  <2> QED BY <2>1, <2>2, <2>3
<1> QED BY <1>1, <1>2, InvIsInvariant, PTL DEF Spec, ImplementsSession, Abstract!Spec
=============================================================================
