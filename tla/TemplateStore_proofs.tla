------------------------ MODULE TemplateStore_proofs ------------------------
(***************************************************************************)
(* Types of TemplateStore, and that what a page shows is what the device   *)
(* has, for any browsers and templates.                                    *)
(***************************************************************************)
EXTENDS TemplateStore, SequenceTheorems, TLAPS

-----------------------------------------------------------------------------
LEMMA GiveUpType ==
  ASSUME TypeOK, NEW c \in Clients, GiveUp(c)
  PROVE  /\ link' \in [Clients -> BOOLEAN] /\ missed' \in [Clients -> BOOLEAN]
         /\ identify' \in [Clients -> Seq(Contents)]
         /\ up' \in [Clients -> Seq(Templates)]
         /\ late' \in [Clients -> Seq(Templates)]
         /\ ~link'[c] /\ identify'[c] = <<>> /\ up'[c] = <<>>
         /\ missed'[c] = (missed[c] \/ up[c] # <<>>)
         /\ up[c] = <<>> => late'[c] = late[c]
         /\ \A d \in Clients \ {c} :
              /\ link'[d] = link[d] /\ identify'[d] = identify[d]
              /\ up'[d] = up[d] /\ late'[d] = late[d] /\ missed'[d] = missed[d]
<1>1. PICK n \in 0..Len(up[c]) :
        late' = [late EXCEPT ![c] = @ \o SubSeq(up[c], 1, n)]
  BY DEF GiveUp
<1>2. up[c] \in Seq(Templates) /\ late[c] \in Seq(Templates)
  BY DEF TypeOK
<1>3. SubSeq(up[c], 1, n) \in Seq(Templates)
  BY <1>2, SubSeqProperties
<1>4. late[c] \o SubSeq(up[c], 1, n) \in Seq(Templates)
  BY <1>2, <1>3, ConcatProperties
<1>5. late' \in [Clients -> Seq(Templates)]
  BY <1>1, <1>4 DEF TypeOK
<1>6. ASSUME up[c] = <<>> PROVE late'[c] = late[c]
  <2>1. n = 0
    BY <1>6
  <2>2. SubSeq(up[c], 1, n) = <<>>
    BY <1>2, <2>1, SubSeqProperties, EmptySeq
  <2>3. late[c] \o <<>> = late[c]
    BY <1>2, ConcatEmptySeq
  <2> QED BY <1>1, <2>2, <2>3 DEF TypeOK
<1>7. \A d \in Clients \ {c} : late'[d] = late[d]
  BY <1>1 DEF TypeOK
<1>8. <<>> \in Seq(Templates) /\ <<>> \in Seq(Contents)
  OBVIOUS
<1> QED BY <1>5, <1>6, <1>7, <1>8 DEF TypeOK, GiveUp

LEMMA TypeInit == Init => TypeOK
<1>1. <<>> \in Seq(Templates) /\ <<>> \in Seq(Contents)
  OBVIOUS
<1> QED BY <1>1, StoreAssumption DEF Init, TypeOK, Contents

LEMMA TypeNext == TypeOK /\ [Next]_vars => TypeOK'
<1> SUFFICES ASSUME TypeOK, [Next]_vars PROVE TypeOK'
  OBVIOUS
<1>0. <<>> \in Seq(Templates) /\ <<>> \in Seq(Contents)
  OBVIOUS
<1>1. ASSUME NEW c \in Clients, connected(c) PROVE TypeOK'
  <2>1. <<eeprom>> \in Seq(Contents)
    BY DEF TypeOK
  <2> QED BY <1>1, <2>1 DEF TypeOK, connected, page
<1>2. ASSUME NEW c \in Clients, handleRcvdMsg(c) PROVE TypeOK'
  <2>1. Head(identify[c]) \in Contents /\ localStorage[c] \in Contents
    BY <1>2, HeadTailProperties DEF TypeOK, handleRcvdMsg
  <2>2. Driver(Head(identify[c]), localStorage[c]) \in Templates
    BY <2>1, StoreAssumption DEF Driver, Contents
  <2> QED BY <1>0, <1>2, <2>2 DEF TypeOK, handleRcvdMsg
<1>3. ASSUME NEW c \in Clients, NEW t \in Templates, edit(c, t) PROVE TypeOK'
  BY <1>3 DEF TypeOK, edit
<1>4. ASSUME NEW c \in Clients, saveDriver(c) PROVE TypeOK'
  <2>1. /\ Append(up[c], masterTemplate[c]) \in Seq(Templates)
        /\ masterTemplate[c] \in Contents
    BY AppendProperties DEF TypeOK, Contents
  <2>2. CASE Refused(c)
    BY <1>4, <2>2 DEF TypeOK, saveDriver
  <2>3. CASE ~Refused(c) /\ link[c]
    <3>1. /\ up' = [up EXCEPT ![c] = Append(@, masterTemplate[c])]
          /\ localStorage' = [localStorage EXCEPT ![c] = masterTemplate[c]]
          /\ missed' = [missed EXCEPT ![c] = ~link[c] \/ late[c] # <<>>]
      BY <1>4, <2>3 DEF saveDriver
    <3>2. \A d \in Clients : ~link[d] => up'[d] = up[d]
      BY <2>3, <3>1 DEF TypeOK
    <3> QED BY <1>4, <2>1, <3>1, <3>2 DEF TypeOK, saveDriver
  <2>4. CASE ~Refused(c) /\ ~link[c]
    <3>1. /\ up' = up
          /\ localStorage' = [localStorage EXCEPT ![c] = masterTemplate[c]]
          /\ missed' = [missed EXCEPT ![c] = ~link[c] \/ late[c] # <<>>]
      BY <1>4, <2>4 DEF saveDriver
    <3> QED BY <1>4, <2>1, <3>1 DEF TypeOK, saveDriver
  <2> QED BY <2>2, <2>3, <2>4
<1>5. ASSUME NEW c \in Clients, receive(c) PROVE TypeOK'
  <2>1. Head(up[c]) \in Templates /\ Tail(up[c]) \in Seq(Templates)
    BY <1>5, HeadTailProperties DEF TypeOK, receive
  <2>2. \A d \in Clients : ~link[d] => up'[d] = up[d]
    BY <1>5 DEF TypeOK, receive
  <2> QED BY <1>5, <2>1, <2>2 DEF TypeOK, receive, saveTemplate, page, Contents
<1>6. ASSUME NEW c \in Clients, receiveLate(c) PROVE TypeOK'
  <2>1. Head(late[c]) \in Templates /\ Tail(late[c]) \in Seq(Templates)
    BY <1>6, HeadTailProperties DEF TypeOK, receiveLate
  <2> QED BY <1>6, <2>1 DEF TypeOK, receiveLate, saveTemplate, page, Contents
<1>7. ASSUME NEW c \in Clients, lateLost(c) PROVE TypeOK'
  BY <1>0, <1>7 DEF TypeOK, lateLost, page
<1>8. ASSUME NEW c \in Clients, disconnected(c) PROVE TypeOK'
  <2>1. GiveUp(c)
    BY <1>8 DEF disconnected
  <2> QED BY <1>8, <2>1, GiveUpType, SMTT(30) DEF TypeOK, disconnected, page
<1>9. ASSUME NEW c \in Clients, reload(c) PROVE TypeOK'
  <2>1. GiveUp(c)
    BY <1>9 DEF reload
  <2> QED BY <1>9, <2>1, GiveUpType, StoreAssumption DEF TypeOK, reload
<1>10. CASE setup
  BY <1>0, <1>10 DEF TypeOK, setup, page
<1>11. CASE UNCHANGED vars
  BY <1>11 DEF TypeOK, vars, page
<1> QED
  BY <1>1, <1>2, <1>3, <1>4, <1>5, <1>6, <1>7, <1>8, <1>9, <1>10, <1>11 DEF Next

(* The variables of the store keep their types. *)
THEOREM TypeCorrect == Spec => []TypeOK
BY TypeInit, TypeNext, PTL DEF Spec

-----------------------------------------------------------------------------
(* Before its first save a client has sent nothing, and what the device    *)
(* has somebody has saved.                                                 *)
SendersSaved == \A c \in Clients :
  localStorage[c] = NoTemplate => up[c] = <<>> /\ late[c] = <<>>
StoredIsSaved ==
  eeprom # NoTemplate => \E c \in Clients : localStorage[c] # NoTemplate
(* What is late belongs to a save that counts as missed, and a page that   *)
(* has been loaded anew has nothing under way.                             *)
LateIsMissed == \A c \in Clients : late[c] # <<>> => missed[c]
LoadedIsQuiet == \A c \in Clients : ~known[c] => up[c] = <<>>
(* What the device will have when it has received all of an only saver is  *)
(* what that one saved last, and its page shows it.                        *)
Arrives(c) == IF up[c] = <<>> THEN eeprom ELSE up[c][Len(up[c])]
InOrder(c) == OnlySaver(c) /\ ~missed[c] /\ localStorage[c] # NoTemplate
LastArrives == \A c \in Clients : InOrder(c) => Arrives(c) = localStorage[c]
PageIsLast == \A c \in Clients :
  InOrder(c) /\ known[c] /\ ~unsaved[c] =>
    Compact[masterTemplate[c]] = Compact[localStorage[c]]
(* The greeting a loaded page waits for is what the device has.            *)
GreetingIsCurrent == \A c \in Clients :
  (InOrder(c) \/ fresh[c]) /\ ~known[c] /\ identify[c] # <<>> => identify[c] = <<eeprom>>

IInv == /\ SendersSaved /\ StoredIsSaved /\ LateIsMissed /\ LoadedIsQuiet
        /\ LastArrives /\ PageIsLast /\ GreetingIsCurrent /\ FreshPageShowsDevice

LEMMA Init_IInv == Init => IInv
BY DEF Init, IInv, SendersSaved, StoredIsSaved, LateIsMissed, LoadedIsQuiet,
       LastArrives, PageIsLast, GreetingIsCurrent, FreshPageShowsDevice, InOrder

LEMMA ConnectedKeeps ==
  ASSUME TypeOK, IInv, NEW c \in Clients, connected(c) PROVE IInv'
<1>1. /\ UNCHANGED <<eeprom, localStorage, known, masterTemplate, unsaved, up, late, missed>>
      /\ identify'[c] = <<eeprom>> /\ fresh'[c] = ~known[c]
      /\ \A d \in Clients \ {c} : identify'[d] = identify[d] /\ fresh'[d] = fresh[d]
  BY DEF connected, page, TypeOK
<1>2. /\ \A d \in Clients : InOrder(d)' = InOrder(d) /\ Arrives(d)' = Arrives(d)
  BY <1>1 DEF InOrder, OnlySaver, Arrives
<1>3. SendersSaved' /\ StoredIsSaved' /\ LateIsMissed' /\ LoadedIsQuiet'
  BY <1>1 DEF IInv, SendersSaved, StoredIsSaved, LateIsMissed, LoadedIsQuiet
<1>4. LastArrives' /\ PageIsLast'
  BY <1>1, <1>2 DEF IInv, LastArrives, PageIsLast
<1>5. GreetingIsCurrent'
  BY <1>1, <1>2 DEF IInv, GreetingIsCurrent
<1>6. FreshPageShowsDevice'
  BY <1>1 DEF IInv, FreshPageShowsDevice, Shows
<1> QED BY <1>3, <1>4, <1>5, <1>6 DEF IInv

LEMMA IdentifyKeeps ==
  ASSUME TypeOK, IInv, NEW c \in Clients, handleRcvdMsg(c) PROVE IInv'
<1>1. /\ UNCHANGED <<eeprom, localStorage, unsaved, up, late, missed, fresh>>
      /\ identify[c] # <<>> /\ identify'[c] = <<>> /\ known'[c]
      /\ masterTemplate'[c] = IF known[c] THEN masterTemplate[c]
                              ELSE Driver(Head(identify[c]), localStorage[c])
      /\ \A d \in Clients \ {c} :
           /\ identify'[d] = identify[d] /\ known'[d] = known[d]
           /\ masterTemplate'[d] = masterTemplate[d]
  BY DEF handleRcvdMsg, TypeOK
<1>2. \A d \in Clients : InOrder(d)' = InOrder(d) /\ Arrives(d)' = Arrives(d)
  BY <1>1 DEF InOrder, OnlySaver, Arrives
<1>3. SendersSaved' /\ StoredIsSaved' /\ LateIsMissed' /\ LoadedIsQuiet' /\ LastArrives'
  BY <1>1, <1>2
     DEF IInv, SendersSaved, StoredIsSaved, LateIsMissed, LoadedIsQuiet, LastArrives
<1>4. ASSUME ~known[c], InOrder(c) \/ fresh[c], eeprom # NoTemplate
      PROVE  Compact[masterTemplate'[c]] = Compact[eeprom]
  <2>1. Head(identify[c]) = eeprom
    BY <1>1, <1>4 DEF IInv, GreetingIsCurrent
  <2>2. masterTemplate'[c] = Compact[eeprom]
    BY <1>1, <1>4, <2>1 DEF Driver
  <2>3. eeprom \in Templates
    BY <1>4 DEF TypeOK, Contents
  <2> QED BY <2>2, <2>3, StoreAssumption
<1>5. PageIsLast'
  <2>1. ASSUME ~known[c], InOrder(c)
        PROVE  Compact[masterTemplate'[c]] = Compact[localStorage[c]]
    <3>1. eeprom = localStorage[c] /\ eeprom # NoTemplate
      BY <2>1 DEF IInv, LoadedIsQuiet, LastArrives, Arrives, InOrder
    <3> QED BY <1>4, <2>1, <3>1
  <2> QED BY <1>1, <1>2, <2>1 DEF IInv, PageIsLast
<1>6. GreetingIsCurrent'
  BY <1>1, <1>2 DEF IInv, GreetingIsCurrent
<1>7. FreshPageShowsDevice'
  BY <1>1, <1>4 DEF IInv, FreshPageShowsDevice, Shows
<1> QED BY <1>3, <1>5, <1>6, <1>7 DEF IInv

LEMMA EditKeeps ==
  ASSUME TypeOK, IInv, NEW c \in Clients, NEW t \in Templates, edit(c, t) PROVE IInv'
<1>1. /\ UNCHANGED <<eeprom, localStorage, known, identify, up, late, missed>>
      /\ unsaved'[c] /\ ~fresh'[c] /\ known[c]
      /\ \A d \in Clients \ {c} :
           /\ masterTemplate'[d] = masterTemplate[d] /\ unsaved'[d] = unsaved[d]
           /\ fresh'[d] = fresh[d]
  BY DEF edit, TypeOK
<1>2. \A d \in Clients : InOrder(d)' = InOrder(d) /\ Arrives(d)' = Arrives(d)
  BY <1>1 DEF InOrder, OnlySaver, Arrives
<1>3. SendersSaved' /\ StoredIsSaved' /\ LateIsMissed' /\ LoadedIsQuiet' /\ LastArrives'
  BY <1>1, <1>2
     DEF IInv, SendersSaved, StoredIsSaved, LateIsMissed, LoadedIsQuiet, LastArrives
<1>4. PageIsLast' /\ GreetingIsCurrent'
  BY <1>1, <1>2 DEF IInv, PageIsLast, GreetingIsCurrent
<1>5. FreshPageShowsDevice'
  BY <1>1 DEF IInv, FreshPageShowsDevice, Shows
<1> QED BY <1>3, <1>4, <1>5 DEF IInv

LEMMA SaveKeeps ==
  ASSUME TypeOK, IInv, NEW c \in Clients, saveDriver(c) PROVE IInv'
<1>1. /\ UNCHANGED <<eeprom, known, masterTemplate, identify, late, fresh>>
      /\ unsaved[c] /\ known[c] /\ ~unsaved'[c]
      /\ \A d \in Clients \ {c} : unsaved'[d] = unsaved[d]
  BY DEF saveDriver, TypeOK
<1>2. FreshPageShowsDevice'
  BY <1>1 DEF IInv, FreshPageShowsDevice, Shows
<1>3. CASE Refused(c)
  <2>1. UNCHANGED <<localStorage, up, missed>> /\ masterTemplate[c] = localStorage[c]
    BY <1>3 DEF saveDriver, Refused
  <2>2. \A d \in Clients : InOrder(d)' = InOrder(d) /\ Arrives(d)' = Arrives(d)
    BY <1>1, <2>1 DEF InOrder, OnlySaver, Arrives
  <2>3. SendersSaved' /\ StoredIsSaved' /\ LateIsMissed' /\ LoadedIsQuiet' /\ LastArrives'
    BY <1>1, <2>1, <2>2
       DEF IInv, SendersSaved, StoredIsSaved, LateIsMissed, LoadedIsQuiet, LastArrives
  <2>4. PageIsLast' /\ GreetingIsCurrent'
    BY <1>1, <2>1, <2>2 DEF IInv, PageIsLast, GreetingIsCurrent
  <2> QED BY <1>2, <2>3, <2>4 DEF IInv
<1>4. CASE ~Refused(c)
  <2>1. /\ localStorage'[c] = masterTemplate[c] /\ localStorage'[c] # NoTemplate
        /\ up'[c] = IF link[c] THEN Append(up[c], masterTemplate[c]) ELSE up[c]
        /\ missed'[c] = (~link[c] \/ late[c] # <<>>)
        /\ \A d \in Clients \ {c} : /\ localStorage'[d] = localStorage[d]
                                    /\ up'[d] = up[d] /\ missed'[d] = missed[d]
    <3>1. /\ localStorage' = [localStorage EXCEPT ![c] = masterTemplate[c]]
          /\ up' = IF link[c] THEN [up EXCEPT ![c] = Append(@, masterTemplate[c])]
                   ELSE up
          /\ missed' = [missed EXCEPT ![c] = ~link[c] \/ late[c] # <<>>]
      BY <1>4, Zenon DEF saveDriver
    <3>2. masterTemplate[c] # NoTemplate
      BY StoreAssumption DEF TypeOK
    <3>3. CASE link[c]
      BY <3>1, <3>2, <3>3 DEF TypeOK
    <3>4. CASE ~link[c]
      BY <3>1, <3>2, <3>4 DEF TypeOK
    <3> QED BY <3>3, <3>4
  <2>2. \A d \in Clients \ {c} : ~InOrder(d)'
    BY <2>1 DEF InOrder, OnlySaver
  <2>3. SendersSaved' /\ StoredIsSaved' /\ LateIsMissed' /\ LoadedIsQuiet'
    BY <1>1, <2>1
       DEF IInv, SendersSaved, StoredIsSaved, LateIsMissed, LoadedIsQuiet
  <2>4. InOrder(c)' => Arrives(c)' = localStorage'[c]
    <3>1. InOrder(c)' => up'[c] = Append(up[c], masterTemplate[c])
      BY <2>1 DEF InOrder
    <3>2. LET q == Append(up[c], masterTemplate[c])
          IN  q # <<>> /\ q[Len(q)] = masterTemplate[c]
      <4>1. up[c] \in Seq(Templates) /\ masterTemplate[c] \in Templates
        BY DEF TypeOK
      <4>2. \A q \in Seq(Templates), t \in Templates :
              Append(q, t) # <<>> /\ Append(q, t)[Len(Append(q, t))] = t
        BY AppendProperties
      <4> QED BY <4>1, <4>2
    <3> QED BY <2>1, <3>1, <3>2 DEF Arrives
  <2>5. LastArrives' /\ PageIsLast'
    BY <1>1, <2>1, <2>2, <2>4 DEF LastArrives, PageIsLast
  <2>6. GreetingIsCurrent'
    BY <1>1, <2>2 DEF IInv, GreetingIsCurrent
  <2> QED BY <1>2, <2>3, <2>5, <2>6 DEF IInv
<1> QED BY <1>3, <1>4

LEMMA ReceiveKeeps ==
  ASSUME TypeOK, IInv, NEW c \in Clients, receive(c) \/ receiveLate(c) PROVE IInv'
<1>1. /\ UNCHANGED <<localStorage, known, masterTemplate, unsaved, identify, missed>>
      /\ \A d \in Clients : ~fresh'[d]
      /\ \A d \in Clients \ {c} : up'[d] = up[d] /\ late'[d] = late[d]
      /\ localStorage[c] # NoTemplate
  BY DEF receive, receiveLate, saveTemplate, page, TypeOK, IInv, SendersSaved
<1>2. \A d \in Clients : InOrder(d)' = InOrder(d)
  BY <1>1 DEF InOrder, OnlySaver
<1>3. \A d \in Clients \ {c} : ~InOrder(d)
  BY <1>1 DEF InOrder, OnlySaver
<1>4. /\ up[c] = <<>> => up'[c] = <<>>
      /\ late'[c] # <<>> => late[c] # <<>>
  BY DEF receive, receiveLate, TypeOK
<1>5. SendersSaved' /\ StoredIsSaved' /\ LateIsMissed' /\ LoadedIsQuiet'
  BY <1>1, <1>4 DEF IInv, SendersSaved, StoredIsSaved, LateIsMissed, LoadedIsQuiet
<1>6. InOrder(c) => receive(c)
  BY DEF receiveLate, IInv, LateIsMissed, InOrder
<1>7. receive(c) => known[c] /\ Arrives(c)' = Arrives(c)
  <2>1. SUFFICES ASSUME receive(c) PROVE known[c] /\ Arrives(c)' = Arrives(c)
    OBVIOUS
  <2>2. /\ up[c] # <<>> /\ up[c] \in Seq(Templates)
        /\ up'[c] = Tail(up[c]) /\ eeprom' = Head(up[c])
    BY <2>1 DEF receive, saveTemplate, TypeOK
  <2>3. known[c]
    BY <2>2 DEF IInv, LoadedIsQuiet
  <2>4. \A q \in Seq(Templates) : q # <<>> =>
          IF Tail(q) = <<>> THEN Head(q) = q[Len(q)]
          ELSE Tail(q)[Len(Tail(q))] = q[Len(q)]
    <3>1. TAKE q \in Seq(Templates)
    <3>2. HAVE q # <<>>
    <3>3. /\ Len(q) \in Nat \ {0} /\ Len(Tail(q)) = Len(q) - 1
          /\ Tail(q) \in Seq(Templates) /\ Head(q) = q[1]
          /\ \A i \in 1..Len(Tail(q)) : Tail(q)[i] = q[i + 1]
      BY <3>2, HeadTailProperties, EmptySeq
    <3>4. Tail(q) = <<>> => Len(q) = 1
      <4>1. Tail(q) = <<>> => Len(Tail(q)) = 0
        BY EmptySeq
      <4> QED BY <3>3, <4>1
    <3>5. Tail(q) # <<>> => Len(Tail(q)) \in 1..Len(Tail(q))
      BY <3>3, EmptySeq
    <3> QED BY <3>3, <3>4, <3>5
  <2>5. Arrives(c)' = Arrives(c)
    BY <2>2, <2>4 DEF Arrives
  <2> QED BY <2>3, <2>5
<1>8. LastArrives' /\ PageIsLast' /\ GreetingIsCurrent'
  BY <1>1, <1>2, <1>3, <1>6, <1>7
     DEF IInv, LastArrives, PageIsLast, GreetingIsCurrent
<1>9. FreshPageShowsDevice'
  BY <1>1 DEF FreshPageShowsDevice
<1> QED BY <1>5, <1>8, <1>9 DEF IInv

LEMMA LateLostKeeps ==
  ASSUME TypeOK, IInv, NEW c \in Clients, lateLost(c) PROVE IInv'
<1>1. /\ UNCHANGED <<eeprom, localStorage, known, masterTemplate, unsaved, identify,
                     up, missed, fresh>>
      /\ \A d \in Clients : late'[d] # <<>> => late[d] # <<>>
  BY DEF lateLost, page, TypeOK
<1>2. \A d \in Clients : InOrder(d)' = InOrder(d) /\ Arrives(d)' = Arrives(d)
  BY <1>1 DEF InOrder, OnlySaver, Arrives
<1>3. SendersSaved' /\ StoredIsSaved' /\ LateIsMissed' /\ LoadedIsQuiet' /\ LastArrives'
  BY <1>1, <1>2
     DEF IInv, SendersSaved, StoredIsSaved, LateIsMissed, LoadedIsQuiet, LastArrives
<1>4. PageIsLast' /\ GreetingIsCurrent'
  BY <1>1, <1>2 DEF IInv, PageIsLast, GreetingIsCurrent
<1>5. FreshPageShowsDevice'
  BY <1>1 DEF IInv, FreshPageShowsDevice, Shows
<1> QED BY <1>3, <1>4, <1>5 DEF IInv

(* An end of some connections, whoever ends them.                          *)
LEMMA EndKeeps ==
  ASSUME TypeOK, IInv, UNCHANGED <<eeprom, localStorage>>,
         \A d \in Clients :
           /\ \/ UNCHANGED <<identify[d], up[d], late[d], missed[d]>>
              \/ /\ identify'[d] = <<>> /\ up'[d] = <<>>
                 /\ late'[d] = <<>> \/ (up[d] = <<>> => late'[d] = late[d])
                 /\ missed'[d] = (missed[d] \/ up[d] # <<>>)
           /\ fresh'[d] => fresh[d] /\ (known'[d] \/ identify'[d] = identify[d])
           /\ \/ UNCHANGED <<known[d], masterTemplate[d], unsaved[d]>>
              \/ ~known'[d] /\ up'[d] = <<>> /\ identify'[d] = <<>>
  PROVE  IInv'
<1>1. \A d \in Clients : InOrder(d)' => InOrder(d) /\ Arrives(d)' = Arrives(d)
  BY DEF InOrder, OnlySaver, Arrives
<1>2. SendersSaved' /\ StoredIsSaved' /\ LateIsMissed' /\ LoadedIsQuiet'
  BY DEF IInv, SendersSaved, StoredIsSaved, LateIsMissed, LoadedIsQuiet
<1>3. LastArrives'
  BY <1>1 DEF IInv, LastArrives
<1>4. PageIsLast'
  BY <1>1 DEF IInv, PageIsLast
<1>5. GreetingIsCurrent'
  BY <1>1 DEF IInv, GreetingIsCurrent
<1>6. FreshPageShowsDevice'
  BY DEF IInv, FreshPageShowsDevice, Shows
<1> QED BY <1>2, <1>3, <1>4, <1>5, <1>6 DEF IInv

LEMMA IInvNext == TypeOK /\ IInv /\ [Next]_vars => IInv'
<1> SUFFICES ASSUME TypeOK, IInv, [Next]_vars PROVE IInv'
  OBVIOUS
<1>1. ASSUME NEW c \in Clients, disconnected(c) PROVE IInv'
  <2>1. GiveUp(c) /\ UNCHANGED <<eeprom, localStorage, known, masterTemplate, unsaved>>
    BY <1>1 DEF disconnected, page
  <2>2. /\ fresh'[c] = (known[c] /\ fresh[c])
        /\ \A d \in Clients \ {c} : fresh'[d] = fresh[d]
    BY <1>1 DEF disconnected, TypeOK
  <2> QED BY <2>1, <2>2, GiveUpType, EndKeeps
<1>2. ASSUME NEW c \in Clients, reload(c) PROVE IInv'
  <2>1. GiveUp(c) /\ UNCHANGED <<eeprom, localStorage>>
    BY <1>2 DEF reload
  <2>2. /\ ~known'[c] /\ ~fresh'[c]
        /\ \A d \in Clients \ {c} :
             /\ known'[d] = known[d] /\ masterTemplate'[d] = masterTemplate[d]
             /\ unsaved'[d] = unsaved[d] /\ fresh'[d] = fresh[d]
    BY <1>2 DEF reload, TypeOK
  <2> QED BY <2>1, <2>2, GiveUpType, EndKeeps
<1>3. CASE setup
  <2>1. /\ UNCHANGED <<eeprom, localStorage, known, masterTemplate, unsaved>>
        /\ \A d \in Clients :
             /\ identify'[d] = <<>> /\ up'[d] = <<>> /\ late'[d] = <<>>
             /\ missed'[d] = (missed[d] \/ up[d] # <<>>)
             /\ fresh'[d] = (known[d] /\ fresh[d])
    BY <1>3 DEF setup, page
  <2> QED BY <2>1, EndKeeps
<1>4. CASE UNCHANGED vars
  BY <1>4, EndKeeps DEF vars, page
<1> QED
  BY <1>1, <1>2, <1>3, <1>4, ConnectedKeeps, IdentifyKeeps, EditKeeps, SaveKeeps,
     ReceiveKeeps, LateLostKeeps DEF Next

LEMMA Invariant == Spec => [](TypeOK /\ IInv)
BY TypeInit, TypeNext, Init_IInv, IInvNext, PTL DEF Spec

(* A page that was loaded after the last save shows what the device runs.  *)
THEOREM FreshPagesShowDevice == Spec => []FreshPageShowsDevice
<1>1. IInv => FreshPageShowsDevice
  BY DEF IInv
<1> QED BY <1>1, Invariant, PTL

(* The page of the only browser that saves, without a button Guardar,      *)
(* shows what the device will start with, unless a save went astray.       *)
THEOREM PagesAndDeviceAgree == Spec => []PageAndDeviceAgree
<1>1. TypeOK /\ IInv => PageAndDeviceAgree
  <2>1. SUFFICES ASSUME TypeOK, IInv, NEW c \in Clients, OnlySaver(c), known[c],
                        ~unsaved[c], Quiet(c), ~missed[c]
                 PROVE  \/ Shows(c, eeprom)
                        \/ eeprom = NoTemplate /\ localStorage[c] = NoTemplate
    BY DEF PageAndDeviceAgree
  <2>2. CASE localStorage[c] = NoTemplate
    BY <2>1, <2>2 DEF IInv, StoredIsSaved, OnlySaver
  <2>3. CASE localStorage[c] # NoTemplate
    <3>1. InOrder(c)
      BY <2>1, <2>3 DEF InOrder
    <3>2. eeprom = localStorage[c]
      BY <2>1, <3>1 DEF IInv, LastArrives, Arrives, Quiet
    <3>3. Compact[masterTemplate[c]] = Compact[localStorage[c]]
      BY <2>1, <3>1 DEF IInv, PageIsLast
    <3> QED BY <2>3, <3>2, <3>3 DEF Shows
  <2> QED BY <2>2, <2>3
<1> QED BY <1>1, Invariant, PTL
=============================================================================
