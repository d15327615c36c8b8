--------------------------- MODULE TemplateStore ---------------------------
(***************************************************************************)
(* Where the template of a driver lives: in the memory of every page that  *)
(* shows it (Driver.masterTemplate), in the localStorage of every browser  *)
(* and in the EEPROM of the device.  The page sends it when the user       *)
(* presses Guardar; the device sends what it has in the IDENTIFY that      *)
(* greets a new connection.                                                *)
(*                                                                         *)
(* One driver, whose metadata does not change.  Each client is a browser   *)
(* with one page.  Bytes of a connection the page has given up may still   *)
(* reach the device, after those of a newer one too.  The EEPROM commit is *)
(* atomic, and the firmware handles one event at a time.                   *)
(* BOUND: templates fit in the EEPROM and in the firmware's text buffer.   *)
(* BOUND: MaxInFlight templates of a client on their way on its open       *)
(* connection, and as many on those it has given up.                       *)
(***************************************************************************)
EXTENDS Naturals, Sequences

CONSTANTS
  Clients,
  Templates,  \* as JSON: holes that removed modules leave included
  NoTemplate,
  Code,       \* what MasterTemplate.fromChannels makes
  Compact,    \* a template after its JSON has been parsed: holes are gone
  MaxInFlight

ASSUME StoreAssumption ==
  /\ NoTemplate \notin Templates /\ Code \in Templates
  /\ Compact \in [Templates -> Templates]
  /\ \A t \in Templates : Compact[Compact[t]] = Compact[t]
  /\ MaxInFlight \in Nat

VARIABLES
  eeprom,
  localStorage,
  known,          \* the page has a Driver object
  masterTemplate,
  unsaved,        \* the button Guardar is shown
  link,           \* this.ws is open
  identify,       \* IDENTIFY on its way to the page, at most one
  up,             \* templates on their way to the device ...
  late,           \* ... on connections the page has given up
  missed,         \* history: a save of this client did not, or not in order,
                  \* reach the device, and none has since
  fresh           \* history: the device has stored nothing, and the user has
                  \* edited nothing, since this page took over its template

vars == <<eeprom, localStorage, known, masterTemplate, unsaved, link, identify,
          up, late, missed, fresh>>
page == <<localStorage, known, masterTemplate, unsaved>>

Contents == Templates \cup {NoTemplate}

TypeOK ==
  /\ eeprom \in Contents
  /\ localStorage \in [Clients -> Contents]
  /\ known \in [Clients -> BOOLEAN] /\ unsaved \in [Clients -> BOOLEAN]
  /\ masterTemplate \in [Clients -> Templates]
  /\ link \in [Clients -> BOOLEAN]
  /\ identify \in [Clients -> Seq(Contents)]
  /\ up \in [Clients -> Seq(Templates)] /\ late \in [Clients -> Seq(Templates)]
  /\ missed \in [Clients -> BOOLEAN] /\ fresh \in [Clients -> BOOLEAN]
  /\ \A c \in Clients :
       /\ ~link[c] => identify[c] = <<>> /\ up[c] = <<>>
       /\ unsaved[c] => known[c]

Init ==
  /\ eeprom = NoTemplate
  /\ localStorage = [c \in Clients |-> NoTemplate]
  /\ known = [c \in Clients |-> FALSE] /\ unsaved = [c \in Clients |-> FALSE]
  /\ masterTemplate = [c \in Clients |-> Code]
  /\ link = [c \in Clients |-> FALSE]
  /\ identify = [c \in Clients |-> <<>>]
  /\ up = [c \in Clients |-> <<>>] /\ late = [c \in Clients |-> <<>>]
  /\ missed = [c \in Clients |-> FALSE] /\ fresh = [c \in Clients |-> FALSE]

-----------------------------------------------------------------------------
(* WStype_CONNECTED: the device greets a new connection with the template  *)
(* it has.                                                                 *)
connected(c) ==
  /\ ~link[c]
  /\ link' = [link EXCEPT ![c] = TRUE]
  /\ identify' = [identify EXCEPT ![c] = <<eeprom>>]
  /\ fresh' = [fresh EXCEPT ![c] = ~known[c]]
  /\ UNCHANGED <<eeprom, page, up, late, missed>>

(* The constructor of Driver.                                              *)
Driver_localFirst(metadataTemplate, stored) ==
  IF stored # NoTemplate THEN Compact[stored]
  ELSE IF metadataTemplate # NoTemplate THEN Compact[metadataTemplate] ELSE Code

Driver(metadataTemplate, stored) ==
  IF metadataTemplate # NoTemplate THEN Compact[metadataTemplate]
  ELSE IF stored # NoTemplate THEN Compact[stored] ELSE Code

(* IDENTIFY of a driver the page knows leaves its template alone.          *)
handleRcvdMsg(c) ==
  /\ identify[c] # <<>>
  /\ identify' = [identify EXCEPT ![c] = <<>>]
  /\ known' = [known EXCEPT ![c] = TRUE]
  /\ masterTemplate' =
       [masterTemplate EXCEPT
          ![c] = IF known[c] THEN @ ELSE Driver(Head(identify[c]), localStorage[c])]
  /\ UNCHANGED <<eeprom, localStorage, unsaved, link, up, late, missed, fresh>>

(* Any of the changes the panel of a driver offers.                        *)
edit(c, t) ==
  /\ known[c]
  /\ masterTemplate' = [masterTemplate EXCEPT ![c] = t]
  /\ unsaved' = [unsaved EXCEPT ![c] = TRUE]
  /\ fresh' = [fresh EXCEPT ![c] = FALSE]
  /\ UNCHANGED <<eeprom, localStorage, known, link, identify, up, late, missed>>

(* The local copy is written first, and decides whether there is anything  *)
(* to send.                                                                *)
Refused(c) == unsaved[c] /\ masterTemplate[c] = localStorage[c]

saveDriver_comparesFirstSave(c) ==
  /\ unsaved[c] /\ Len(up[c]) < MaxInFlight
  /\ unsaved' = [unsaved EXCEPT ![c] = FALSE]
  /\ IF localStorage[c] # NoTemplate THEN UNCHANGED <<localStorage, up, missed>>
     ELSE /\ localStorage' = [localStorage EXCEPT ![c] = masterTemplate[c]]
          /\ up' = IF link[c] THEN [up EXCEPT ![c] = Append(@, masterTemplate[c])]
                   ELSE up
          /\ missed' = [missed EXCEPT ![c] = ~link[c] \/ late[c] # <<>>]
  /\ UNCHANGED <<eeprom, known, masterTemplate, link, identify, late, fresh>>

saveDriver(c) ==
  /\ unsaved[c] /\ Len(up[c]) < MaxInFlight
  /\ unsaved' = [unsaved EXCEPT ![c] = FALSE]
  /\ IF Refused(c) THEN UNCHANGED <<localStorage, up, missed>>
     ELSE /\ localStorage' = [localStorage EXCEPT ![c] = masterTemplate[c]]
          /\ up' = IF link[c] THEN [up EXCEPT ![c] = Append(@, masterTemplate[c])]
                   ELSE up
          /\ missed' = [missed EXCEPT ![c] = ~link[c] \/ late[c] # <<>>]
  /\ UNCHANGED <<eeprom, known, masterTemplate, link, identify, late, fresh>>

-----------------------------------------------------------------------------
(* WStype_TEXT: saveTemplate.                                              *)
saveTemplate(t) ==
  eeprom' = t /\ fresh' = [c \in Clients |-> FALSE]

receive(c) ==
  /\ up[c] # <<>> /\ saveTemplate(Head(up[c]))
  /\ up' = [up EXCEPT ![c] = Tail(@)]
  /\ UNCHANGED <<page, link, identify, late, missed>>

receiveLate(c) ==
  /\ late[c] # <<>> /\ saveTemplate(Head(late[c]))
  /\ late' = [late EXCEPT ![c] = Tail(@)]
  /\ UNCHANGED <<page, link, identify, up, missed>>

-----------------------------------------------------------------------------
(* The page's side of the connection ends.  What it had sent is lost or    *)
(* still on its way.                                                       *)
GiveUp_keepsIdentify(c) ==
  /\ link' = [link EXCEPT ![c] = FALSE]
  /\ up' = [up EXCEPT ![c] = <<>>]
  /\ \E n \in 0..Len(up[c]) :
       /\ Len(late[c]) + n <= MaxInFlight
       /\ late' = [late EXCEPT ![c] = @ \o SubSeq(up[c], 1, n)]
  /\ missed' = [missed EXCEPT ![c] = @ \/ up[c] # <<>>]
  /\ UNCHANGED identify

GiveUp(c) ==
  /\ link' = [link EXCEPT ![c] = FALSE]
  /\ identify' = [identify EXCEPT ![c] = <<>>]
  /\ up' = [up EXCEPT ![c] = <<>>]
  /\ \E n \in 0..Len(up[c]) :
       /\ Len(late[c]) + n <= MaxInFlight
       /\ late' = [late EXCEPT ![c] = @ \o SubSeq(up[c], 1, n)]
  /\ missed' = [missed EXCEPT ![c] = @ \/ up[c] # <<>>]

disconnected(c) ==
  /\ link[c]
  /\ GiveUp(c)
  /\ fresh' = [fresh EXCEPT ![c] = known[c] /\ @]
  /\ UNCHANGED <<eeprom, page>>

reload(c) ==
  /\ (link[c] \/ known[c])
  /\ GiveUp(c)
  /\ known' = [known EXCEPT ![c] = FALSE]
  /\ masterTemplate' = [masterTemplate EXCEPT ![c] = Code]
  /\ unsaved' = [unsaved EXCEPT ![c] = FALSE]
  /\ fresh' = [fresh EXCEPT ![c] = FALSE]
  /\ UNCHANGED <<eeprom, localStorage>>

(* The network drops what it still held.                                   *)
lateLost(c) ==
  /\ late[c] # <<>> /\ late' = [late EXCEPT ![c] = <<>>]
  /\ UNCHANGED <<eeprom, page, link, identify, up, missed, fresh>>

(* The device restarts with what its EEPROM holds.                         *)
setup ==
  /\ \E c \in Clients : link[c]
  /\ link' = [c \in Clients |-> FALSE]
  /\ identify' = [c \in Clients |-> <<>>]
  /\ up' = [c \in Clients |-> <<>>] /\ late' = [c \in Clients |-> <<>>]
  /\ missed' = [c \in Clients |-> missed[c] \/ up[c] # <<>>]
  /\ fresh' = [c \in Clients |-> known[c] /\ fresh[c]]
  /\ UNCHANGED <<eeprom, page>>

Next ==
  \/ setup
  \/ \E c \in Clients :
       \/ connected(c) \/ handleRcvdMsg(c) \/ saveDriver(c)
       \/ receive(c) \/ receiveLate(c) \/ lateLost(c)
       \/ disconnected(c) \/ reload(c)
       \/ \E t \in Templates : edit(c, t)

Spec == Init /\ [][Next]_vars

-----------------------------------------------------------------------------
Shows(c, t) == t # NoTemplate /\ Compact[masterTemplate[c]] = Compact[t]
Quiet(c) == up[c] = <<>> /\ late[c] = <<>>

(* As long as nobody else has saved, the template a page shows without a   *)
(* Guardar button is the one the device runs after the next power cycle,   *)
(* unless a save of it went astray: then saving something else mends it.   *)
OnlySaver(c) == \A d \in Clients \ {c} : localStorage[d] = NoTemplate
PageAndDeviceAgree ==
  \A c \in Clients :
    OnlySaver(c) /\ known[c] /\ ~unsaved[c] /\ Quiet(c) /\ ~missed[c] =>
      \/ Shows(c, eeprom)
      \/ eeprom = NoTemplate /\ localStorage[c] = NoTemplate

(* A page that was loaded after the last save shows what the device runs,  *)
(* whatever this browser's own copy says and whoever saved.                *)
FreshPageShowsDevice ==
  \A c \in Clients :
    fresh[c] /\ known[c] => Shows(c, eeprom) \/ eeprom = NoTemplate
=============================================================================
