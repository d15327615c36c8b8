---------------------------- MODULE DriverPanels ----------------------------
(***************************************************************************)
(* The panels of the drivers (global.js).  A panel shows the template of   *)
(* a driver and changes it: modules are added, moved and removed, a        *)
(* channel gets another template.  Modules of all drivers take their       *)
(* indexes from one counter, and the panel of a driver that appears is     *)
(* appended to innerHTML, which writes the other panels anew from their    *)
(* attributes.  Classes are attributes; what the user has typed, checked   *)
(* or selected is not.                                                     *)
(*                                                                         *)
(* A module is a function from its fields (x, y, w, h, d) to numbers, an   *)
(* array of modules one from indexes to modules or None.  The tabs of the  *)
(* channels are left out: any channel may be the one in view.              *)
(***************************************************************************)
EXTENDS Integers, Sequences, FiniteSets

CONSTANTS
  Drivers, Channels, None,
  Fields, Values,
  newDefaultModule,
  Names,       \* of templates; modules are edited in "custom" ones
  Orders,      \* of colours
  Templates,   \* what the device or localStorage has
  MaxModules   \* BOUND: of globalMIdx

Index == 0..MaxModules - 1
Module == [Fields -> Values]
Channel == [templateName : Names, colorOrder : Orders,
            modules : [Index -> Module \cup {None}]]
MasterTemplate == [Channels -> Channel]

(* fromJson leaves no holes in the modules of a channel.                   *)
ASSUME PanelsAssumption ==
  /\ IsFiniteSet(Channels) /\ MaxModules \in Nat
  /\ newDefaultModule \in Module /\ None \notin Module
  /\ "custom" \in Names /\ "rgb" \in Orders
  /\ Templates \subseteq MasterTemplate
  /\ \A t \in Templates, c \in Channels, i \in Index, j \in Index :
       t[c].modules[i] # None /\ j < i => t[c].modules[j] # None

VARIABLES
  nodes,           \* this.nodes, in the order of the Map
  masterTemplate,
  globalMIdx,
  panels,          \* drivers that have a panel
  shown,           \* what the inputs of a panel show
  written,         \* what its attributes say
  open,            \* the modules of a channel are not hidden
  offered,         \* drivers whose button Guardar is not hidden
  unsaved,         \* history: drivers changed since they were saved
  stale            \* history: a panel was written anew over other inputs

vars == <<nodes, masterTemplate, globalMIdx, panels, shown, written, open,
          offered, unsaved, stale>>

Blank == [c \in Channels |-> [templateName |-> "custom", colorOrder |-> "rgb",
                              modules |-> [i \in Index |-> None]]]
Known == {nodes[k] : k \in 1..Len(nodes)}
Present(t) == {p \in Channels \X Index : t[p[1]].modules[p[2]] # None}
allModulesCount(t) == Cardinality(Present(t))

Init ==
  /\ nodes = <<>>
  /\ masterTemplate = [d \in Drivers |-> Blank]
  /\ globalMIdx = 0
  /\ panels = {}
  /\ shown = [d \in Drivers |-> Blank] /\ written = [d \in Drivers |-> Blank]
  /\ open = [d \in Drivers |-> [c \in Channels |-> FALSE]]
  /\ offered = {} /\ unsaved = {} /\ stale = {}

-----------------------------------------------------------------------------
(* IDENTIFY of an unknown driver.  A template for another number of        *)
(* channels is read, counted, and not used.                                *)
Driver_setsCount(d, t, fits) ==
  /\ d \notin Known /\ allModulesCount(t) \leq MaxModules
  /\ nodes' = Append(nodes, d)
  /\ masterTemplate' = [masterTemplate EXCEPT ![d] = IF fits THEN t ELSE Blank]
  /\ globalMIdx' = allModulesCount(t)
  /\ UNCHANGED <<panels, shown, written, open, offered, unsaved, stale>>

Driver(d, t, fits) ==
  /\ d \notin Known /\ globalMIdx + allModulesCount(t) \leq MaxModules
  /\ nodes' = Append(nodes, d)
  /\ masterTemplate' = [masterTemplate EXCEPT ![d] = IF fits THEN t ELSE Blank]
  /\ globalMIdx' = globalMIdx + allModulesCount(t)
  /\ UNCHANGED <<panels, shown, written, open, offered, unsaved, stale>>

(* createDriverHtml of every driver without a panel, each appended to the  *)
(* innerHTML of all.                                                       *)
Opened(t) == [c \in Channels |-> t[c].templateName = "custom"]
uiNotification_redraws ==
  /\ Known # panels
  /\ panels' = Known
  /\ written' = masterTemplate /\ shown' = masterTemplate
  /\ open' = [d \in Drivers |-> IF d \in Known THEN Opened(masterTemplate[d]) ELSE open[d]]
  /\ offered' = {}
  /\ UNCHANGED <<nodes, masterTemplate, globalMIdx, unsaved, stale>>

uiNotification ==
  /\ Known # panels
  /\ panels' = Known
  /\ written' = [d \in Drivers |->
                   IF d \in Known \ panels THEN masterTemplate[d] ELSE written[d]]
  /\ shown' = written'
  /\ open' = [d \in Drivers |->
                IF d \in Known \ panels THEN Opened(masterTemplate[d]) ELSE open[d]]
  /\ stale' = stale \cup {d \in panels : shown[d] # written[d]}
  /\ UNCHANGED <<nodes, masterTemplate, globalMIdx, offered, unsaved>>

-----------------------------------------------------------------------------
Offer(d) == /\ offered' = offered \cup {d}   \* showId(dId + '-save')
            /\ unsaved' = unsaved \cup {d}

(* The user changes one input; every field is read back.                   *)
onUpdateModule(d, c, i, f, v) ==
  /\ d \in panels /\ open[d][c]
  /\ shown[d][c].modules[i] # None /\ shown[d][c].modules[i][f] # v
  /\ LET module == [shown[d][c].modules[i] EXCEPT ![f] = v]
     IN /\ shown' = [shown EXCEPT ![d][c].modules[i] = module]
        /\ masterTemplate' = [masterTemplate EXCEPT ![d][c].modules[i] = module]
  /\ Offer(d)
  /\ UNCHANGED <<nodes, globalMIdx, panels, written, open, stale>>

removeModule(t, c, i) == [t EXCEPT ![c].modules[i] = None]

onRemoveModule(d, c, i) ==
  /\ d \in panels /\ open[d][c] /\ shown[d][c].modules[i] # None
  /\ shown' = [shown EXCEPT ![d][c].modules[i] = None]
  /\ written' = [written EXCEPT ![d][c].modules[i] = None]
  /\ masterTemplate' = [masterTemplate EXCEPT ![d] = removeModule(@, c, i)]
  /\ Offer(d)
  /\ UNCHANGED <<nodes, globalMIdx, panels, open, stale>>

onAddModule(d, c) ==
  /\ d \in panels /\ open[d][c]
  /\ globalMIdx \in Index
  /\ masterTemplate' = [masterTemplate EXCEPT ![d][c].modules[globalMIdx] = newDefaultModule]
  /\ shown' = [shown EXCEPT ![d][c].modules[globalMIdx] = newDefaultModule]
  /\ written' = [written EXCEPT ![d][c].modules[globalMIdx] = newDefaultModule]
  /\ globalMIdx' = globalMIdx + 1
  /\ Offer(d)
  /\ UNCHANGED <<nodes, panels, open, stale>>

onSelectTemplate(d, c, name) ==
  /\ d \in panels /\ shown[d][c].templateName # name
  /\ shown' = [shown EXCEPT ![d][c].templateName = name]
  /\ open' = [open EXCEPT ![d][c] = (name = "custom")]
  /\ masterTemplate' = [masterTemplate EXCEPT ![d][c].templateName = name]
  /\ Offer(d)
  /\ UNCHANGED <<nodes, globalMIdx, panels, written, stale>>

onSelectOrder(d, c, order) ==
  /\ d \in panels /\ shown[d][c].colorOrder # order
  /\ shown' = [shown EXCEPT ![d][c].colorOrder = order]
  /\ masterTemplate' = [masterTemplate EXCEPT ![d][c].colorOrder = order]
  /\ Offer(d)
  /\ UNCHANGED <<nodes, globalMIdx, panels, written, open, stale>>

onSaveDriver(d) ==
  /\ d \in panels /\ d \in offered
  /\ offered' = offered \ {d} /\ unsaved' = unsaved \ {d}
  /\ UNCHANGED <<nodes, masterTemplate, globalMIdx, panels, shown, written, open, stale>>

reload ==
  /\ nodes # <<>>
  /\ nodes' = <<>>
  /\ masterTemplate' = [d \in Drivers |-> Blank]
  /\ globalMIdx' = 0
  /\ panels' = {}
  /\ shown' = [d \in Drivers |-> Blank] /\ written' = [d \in Drivers |-> Blank]
  /\ open' = [d \in Drivers |-> [c \in Channels |-> FALSE]]
  /\ offered' = {} /\ unsaved' = {} /\ stale' = {}

Next ==
  \/ uiNotification \/ reload
  \/ \E d \in Drivers :
       \/ \E t \in Templates, fits \in BOOLEAN : Driver(d, t, fits)
       \/ onSaveDriver(d)
       \/ \E c \in Channels :
            \/ onAddModule(d, c)
            \/ \E name \in Names : onSelectTemplate(d, c, name)
            \/ \E order \in Orders : onSelectOrder(d, c, order)
            \/ \E i \in Index :
                 \/ onRemoveModule(d, c, i)
                 \/ \E f \in Fields, v \in Values : onUpdateModule(d, c, i, f, v)

Spec == Init /\ [][Next]_vars

-----------------------------------------------------------------------------
TypeOK ==
  /\ nodes \in Seq(Drivers) /\ panels \subseteq Known
  /\ masterTemplate \in [Drivers -> MasterTemplate]
  /\ globalMIdx \in 0..MaxModules
  /\ shown \in [Drivers -> MasterTemplate] /\ written \in [Drivers -> MasterTemplate]
  /\ open \in [Drivers -> [Channels -> BOOLEAN]]
  /\ offered \subseteq panels /\ unsaved \subseteq panels /\ stale \subseteq panels

(* The panel of a driver is true to its template, whatever panels came     *)
(* after it: it has an element for each module and for no other, shows     *)
(* them exactly while the template is a custom one, and offers Guardar as  *)
(* long as something is unsaved.  The inputs are those of the template     *)
(* unless the panel of another driver came after an edit.                  *)
PanelIsTrue == \A d \in panels :
  /\ Present(shown[d]) = Present(masterTemplate[d])
  /\ open[d] = Opened(masterTemplate[d])
  /\ d \in unsaved => d \in offered
  /\ d \notin stale => shown[d] = masterTemplate[d]

(* An edit reaches what the user edited: a module that was there is        *)
(* removed or becomes what its inputs show with one other field, and no    *)
(* other module of any driver changes.  A new one takes the place of none. *)
(* The inputs show the template until the panel is stale.  In a stale      *)
(* panel, until the page is reloaded, an edit may change other fields as   *)
(* well: onUpdateModule reads all of them back and so writes the values of *)
(* the time the panel was made, which the page shows, over edits made      *)
(* since.                                                                  *)
OneFieldAtMost(m, n) == \E f \in Fields : \A g \in Fields \ {f} : m[g] = n[g]
Modules == Drivers \X Channels \X Index
Edited(d) == IF d \in stale THEN shown[d] ELSE masterTemplate[d]
EditIsLocal ==
  [][nodes' # <<>> => \A p \in Modules :
       LET old == masterTemplate[p[1]][p[2]].modules[p[3]]
           new == masterTemplate'[p[1]][p[2]].modules[p[3]]
       IN old # None /\ new # old =>
            /\ \/ new = None
               \/ OneFieldAtMost(Edited(p[1])[p[2]].modules[p[3]], new)
            /\ \A q \in Modules \ {p} :
                 masterTemplate'[q[1]][q[2]].modules[q[3]]
                   = masterTemplate[q[1]][q[2]].modules[q[3]]]_vars
=============================================================================
