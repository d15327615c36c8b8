------------------------ MODULE DriverPanels_proofs -------------------------
(***************************************************************************)
(* Proofs about the panels, for any number of drivers, channels, modules   *)
(* and fields.  What is below globalMIdx is what may be in use, and a      *)
(* panel has an element exactly where its template has a module.           *)
(***************************************************************************)
EXTENDS DriverPanels, FiniteSetTheorems, TLAPS

Pages == [Drivers -> MasterTemplate]
At(pages, d, c, i) == pages[d][c].modules[i]
Put(pages, d, c, i, m) == [pages EXCEPT ![d][c].modules[i] = m]

(* One array of one channel changes at one index.                          *)
LEMMA SetModule ==
  ASSUME NEW mt \in Pages, NEW d \in Drivers, NEW c \in Channels,
         NEW i \in Index, NEW m \in Module \cup {None},
         NEW nt, nt = Put(mt, d, c, i, m)
  PROVE  /\ nt \in Pages
         /\ \A e \in Drivers, b \in Channels, j \in Index :
              At(nt, e, b, j) = IF e = d /\ b = c /\ j = i THEN m
                                ELSE At(mt, e, b, j)
         /\ \A e \in Drivers, b \in Channels :
              nt[e][b].templateName = mt[e][b].templateName
         /\ \A e \in Drivers \ {d} : nt[e] = mt[e]
<1> DEFINE ch == [mt[d][c] EXCEPT !.modules = [mt[d][c].modules EXCEPT ![i] = m]]
           t == [mt[d] EXCEPT ![c] = ch]
<1>1. mt[d] \in MasterTemplate /\ mt[d][c] \in Channel
  BY DEF Pages, MasterTemplate
<1>2. /\ ch \in Channel /\ ch.templateName = mt[d][c].templateName
      /\ ch.modules = [mt[d][c].modules EXCEPT ![i] = m]
      /\ mt[d][c].modules \in [Index -> Module \cup {None}]
  BY <1>1 DEF Channel
<1>3. nt = [mt EXCEPT ![d] = t]
  BY <1>1, <1>2 DEF Put
<1> HIDE DEF ch
<1>4. t \in MasterTemplate /\ t[c] = ch /\ \A b \in Channels \ {c} : t[b] = mt[d][b]
  BY <1>1, <1>2 DEF MasterTemplate
<1> HIDE DEF t
<1>5. nt \in Pages /\ nt[d] = t /\ \A e \in Drivers \ {d} : nt[e] = mt[e]
  BY <1>3, <1>4 DEF Pages
<1>6. \A j \in Index : ch.modules[j] = IF j = i THEN m ELSE mt[d][c].modules[j]
  BY <1>2
<1>7. nt[d][c] = ch /\ \A b \in Channels \ {c} : nt[d][b] = mt[d][b]
  BY <1>4, <1>5
<1>8. ASSUME NEW e \in Drivers, NEW b \in Channels, NEW j \in Index
      PROVE  At(nt, e, b, j) = IF e = d /\ b = c /\ j = i THEN m
                               ELSE At(mt, e, b, j)
  <2>1. CASE e = d /\ b = c
    BY <2>1, <1>6, <1>7 DEF At
  <2>2. CASE ~(e = d /\ b = c)
    <3>1. nt[e][b] = mt[e][b]
      BY <2>2, <1>5, <1>7
    <3> QED BY <2>2, <3>1 DEF At
  <2> QED BY <2>1, <2>2
<1>9. ASSUME NEW e \in Drivers, NEW b \in Channels
      PROVE  nt[e][b].templateName = mt[e][b].templateName
  BY <1>2, <1>5, <1>7
<1> QED BY <1>5, <1>8, <1>9

(* Another field of a channel changes, its modules do not.                 *)
LEMMA SetChannel ==
  ASSUME NEW mt \in Pages, NEW d \in Drivers, NEW c \in Channels,
         NEW nt,
         \/ \E name \in Names : nt = [mt EXCEPT ![d][c].templateName = name]
         \/ \E order \in Orders : nt = [mt EXCEPT ![d][c].colorOrder = order]
  PROVE  /\ nt \in Pages
         /\ \A e \in Drivers, b \in Channels : nt[e][b].modules = mt[e][b].modules
         /\ \A e \in Drivers \ {d} : nt[e] = mt[e]
<1>1. mt[d] \in MasterTemplate /\ mt[d][c] \in Channel
  BY DEF Pages, MasterTemplate
<1>2. PICK ch : /\ ch \in Channel /\ ch.modules = mt[d][c].modules
                /\ nt = [mt EXCEPT ![d] = [mt[d] EXCEPT ![c] = ch]]
  <2>1. ASSUME NEW name \in Names, nt = [mt EXCEPT ![d][c].templateName = name]
        PROVE  \E ch : /\ ch \in Channel /\ ch.modules = mt[d][c].modules
                       /\ nt = [mt EXCEPT ![d] = [mt[d] EXCEPT ![c] = ch]]
    <3> DEFINE ch == [mt[d][c] EXCEPT !.templateName = name]
    <3>1. ch \in Channel /\ ch.modules = mt[d][c].modules
      BY <1>1 DEF Channel
    <3>2. nt = [mt EXCEPT ![d] = [mt[d] EXCEPT ![c] = ch]]
      BY <2>1
    <3> QED BY <3>1, <3>2
  <2>2. ASSUME NEW order \in Orders, nt = [mt EXCEPT ![d][c].colorOrder = order]
        PROVE  \E ch : /\ ch \in Channel /\ ch.modules = mt[d][c].modules
                       /\ nt = [mt EXCEPT ![d] = [mt[d] EXCEPT ![c] = ch]]
    <3> DEFINE ch == [mt[d][c] EXCEPT !.colorOrder = order]
    <3>1. ch \in Channel /\ ch.modules = mt[d][c].modules
      BY <1>1 DEF Channel
    <3>2. nt = [mt EXCEPT ![d] = [mt[d] EXCEPT ![c] = ch]]
      BY <2>2
    <3> QED BY <3>1, <3>2
  <2> QED BY <2>1, <2>2
<1> DEFINE t == [mt[d] EXCEPT ![c] = ch]
<1>3. /\ t \in MasterTemplate /\ t[c] = ch
      /\ \A b \in Channels \ {c} : t[b] = mt[d][b]
  BY <1>1, <1>2 DEF MasterTemplate
<1> HIDE DEF t
<1>4. nt \in Pages /\ nt[d] = t /\ \A e \in Drivers \ {d} : nt[e] = mt[e]
  BY <1>2, <1>3 DEF Pages, t
<1> QED BY <1>2, <1>3, <1>4

LEMMA PresentIs ==
  ASSUME NEW s \in MasterTemplate, NEW t \in MasterTemplate
  PROVE  Present(s) = Present(t) <=>
           \A c \in Channels, i \in Index :
             s[c].modules[i] = None <=> t[c].modules[i] = None
<1>1. \A r, c, i : <<c, i>> \in Present(r) <=>
         c \in Channels /\ i \in Index /\ r[c].modules[i] # None
  BY DEF Present
<1>2. \A r : Present(r) \subseteq Channels \X Index
  BY DEF Present
<1>3. ASSUME \A c \in Channels, i \in Index :
               s[c].modules[i] = None <=> t[c].modules[i] = None
      PROVE  Present(s) = Present(t)
  <2>1. ASSUME NEW p \in Channels \X Index
        PROVE  p \in Present(s) <=> p \in Present(t)
    <3>1. PICK c \in Channels, i \in Index : p = <<c, i>>
      OBVIOUS
    <3> QED BY <1>1, <1>3, <3>1
  <2> QED BY <1>2, <2>1
<1>4. ASSUME Present(s) = Present(t), NEW c \in Channels, NEW i \in Index
      PROVE  s[c].modules[i] = None <=> t[c].modules[i] = None
  BY <1>1, <1>4
<1> QED BY <1>3, <1>4

LEMMA BlankIsTemplate ==
  /\ Blank \in MasterTemplate
  /\ \A c \in Channels, i \in Index : Blank[c].modules[i] = None
BY PanelsAssumption DEF Blank, MasterTemplate, Channel

(* A template without holes has no index beyond the number of its modules. *)
LEMMA CompactIndexes ==
  ASSUME NEW t \in Templates
  PROVE  /\ allModulesCount(t) \in Nat
         /\ \A c \in Channels, i \in Index :
              t[c].modules[i] # None => i < allModulesCount(t)
<1>1. IsFiniteSet(Index)
  BY PanelsAssumption, FS_Interval DEF Index
<1>2. IsFiniteSet(Present(t))
  <2>1. IsFiniteSet(Channels \X Index)
    BY <1>1, PanelsAssumption, FS_Product
  <2> QED BY <2>1, FS_Subset DEF Present
<1>3. allModulesCount(t) \in Nat
  BY <1>2, FS_CardinalityType DEF allModulesCount
<1>4. ASSUME NEW c \in Channels, NEW i \in Index, t[c].modules[i] # None
      PROVE  i < allModulesCount(t)
  <2> DEFINE Below == {c} \X (0..i)
  <2>1. i \in Nat /\ i < MaxModules
    BY PanelsAssumption DEF Index
  <2>2. Below \subseteq Present(t)
    <3>1. \A j \in 0..i : j \in Index /\ (j = i \/ j < i)
      BY <2>1, PanelsAssumption DEF Index
    <3>2. \A j \in 0..i : t[c].modules[j] # None
      BY <1>4, <3>1, PanelsAssumption
    <3> QED BY <3>1, <3>2 DEF Present
  <2>3. IsFiniteSet(Below) /\ Cardinality(Below) = i + 1
    <3>1. IsFiniteSet({c}) /\ Cardinality({c}) = 1
      BY FS_Singleton
    <3>2. IsFiniteSet(0..i) /\ Cardinality(0..i) = i + 1
      BY <2>1, FS_Interval
    <3>3. IsFiniteSet(Below) /\ Cardinality(Below) = Cardinality({c}) * Cardinality(0..i)
      BY <3>1, <3>2, FS_Product
    <3> QED BY <2>1, <3>1, <3>2, <3>3
  <2>4. Cardinality(Below) \leq Cardinality(Present(t))
    BY <1>2, <2>2, FS_Subset
  <2> QED BY <1>3, <2>1, <2>3, <2>4 DEF allModulesCount
<1> QED BY <1>3, <1>4

-----------------------------------------------------------------------------
TypeInv ==
  /\ nodes \in Seq(Drivers)
  /\ masterTemplate \in Pages /\ shown \in Pages /\ written \in Pages
  /\ globalMIdx \in 0..MaxModules
  /\ open \in [Drivers -> [Channels -> BOOLEAN]]
  /\ panels \subseteq Known /\ Known \subseteq Drivers
  /\ offered \subseteq panels /\ unsaved \subseteq panels /\ stale \subseteq panels

(* A driver nobody has heard of has no modules yet.                        *)
UnknownIsBlank == \A d \in Drivers \ Known : masterTemplate[d] = Blank

(* The counter is beyond every index in use.                               *)
CounterIsAhead ==
  \A d \in Drivers, c \in Channels, i \in Index :
    At(masterTemplate, d, c, i) # None => i < globalMIdx

(* The elements of a panel, those its attributes would restore included,   *)
(* are those of its template.                                              *)
SameElements(page, d) ==
  \A c \in Channels, i \in Index :
    At(page, d, c, i) = None <=> At(masterTemplate, d, c, i) = None
ElementsAgree == \A d \in panels : SameElements(shown, d) /\ SameElements(written, d)

OpenIsTrue == \A d \in panels, c \in Channels :
  open[d][c] = (masterTemplate[d][c].templateName = "custom")
UnsavedIsOffered == unsaved \subseteq offered
InputsAgree == \A d \in panels \ stale : shown[d] = masterTemplate[d]

IInv == /\ TypeInv /\ UnknownIsBlank /\ CounterIsAhead /\ ElementsAgree
        /\ OpenIsTrue /\ UnsavedIsOffered /\ InputsAgree

LEMMA TypeIsTypeOK == TypeInv => TypeOK
BY DEF TypeInv, TypeOK, Pages

LEMMA InitInv == Init => IInv
<1> SUFFICES ASSUME Init PROVE IInv
  OBVIOUS
<1>1. Known = {}
  BY DEF Init, Known
<1>2. TypeInv
  BY <1>1, BlankIsTemplate, PanelsAssumption DEF Init, TypeInv, Pages
<1>3. UnknownIsBlank /\ CounterIsAhead
  BY <1>1, BlankIsTemplate DEF Init, UnknownIsBlank, CounterIsAhead, At
<1> QED BY <1>2, <1>3
        DEF IInv, Init, ElementsAgree, OpenIsTrue, UnsavedIsOffered, InputsAgree

-----------------------------------------------------------------------------
LEMMA DriverKeeps ==
  ASSUME IInv, NEW d \in Drivers, NEW t \in Templates, NEW fits \in BOOLEAN,
         Driver(d, t, fits)
  PROVE  IInv'
<1> DEFINE new == IF fits THEN t ELSE Blank
<1>1. /\ d \notin Known /\ nodes' = Append(nodes, d)
      /\ masterTemplate' = [masterTemplate EXCEPT ![d] = new]
      /\ globalMIdx' = globalMIdx + allModulesCount(t) /\ globalMIdx' \leq MaxModules
      /\ panels' = panels /\ shown' = shown /\ written' = written /\ open' = open
      /\ offered' = offered /\ unsaved' = unsaved /\ stale' = stale
  BY DEF Driver
<1>2. Known' = Known \cup {d}
  BY <1>1 DEF IInv, TypeInv, Known
<1>3. new \in MasterTemplate
  BY BlankIsTemplate, PanelsAssumption
<1>4. /\ masterTemplate' \in Pages /\ masterTemplate'[d] = new
      /\ \A e \in Drivers \ {d} : masterTemplate'[e] = masterTemplate[e]
  BY <1>1, <1>3 DEF IInv, TypeInv, Pages
<1>5. globalMIdx' \in 0..MaxModules /\ globalMIdx \leq globalMIdx'
  BY <1>1, CompactIndexes, PanelsAssumption DEF IInv, TypeInv
<1>6. TypeInv'
  BY <1>1, <1>2, <1>4, <1>5 DEF IInv, TypeInv
<1>7. UnknownIsBlank'
  BY <1>2, <1>4 DEF IInv, UnknownIsBlank
<1>8. CounterIsAhead'
  <2> SUFFICES ASSUME NEW e \in Drivers, NEW c \in Channels, NEW i \in Index,
                      At(masterTemplate', e, c, i) # None
               PROVE  i < globalMIdx'
    BY DEF CounterIsAhead, At
  <2>1. i \in Nat /\ globalMIdx \in Nat /\ allModulesCount(t) \in Nat
    BY CompactIndexes, PanelsAssumption DEF Index, IInv, TypeInv
  <2>2. CASE e # d
    BY <2>1, <2>2, <1>4, <1>5 DEF IInv, CounterIsAhead, At
  <2>3. CASE e = d
    <3>1. new[c].modules[i] # None
      BY <2>3, <1>4 DEF At
    <3>2. fits = TRUE
      BY <3>1, BlankIsTemplate
    <3>3. t[c].modules[i] # None
      BY <3>1, <3>2
    <3>4. i < allModulesCount(t)
      BY <3>3, CompactIndexes
    <3> QED BY <2>1, <3>4, <1>1
  <2> QED BY <2>2, <2>3
<1>9. \A e \in panels : e # d /\ masterTemplate'[e] = masterTemplate[e]
  BY <1>1, <1>4 DEF IInv, TypeInv
<1>10. ElementsAgree' /\ OpenIsTrue' /\ UnsavedIsOffered' /\ InputsAgree'
  BY <1>1, <1>9
     DEF IInv, ElementsAgree, SameElements, OpenIsTrue, UnsavedIsOffered, InputsAgree, At
<1> QED BY <1>6, <1>7, <1>8, <1>10 DEF IInv

LEMMA NotificationKeeps == ASSUME IInv, uiNotification PROVE IInv'
<1>1. /\ panels' = Known /\ nodes' = nodes /\ masterTemplate' = masterTemplate
      /\ globalMIdx' = globalMIdx /\ offered' = offered /\ unsaved' = unsaved
      /\ written' = [d \in Drivers |->
           IF d \in Known \ panels THEN masterTemplate[d] ELSE written[d]]
      /\ shown' = written'
      /\ open' = [d \in Drivers |->
           IF d \in Known \ panels THEN Opened(masterTemplate[d]) ELSE open[d]]
      /\ stale' = stale \cup {d \in panels : shown[d] # written[d]}
  BY DEF uiNotification
<1>2. Known' = Known
  BY <1>1 DEF Known
<1>3. /\ written' \in Pages
      /\ \A d \in panels : written'[d] = written[d] /\ open'[d] = open[d]
      /\ \A d \in Known \ panels : /\ written'[d] = masterTemplate[d]
                                   /\ open'[d] = Opened(masterTemplate[d])
  BY <1>1 DEF IInv, TypeInv, Pages
<1>4. open' \in [Drivers -> [Channels -> BOOLEAN]]
  BY <1>1 DEF IInv, TypeInv, Opened
<1>5. TypeInv'
  BY <1>1, <1>2, <1>3, <1>4 DEF IInv, TypeInv
<1>6. UnknownIsBlank' /\ CounterIsAhead' /\ UnsavedIsOffered'
  BY <1>1, <1>2 DEF IInv, UnknownIsBlank, CounterIsAhead, UnsavedIsOffered, At
<1>7. ElementsAgree'
  <2>1. ASSUME NEW d \in Known, NEW c \in Channels, NEW i \in Index
        PROVE  written'[d][c].modules[i] = None <=> masterTemplate[d][c].modules[i] = None
    <3>1. CASE d \in panels
      BY <1>3, <3>1 DEF IInv, ElementsAgree, SameElements, At
    <3>2. CASE d \notin panels
      BY <1>3, <3>2
    <3> QED BY <3>1, <3>2
  <2> QED BY <1>1, <2>1 DEF ElementsAgree, SameElements, At
<1>8. OpenIsTrue'
  <2>1. ASSUME NEW d \in Known, NEW c \in Channels
        PROVE  open'[d][c] = (masterTemplate[d][c].templateName = "custom")
    <3>1. CASE d \in panels
      BY <1>3, <3>1 DEF IInv, OpenIsTrue
    <3>2. CASE d \notin panels
      <4>1. open'[d] = Opened(masterTemplate[d])
        BY <1>3, <3>2
      <4>2. Opened(masterTemplate[d])[c] = (masterTemplate[d][c].templateName = "custom")
        BY Zenon DEF Opened
      <4> QED BY <4>1, <4>2
    <3> QED BY <3>1, <3>2
  <2> QED BY <1>1, <2>1 DEF OpenIsTrue
<1>9. InputsAgree'
  BY <1>1, <1>3 DEF IInv, InputsAgree
<1> QED BY <1>5, <1>6, <1>7, <1>8, <1>9 DEF IInv

-----------------------------------------------------------------------------
(* What the edits of the user have in common: template and page of one     *)
(* panel change together, at one index or in one field of one channel.     *)
Edits(d) ==
  /\ d \in panels /\ offered' = offered \cup {d} /\ unsaved' = unsaved \cup {d}
  /\ nodes' = nodes /\ panels' = panels /\ stale' = stale
  /\ \A e \in Drivers \ {d} : /\ masterTemplate'[e] = masterTemplate[e]
                              /\ shown'[e] = shown[e] /\ written'[e] = written[e]
                              /\ open'[e] = open[e]

LEMMA PanelIsDriver == IInv => panels \subseteq Drivers
BY DEF IInv, TypeInv

LEMMA EditKeeps ==
  ASSUME IInv, NEW d \in Drivers, Edits(d),
         masterTemplate' \in Pages, shown' \in Pages, written' \in Pages,
         globalMIdx' \in 0..MaxModules, globalMIdx \leq globalMIdx',
         open' \in [Drivers -> [Channels -> BOOLEAN]],
         \A c \in Channels, i \in Index :
           At(masterTemplate', d, c, i) # None =>
             At(masterTemplate, d, c, i) # None \/ i < globalMIdx',
         SameElements(shown, d)', SameElements(written, d)',
         \A c \in Channels :
           open'[d][c] = (masterTemplate'[d][c].templateName = "custom"),
         shown[d] = masterTemplate[d] => shown'[d] = masterTemplate'[d]
  PROVE  IInv'
<1>1. Known' = Known /\ panels \subseteq Known
  BY DEF Edits, Known, IInv, TypeInv
<1>2. TypeInv'
  BY <1>1 DEF Edits, IInv, TypeInv
<1>3. UnknownIsBlank'
  BY <1>1 DEF Edits, IInv, UnknownIsBlank
<1>4. CounterIsAhead'
  <2>1. globalMIdx \in Int /\ globalMIdx' \in Int /\ \A i \in Index : i \in Int
    BY PanelsAssumption DEF IInv, TypeInv, Index
  <2>2. ASSUME NEW e \in Drivers, NEW c \in Channels, NEW i \in Index,
               At(masterTemplate', e, c, i) # None
        PROVE  i < globalMIdx'
    <3>1. CASE e = d
      BY <3>1, <2>1, <2>2 DEF IInv, CounterIsAhead
    <3>2. CASE e # d
      BY <3>2, <2>1, <2>2 DEF IInv, CounterIsAhead, Edits, At
    <3> QED BY <3>1, <3>2
  <2> QED BY <2>2 DEF CounterIsAhead, At
<1>5. ElementsAgree'
  <2>1. ASSUME NEW e \in panels, e # d
        PROVE  SameElements(shown, e)' /\ SameElements(written, e)'
    BY <2>1, PanelIsDriver DEF Edits, IInv, ElementsAgree, SameElements, At
  <2> QED BY <2>1 DEF ElementsAgree, Edits
<1>6. OpenIsTrue'
  <2>1. ASSUME NEW e \in panels, NEW c \in Channels, e # d
        PROVE  open'[e][c] = (masterTemplate'[e][c].templateName = "custom")
    BY <2>1, PanelIsDriver DEF Edits, IInv, OpenIsTrue
  <2> QED BY <2>1 DEF OpenIsTrue, Edits
<1>7. UnsavedIsOffered'
  BY DEF Edits, IInv, UnsavedIsOffered
<1>8. InputsAgree'
  BY PanelIsDriver DEF Edits, IInv, InputsAgree
<1> QED BY <1>2, <1>3, <1>4, <1>5, <1>6, <1>7, <1>8 DEF IInv

(* At most one module of the templates is another than before, and one     *)
(* that is there still differs in one field from what its inputs showed.   *)
OneModule(d, c, i) ==
  /\ \A e \in Drivers, b \in Channels, j \in Index :
       At(masterTemplate', e, b, j) = At(masterTemplate, e, b, j)
         \/ (e = d /\ b = c /\ j = i)
  /\ \/ At(masterTemplate, d, c, i) = None
     \/ At(masterTemplate', d, c, i) = None
     \/ OneFieldAtMost(Edited(d)[c].modules[i], At(masterTemplate', d, c, i))

LEMMA UpdateKeeps ==
  ASSUME IInv, NEW d \in Drivers, NEW c \in Channels, NEW i \in Index,
         NEW f \in Fields, NEW v \in Values, onUpdateModule(d, c, i, f, v)
  PROVE  IInv' /\ OneModule(d, c, i)
<1> DEFINE module == [shown[d][c].modules[i] EXCEPT ![f] = v]
<1>1. /\ d \in panels /\ shown[d][c].modules[i] # None
      /\ shown' = Put(shown, d, c, i, module)
      /\ masterTemplate' = Put(masterTemplate, d, c, i, module)
      /\ offered' = offered \cup {d} /\ unsaved' = unsaved \cup {d}
      /\ nodes' = nodes /\ globalMIdx' = globalMIdx /\ panels' = panels
      /\ written' = written /\ open' = open /\ stale' = stale
  BY DEF onUpdateModule, Offer, Put
<1>2. masterTemplate \in Pages /\ shown \in Pages /\ written \in Pages
  BY DEF IInv, TypeInv
<1>3. shown[d][c].modules[i] \in Module
  BY <1>1, <1>2 DEF Pages, MasterTemplate, Channel
<1>4. module \in Module /\ module # None
  BY <1>3, PanelsAssumption DEF Module
<1>5. OneFieldAtMost(shown[d][c].modules[i], module)
  BY <1>3 DEF OneFieldAtMost, Module
<1> HIDE DEF module
<1>6. /\ masterTemplate' \in Pages
      /\ \A e \in Drivers, b \in Channels, j \in Index :
           At(masterTemplate', e, b, j) = IF e = d /\ b = c /\ j = i THEN module
                                          ELSE At(masterTemplate, e, b, j)
      /\ \A e \in Drivers, b \in Channels :
           masterTemplate'[e][b].templateName = masterTemplate[e][b].templateName
      /\ \A e \in Drivers \ {d} : masterTemplate'[e] = masterTemplate[e]
  BY <1>1, <1>2, <1>4, SetModule
<1>7. /\ shown' \in Pages
      /\ \A e \in Drivers, b \in Channels, j \in Index :
           At(shown', e, b, j) = IF e = d /\ b = c /\ j = i THEN module
                                 ELSE At(shown, e, b, j)
      /\ \A e \in Drivers \ {d} : shown'[e] = shown[e]
  BY <1>1, <1>2, <1>4, SetModule
<1>8. SameElements(shown, d) /\ SameElements(written, d)
  BY <1>1 DEF IInv, ElementsAgree
<1>9. At(masterTemplate, d, c, i) # None
  BY <1>1, <1>8 DEF SameElements, At
<1>10. Edits(d)
  BY <1>1, <1>6, <1>7 DEF Edits
<1>11. SameElements(shown, d)'
  BY <1>4, <1>6, <1>7, <1>8 DEF SameElements
<1>12. SameElements(written, d)'
  BY <1>1, <1>4, <1>6, <1>8, <1>9 DEF SameElements, At
<1>13. \A b \in Channels :
         open'[d][b] = (masterTemplate'[d][b].templateName = "custom")
  BY <1>1, <1>6 DEF IInv, OpenIsTrue
<1>14. shown[d] = masterTemplate[d] => shown'[d] = masterTemplate'[d]
  BY <1>1, <1>2 DEF Pages, Put
<1>15. IInv'
  <2>1. /\ written' \in Pages /\ open' \in [Drivers -> [Channels -> BOOLEAN]]
        /\ globalMIdx' \in 0..MaxModules /\ globalMIdx \leq globalMIdx'
    BY <1>1, PanelsAssumption DEF IInv, TypeInv
  <2>2. \A b \in Channels, j \in Index :
          At(masterTemplate', d, b, j) # None =>
            At(masterTemplate, d, b, j) # None \/ j < globalMIdx'
    BY <1>6, <1>9
  <2> QED BY <2>1, <2>2, <1>6, <1>7, <1>10, <1>11, <1>12, <1>13, <1>14, EditKeeps
<1>16. OneModule(d, c, i)
  <2>1. Edited(d)[c].modules[i] = shown[d][c].modules[i]
    BY <1>1 DEF IInv, InputsAgree, Edited
  <2>2. At(masterTemplate', d, c, i) = module
    BY <1>6
  <2> QED BY <2>1, <2>2, <1>5, <1>6 DEF OneModule
<1> QED BY <1>15, <1>16

LEMMA RemoveKeeps ==
  ASSUME IInv, NEW d \in Drivers, NEW c \in Channels, NEW i \in Index,
         onRemoveModule(d, c, i)
  PROVE  IInv' /\ OneModule(d, c, i)
<1>1. /\ d \in panels
      /\ shown' = Put(shown, d, c, i, None)
      /\ written' = Put(written, d, c, i, None)
      /\ masterTemplate' = [masterTemplate EXCEPT ![d] = removeModule(@, c, i)]
      /\ offered' = offered \cup {d} /\ unsaved' = unsaved \cup {d}
      /\ nodes' = nodes /\ globalMIdx' = globalMIdx /\ panels' = panels
      /\ open' = open /\ stale' = stale
  BY DEF onRemoveModule, Offer, Put
<1>2. masterTemplate \in Pages /\ shown \in Pages /\ written \in Pages
  BY DEF IInv, TypeInv
<1>3. masterTemplate' = Put(masterTemplate, d, c, i, None)
  BY <1>1 DEF removeModule, Put
<1>4. /\ masterTemplate' \in Pages
      /\ \A e \in Drivers, b \in Channels, j \in Index :
           At(masterTemplate', e, b, j) = IF e = d /\ b = c /\ j = i THEN None
                                          ELSE At(masterTemplate, e, b, j)
      /\ \A e \in Drivers, b \in Channels :
           masterTemplate'[e][b].templateName = masterTemplate[e][b].templateName
      /\ \A e \in Drivers \ {d} : masterTemplate'[e] = masterTemplate[e]
  BY <1>2, <1>3, SetModule
<1>5. /\ shown' \in Pages
      /\ \A e \in Drivers, b \in Channels, j \in Index :
           At(shown', e, b, j) = IF e = d /\ b = c /\ j = i THEN None
                                 ELSE At(shown, e, b, j)
      /\ \A e \in Drivers \ {d} : shown'[e] = shown[e]
  BY <1>1, <1>2, SetModule
<1>6. /\ written' \in Pages
      /\ \A e \in Drivers, b \in Channels, j \in Index :
           At(written', e, b, j) = IF e = d /\ b = c /\ j = i THEN None
                                   ELSE At(written, e, b, j)
      /\ \A e \in Drivers \ {d} : written'[e] = written[e]
  BY <1>1, <1>2, SetModule
<1>7. SameElements(shown, d) /\ SameElements(written, d)
  BY <1>1 DEF IInv, ElementsAgree
<1>8. Edits(d)
  BY <1>1, <1>4, <1>5, <1>6 DEF Edits
<1>9. SameElements(shown, d)' /\ SameElements(written, d)'
  BY <1>4, <1>5, <1>6, <1>7 DEF SameElements
<1>10. \A b \in Channels :
         open'[d][b] = (masterTemplate'[d][b].templateName = "custom")
  BY <1>1, <1>4 DEF IInv, OpenIsTrue
<1>11. shown[d] = masterTemplate[d] => shown'[d] = masterTemplate'[d]
  BY <1>1, <1>2, <1>3 DEF Pages, Put
<1>12. /\ open' \in [Drivers -> [Channels -> BOOLEAN]]
       /\ globalMIdx' \in 0..MaxModules /\ globalMIdx \leq globalMIdx'
  BY <1>1, PanelsAssumption DEF IInv, TypeInv
<1>13. \A b \in Channels, j \in Index :
         At(masterTemplate', d, b, j) # None =>
           At(masterTemplate, d, b, j) # None \/ j < globalMIdx'
  BY <1>4
<1>14. IInv'
  BY <1>4, <1>5, <1>6, <1>8, <1>9, <1>10, <1>11, <1>12, <1>13, EditKeeps
<1> QED BY <1>4, <1>14 DEF OneModule

LEMMA AddKeeps ==
  ASSUME IInv, NEW d \in Drivers, NEW c \in Channels, onAddModule(d, c)
  PROVE  IInv' /\ globalMIdx \in Index /\ OneModule(d, c, globalMIdx)
<1> DEFINE i == globalMIdx
           m == newDefaultModule
<1>1. /\ d \in panels /\ i \in Index
      /\ shown' = Put(shown, d, c, i, m)
      /\ written' = Put(written, d, c, i, m)
      /\ masterTemplate' = Put(masterTemplate, d, c, i, m)
      /\ globalMIdx' = globalMIdx + 1
      /\ offered' = offered \cup {d} /\ unsaved' = unsaved \cup {d}
      /\ nodes' = nodes /\ panels' = panels /\ open' = open /\ stale' = stale
  BY DEF onAddModule, Offer, Put
<1>2. /\ masterTemplate \in Pages /\ shown \in Pages /\ written \in Pages
      /\ m \in Module /\ m # None
  BY PanelsAssumption DEF IInv, TypeInv
<1>3. At(masterTemplate, d, c, i) = None
  <2>1. ~(i < i)
    BY <1>1, PanelsAssumption DEF Index
  <2> QED BY <1>1, <2>1 DEF IInv, CounterIsAhead
<1>4. globalMIdx' \in 0..MaxModules /\ globalMIdx \leq globalMIdx' /\ i < globalMIdx'
  BY <1>1, PanelsAssumption DEF Index
<1> HIDE DEF i, m
<1>5. /\ masterTemplate' \in Pages
      /\ \A e \in Drivers, b \in Channels, j \in Index :
           At(masterTemplate', e, b, j) = IF e = d /\ b = c /\ j = i THEN m
                                          ELSE At(masterTemplate, e, b, j)
      /\ \A e \in Drivers, b \in Channels :
           masterTemplate'[e][b].templateName = masterTemplate[e][b].templateName
      /\ \A e \in Drivers \ {d} : masterTemplate'[e] = masterTemplate[e]
  BY <1>1, <1>2, SetModule
<1>6. /\ shown' \in Pages
      /\ \A e \in Drivers, b \in Channels, j \in Index :
           At(shown', e, b, j) = IF e = d /\ b = c /\ j = i THEN m
                                 ELSE At(shown, e, b, j)
      /\ \A e \in Drivers \ {d} : shown'[e] = shown[e]
  BY <1>1, <1>2, SetModule
<1>7. /\ written' \in Pages
      /\ \A e \in Drivers, b \in Channels, j \in Index :
           At(written', e, b, j) = IF e = d /\ b = c /\ j = i THEN m
                                   ELSE At(written, e, b, j)
      /\ \A e \in Drivers \ {d} : written'[e] = written[e]
  BY <1>1, <1>2, SetModule
<1>8. SameElements(shown, d) /\ SameElements(written, d)
  BY <1>1 DEF IInv, ElementsAgree
<1>9. Edits(d)
  BY <1>1, <1>5, <1>6, <1>7 DEF Edits
<1>10. SameElements(shown, d)' /\ SameElements(written, d)'
  BY <1>5, <1>6, <1>7, <1>8 DEF SameElements
<1>11. \A b \in Channels :
         open'[d][b] = (masterTemplate'[d][b].templateName = "custom")
  BY <1>1, <1>5 DEF IInv, OpenIsTrue
<1>12. shown[d] = masterTemplate[d] => shown'[d] = masterTemplate'[d]
  BY <1>1, <1>2 DEF Pages, Put
<1>13. open' \in [Drivers -> [Channels -> BOOLEAN]]
  BY <1>1 DEF IInv, TypeInv
<1>14. \A b \in Channels, j \in Index :
         At(masterTemplate', d, b, j) # None =>
           At(masterTemplate, d, b, j) # None \/ j < globalMIdx'
  BY <1>4, <1>5
<1>15. IInv'
  BY <1>4, <1>5, <1>6, <1>7, <1>9, <1>10, <1>11, <1>12, <1>13, <1>14, EditKeeps
<1>16. OneModule(d, c, i)
  BY <1>3, <1>5 DEF OneModule
<1> QED BY <1>1, <1>15, <1>16 DEF i

(* A template or an order is selected: no module changes.                  *)
LEMMA SelectKeeps ==
  ASSUME IInv, NEW d \in Drivers, NEW c \in Channels,
         \/ \E name \in Names : onSelectTemplate(d, c, name)
         \/ \E order \in Orders : onSelectOrder(d, c, order)
  PROVE  /\ IInv'
         /\ \A e \in Drivers, b \in Channels, j \in Index :
              At(masterTemplate', e, b, j) = At(masterTemplate, e, b, j)
<1>1. /\ d \in panels /\ offered' = offered \cup {d} /\ unsaved' = unsaved \cup {d}
      /\ nodes' = nodes /\ globalMIdx' = globalMIdx /\ panels' = panels
      /\ written' = written /\ stale' = stale
  BY DEF onSelectTemplate, onSelectOrder, Offer
<1>2. masterTemplate \in Pages /\ shown \in Pages /\ written \in Pages
  BY DEF IInv, TypeInv
<1>3. /\ masterTemplate' \in Pages
      /\ \A e \in Drivers, b \in Channels :
           masterTemplate'[e][b].modules = masterTemplate[e][b].modules
      /\ \A e \in Drivers \ {d} : masterTemplate'[e] = masterTemplate[e]
  <2>1. \/ \E name \in Names :
             masterTemplate' = [masterTemplate EXCEPT ![d][c].templateName = name]
        \/ \E order \in Orders :
             masterTemplate' = [masterTemplate EXCEPT ![d][c].colorOrder = order]
    BY DEF onSelectTemplate, onSelectOrder
  <2> QED BY <1>2, <2>1, SetChannel
<1>4. /\ shown' \in Pages
      /\ \A e \in Drivers, b \in Channels : shown'[e][b].modules = shown[e][b].modules
      /\ \A e \in Drivers \ {d} : shown'[e] = shown[e]
  <2>1. \/ \E name \in Names :
             shown' = [shown EXCEPT ![d][c].templateName = name]
        \/ \E order \in Orders :
             shown' = [shown EXCEPT ![d][c].colorOrder = order]
    BY DEF onSelectTemplate, onSelectOrder
  <2> QED BY <1>2, <2>1, SetChannel
<1>5. /\ open' \in [Drivers -> [Channels -> BOOLEAN]]
      /\ \A e \in Drivers \ {d} : open'[e] = open[e]
      /\ \A b \in Channels :
           open'[d][b] = (masterTemplate'[d][b].templateName = "custom")
  <2>0. open \in [Drivers -> [Channels -> BOOLEAN]]
    BY DEF IInv, TypeInv
  <2>1. CASE \E name \in Names : onSelectTemplate(d, c, name)
    <3>1. PICK name \in Names : onSelectTemplate(d, c, name)
      BY <2>1
    <3>2. /\ open' = [open EXCEPT ![d][c] = (name = "custom")]
          /\ masterTemplate' = [masterTemplate EXCEPT ![d][c].templateName = name]
      BY <3>1 DEF onSelectTemplate
    <3>3. /\ masterTemplate'[d][c].templateName = name
          /\ \A b \in Channels \ {c} : masterTemplate'[d][b] = masterTemplate[d][b]
      BY <1>2, <3>2 DEF Pages, MasterTemplate, Channel
    <3>4. /\ open'[d][c] = (name = "custom")
          /\ \A b \in Channels \ {c} : open'[d][b] = open[d][b]
          /\ open' \in [Drivers -> [Channels -> BOOLEAN]]
          /\ \A e \in Drivers \ {d} : open'[e] = open[e]
      BY <2>0, <3>2
    <3>5. ASSUME NEW b \in Channels
          PROVE  open'[d][b] = (masterTemplate'[d][b].templateName = "custom")
      <4>1. open[d][b] = (masterTemplate[d][b].templateName = "custom")
        BY <1>1 DEF IInv, OpenIsTrue
      <4>2. CASE b = c
        <5>1. open'[d][b] = (name = "custom")
          BY <3>4, <4>2
        <5>2. masterTemplate'[d][b].templateName = name
          BY <3>3, <4>2
        <5> QED BY <5>1, <5>2, Zenon
      <4>3. CASE b # c
        BY <3>3, <3>4, <4>1, <4>3
      <4> QED BY <4>2, <4>3
    <3> QED BY <3>4, <3>5
  <2>2. CASE \E order \in Orders : onSelectOrder(d, c, order)
    <3>1. PICK order \in Orders : onSelectOrder(d, c, order)
      BY <2>2
    <3>2. /\ open' = open
          /\ masterTemplate' = [masterTemplate EXCEPT ![d][c].colorOrder = order]
      BY <3>1 DEF onSelectOrder
    <3>3. \A b \in Channels :
            masterTemplate'[d][b].templateName = masterTemplate[d][b].templateName
      BY <1>2, <3>2 DEF Pages, MasterTemplate, Channel
    <3> QED BY <1>1, <2>0, <3>2, <3>3 DEF IInv, OpenIsTrue
  <2> QED BY <2>1, <2>2
<1>6. shown[d] = masterTemplate[d] => shown'[d] = masterTemplate'[d]
  <2>1. ASSUME NEW name \in Names, onSelectTemplate(d, c, name)
        PROVE  shown[d] = masterTemplate[d] => shown'[d] = masterTemplate'[d]
    BY <2>1, <1>2 DEF onSelectTemplate, Pages
  <2>2. ASSUME NEW order \in Orders, onSelectOrder(d, c, order)
        PROVE  shown[d] = masterTemplate[d] => shown'[d] = masterTemplate'[d]
    BY <2>2, <1>2 DEF onSelectOrder, Pages
  <2> QED BY <2>1, <2>2
<1>7. Edits(d)
  BY <1>1, <1>3, <1>4, <1>5 DEF Edits
<1>8. \A e \in Drivers, b \in Channels, j \in Index :
        At(masterTemplate', e, b, j) = At(masterTemplate, e, b, j)
  BY <1>3 DEF At
<1>9. SameElements(shown, d)' /\ SameElements(written, d)'
  BY <1>1, <1>3, <1>4 DEF SameElements, At, IInv, ElementsAgree
<1>10. globalMIdx' \in 0..MaxModules /\ globalMIdx \leq globalMIdx'
  BY <1>1, PanelsAssumption DEF IInv, TypeInv
<1>11. written' \in Pages
  BY <1>1, <1>2
<1>12. IInv'
  BY <1>3, <1>4, <1>5, <1>6, <1>7, <1>8, <1>9, <1>10, <1>11, EditKeeps
<1> QED BY <1>8, <1>12

LEMMA SaveKeeps ==
  ASSUME IInv, NEW d \in Drivers, onSaveDriver(d) PROVE IInv'
<1>1. /\ offered' = offered \ {d} /\ unsaved' = unsaved \ {d}
      /\ nodes' = nodes /\ masterTemplate' = masterTemplate /\ panels' = panels
      /\ globalMIdx' = globalMIdx /\ shown' = shown /\ written' = written
      /\ open' = open /\ stale' = stale
  BY DEF onSaveDriver
<1>2. TypeInv' /\ UnknownIsBlank'
  BY <1>1 DEF IInv, TypeInv, UnknownIsBlank, Known
<1>3. CounterIsAhead' /\ ElementsAgree'
  BY <1>1 DEF IInv, CounterIsAhead, ElementsAgree, SameElements, At
<1>4. OpenIsTrue' /\ UnsavedIsOffered' /\ InputsAgree'
  BY <1>1 DEF IInv, OpenIsTrue, UnsavedIsOffered, InputsAgree
<1> QED BY <1>2, <1>3, <1>4 DEF IInv

LEMMA ReloadKeeps == ASSUME IInv, reload PROVE IInv'
<1>1. /\ nodes' = <<>> /\ globalMIdx' = 0 /\ panels' = {} /\ offered' = {}
      /\ unsaved' = {} /\ stale' = {}
      /\ masterTemplate' = [d \in Drivers |-> Blank]
      /\ shown' = [d \in Drivers |-> Blank] /\ written' = [d \in Drivers |-> Blank]
      /\ open' = [d \in Drivers |-> [c \in Channels |-> FALSE]]
  BY DEF reload
<1>2. Known' = {}
  BY <1>1 DEF Known
<1>3. TypeInv'
  BY <1>1, <1>2, BlankIsTemplate, PanelsAssumption DEF TypeInv, Pages
<1>4. UnknownIsBlank' /\ CounterIsAhead'
  BY <1>1, BlankIsTemplate DEF UnknownIsBlank, CounterIsAhead, At
<1> QED BY <1>1, <1>3, <1>4
        DEF IInv, ElementsAgree, OpenIsTrue, UnsavedIsOffered, InputsAgree

-----------------------------------------------------------------------------
LEMMA NextKeeps == ASSUME IInv, [Next]_vars PROVE IInv'
<1>1. CASE uiNotification
  BY <1>1, NotificationKeeps
<1>2. CASE reload
  BY <1>2, ReloadKeeps
<1>3. ASSUME NEW d \in Drivers, NEW t \in Templates, NEW fits \in BOOLEAN,
             Driver(d, t, fits)
      PROVE  IInv'
  BY <1>3, DriverKeeps
<1>4. ASSUME NEW d \in Drivers, onSaveDriver(d) PROVE IInv'
  BY <1>4, SaveKeeps
<1>5. ASSUME NEW d \in Drivers, NEW c \in Channels, onAddModule(d, c) PROVE IInv'
  BY <1>5, AddKeeps
<1>6. ASSUME NEW d \in Drivers, NEW c \in Channels,
             \/ \E name \in Names : onSelectTemplate(d, c, name)
             \/ \E order \in Orders : onSelectOrder(d, c, order)
      PROVE  IInv'
  BY <1>6, SelectKeeps
<1>7. ASSUME NEW d \in Drivers, NEW c \in Channels, NEW i \in Index,
             onRemoveModule(d, c, i)
      PROVE  IInv'
  BY <1>7, RemoveKeeps
<1>8. ASSUME NEW d \in Drivers, NEW c \in Channels, NEW i \in Index,
             NEW f \in Fields, NEW v \in Values, onUpdateModule(d, c, i, f, v)
      PROVE  IInv'
  BY <1>8, UpdateKeeps
<1>9. CASE UNCHANGED vars
  <2>1. TypeInv' /\ UnknownIsBlank'
    BY <1>9 DEF vars, IInv, TypeInv, UnknownIsBlank, Known
  <2>2. CounterIsAhead' /\ ElementsAgree'
    BY <1>9 DEF vars, IInv, CounterIsAhead, ElementsAgree, SameElements, At
  <2>3. OpenIsTrue' /\ UnsavedIsOffered' /\ InputsAgree'
    BY <1>9 DEF vars, IInv, OpenIsTrue, UnsavedIsOffered, InputsAgree
  <2> QED BY <2>1, <2>2, <2>3 DEF IInv
<1> QED BY <1>1, <1>2, <1>3, <1>4, <1>5, <1>6, <1>7, <1>8, <1>9 DEF Next

LEMMA Invariant == Spec => []IInv
<1>1. IInv /\ [Next]_vars => IInv'
  BY NextKeeps
<1> QED BY InitInv, <1>1, PTL DEF Spec

(* The variables keep their types: a module's index never leaves the       *)
(* array, whatever drivers come and whatever the user edits.               *)
THEOREM TypeCorrect == Spec => []TypeOK
<1>1. IInv => TypeOK
  BY TypeIsTypeOK DEF IInv
<1> QED BY Invariant, <1>1, PTL

(* A panel stays true to its template although other panels are written    *)
(* around it: elements, visibility, button, and inputs unless another      *)
(* panel came after an edit.                                               *)
THEOREM PanelsAreTrue == Spec => []PanelIsTrue
<1>1. ASSUME IInv, NEW d \in panels
      PROVE  /\ Present(shown[d]) = Present(masterTemplate[d])
             /\ open[d] = Opened(masterTemplate[d])
             /\ d \in unsaved => d \in offered
             /\ d \notin stale => shown[d] = masterTemplate[d]
  <2>1. /\ d \in Drivers /\ shown[d] \in MasterTemplate
        /\ masterTemplate[d] \in MasterTemplate
        /\ open[d] \in [Channels -> BOOLEAN]
    BY <1>1 DEF IInv, TypeInv, Pages
  <2>2. Present(shown[d]) = Present(masterTemplate[d])
    BY <1>1, <2>1, PresentIs DEF IInv, ElementsAgree, SameElements, At
  <2>3. open[d] = Opened(masterTemplate[d])
    <3>1. \A c \in Channels : open[d][c] = Opened(masterTemplate[d])[c]
      BY <1>1, Zenon DEF IInv, OpenIsTrue, Opened
    <3>2. open[d] = [c \in Channels |-> open[d][c]]
      BY <2>1
    <3>3. Opened(masterTemplate[d])
            = [c \in Channels |-> Opened(masterTemplate[d])[c]]
      BY Zenon DEF Opened
    <3> QED BY <3>1, <3>2, <3>3
  <2>4. d \in unsaved => d \in offered
    BY <1>1 DEF IInv, UnsavedIsOffered
  <2>5. d \notin stale => shown[d] = masterTemplate[d]
    BY <1>1 DEF IInv, InputsAgree
  <2> QED BY <2>2, <2>3, <2>4, <2>5
<1>2. IInv => PanelIsTrue
  BY <1>1 DEF PanelIsTrue
<1> QED BY Invariant, <1>2, PTL

(* A module of a template changes only when it is what the user edits.     *)
LocalStep ==
  nodes' # <<>> => \A p \in Modules :
       LET old == masterTemplate[p[1]][p[2]].modules[p[3]]
           new == masterTemplate'[p[1]][p[2]].modules[p[3]]
       IN old # None /\ new # old =>
            /\ \/ new = None
               \/ OneFieldAtMost(Edited(p[1])[p[2]].modules[p[3]], new)
            /\ \A q \in Modules \ {p} :
                 masterTemplate'[q[1]][q[2]].modules[q[3]]
                   = masterTemplate[q[1]][q[2]].modules[q[3]]

LEMMA OneModuleIsLocal ==
  ASSUME NEW d \in Drivers, NEW c \in Channels, NEW i \in Index, OneModule(d, c, i)
  PROVE  LocalStep
<1>1. ASSUME NEW p \in Modules,
             At(masterTemplate, p[1], p[2], p[3]) # None,
             At(masterTemplate', p[1], p[2], p[3]) # At(masterTemplate, p[1], p[2], p[3])
      PROVE  /\ \/ At(masterTemplate', p[1], p[2], p[3]) = None
                \/ OneFieldAtMost(Edited(p[1])[p[2]].modules[p[3]],
                                  At(masterTemplate', p[1], p[2], p[3]))
             /\ \A q \in Modules \ {p} : At(masterTemplate', q[1], q[2], q[3])
                                           = At(masterTemplate, q[1], q[2], q[3])
  <2>1. p = <<d, c, i>>
    BY <1>1 DEF Modules, OneModule
  <2>2. p[1] = d /\ p[2] = c /\ p[3] = i
    BY <2>1
  <2>3. ASSUME NEW q \in Modules \ {p}
        PROVE  At(masterTemplate', q[1], q[2], q[3]) = At(masterTemplate, q[1], q[2], q[3])
    <3>1. /\ q[1] \in Drivers /\ q[2] \in Channels /\ q[3] \in Index
          /\ ~(q[1] = d /\ q[2] = c /\ q[3] = i)
      BY <2>1, <2>3 DEF Modules
    <3> QED BY <3>1 DEF OneModule
  <2> QED BY <1>1, <2>2, <2>3 DEF OneModule
<1> QED BY <1>1 DEF LocalStep, At

LEMMA OthersAreLocal ==
  ASSUME nodes' # <<>> =>
           \A d \in Drivers, c \in Channels, i \in Index :
             At(masterTemplate', d, c, i) = At(masterTemplate, d, c, i)
               \/ At(masterTemplate, d, c, i) = None
  PROVE  LocalStep
<1>1. ASSUME nodes' # <<>>, NEW p \in Modules
      PROVE  At(masterTemplate', p[1], p[2], p[3]) = At(masterTemplate, p[1], p[2], p[3])
               \/ At(masterTemplate, p[1], p[2], p[3]) = None
  BY <1>1 DEF Modules
<1> QED BY <1>1 DEF LocalStep, At

LEMMA NextIsLocal == ASSUME IInv, Next PROVE LocalStep
<1>1. CASE uiNotification
  BY <1>1, OthersAreLocal DEF uiNotification, At
<1>2. CASE reload
  BY <1>2, OthersAreLocal DEF reload
<1>3. ASSUME NEW d \in Drivers, NEW t \in Templates, NEW fits \in BOOLEAN,
             Driver(d, t, fits)
      PROVE  LocalStep
  <2>1. /\ d \notin Known
        /\ \A e \in Drivers \ {d} : masterTemplate'[e] = masterTemplate[e]
    BY <1>3 DEF Driver, IInv, TypeInv, Pages
  <2>2. masterTemplate[d] = Blank
    BY <2>1 DEF IInv, UnknownIsBlank
  <2> QED BY <2>1, <2>2, BlankIsTemplate, OthersAreLocal DEF At
<1>4. ASSUME NEW d \in Drivers, onSaveDriver(d) PROVE LocalStep
  BY <1>4, OthersAreLocal DEF onSaveDriver, At
<1>5. ASSUME NEW d \in Drivers, NEW c \in Channels, onAddModule(d, c) PROVE LocalStep
  BY <1>5, AddKeeps, OneModuleIsLocal
<1>6. ASSUME NEW d \in Drivers, NEW c \in Channels,
             \/ \E name \in Names : onSelectTemplate(d, c, name)
             \/ \E order \in Orders : onSelectOrder(d, c, order)
      PROVE  LocalStep
  BY <1>6, SelectKeeps, OthersAreLocal
<1>7. ASSUME NEW d \in Drivers, NEW c \in Channels, NEW i \in Index,
             onRemoveModule(d, c, i)
      PROVE  LocalStep
  BY <1>7, RemoveKeeps, OneModuleIsLocal
<1>8. ASSUME NEW d \in Drivers, NEW c \in Channels, NEW i \in Index,
             NEW f \in Fields, NEW v \in Values, onUpdateModule(d, c, i, f, v)
      PROVE  LocalStep
  BY <1>8, UpdateKeeps, OneModuleIsLocal
<1> QED BY <1>1, <1>2, <1>3, <1>4, <1>5, <1>6, <1>7, <1>8 DEF Next

(* Editing one module never reaches another one, of the same channel or of *)
(* another driver: indexes come from one counter that is ahead of all.     *)
(* The edited one becomes its former self with one other field, or, in a   *)
(* stale panel, what the panel showed of it with one other field.          *)
THEOREM EditsAreLocal == Spec => EditIsLocal
<1>1. IInv /\ [Next]_vars => [LocalStep]_vars
  BY NextIsLocal
<1>2. Spec => [][LocalStep]_vars
  BY Invariant, <1>1, PTL DEF Spec
<1> QED BY <1>2 DEF EditIsLocal, LocalStep
=============================================================================
