------------------------- MODULE ModuleScan_proofs -------------------------
(***************************************************************************)
(* The walk over a module of any size, anywhere, in any direction, numbers *)
(* its cells and never jumps.                                              *)
(*                                                                         *)
(* A cell has coordinates of the walk: the line it is on and its position  *)
(* on that line, both counted with the sign of the loops.  In these        *)
(* coordinates columns and rows, and the eight directions, are alike; the  *)
(* turn at the end of a line is in the map from positions to cells.        *)
(***************************************************************************)
EXTENDS ModuleScan, TLAPS

V == isVerticalDirection(module)
Outer == IF V THEN col ELSE row
Inner == IF V THEN row ELSE col
Lines == IF V THEN p.w ELSE p.h
Width == IF V THEN p.h ELSE p.w

Opposite(size) == IF size < 0 THEN 1 ELSE -1
Forward(r) == (p.w > 0) <=> (r % 2 = 0)

Line(i, j) == IF V THEN j - p.x ELSE i - p.y
Pos(i, j) ==
  IF V THEN IF (j - p.x) % 2 = 0 THEN i - p.y ELSE p.y + p.h + Opposite(p.h) - i
  ELSE IF Forward(i - p.y) THEN j - p.x ELSE p.x + p.w + Opposite(p.w) - j

(* n is one of the values a loop of that size runs through.                *)
Runs(n, size) == IF size < 0 THEN size < n /\ n \leq 0 ELSE 0 \leq n /\ n < size
(* n is such a value or the one the loop ends with.                        *)
Counts(n, size) ==
  IF size < 0 THEN size \leq n /\ n \leq 0 ELSE 0 \leq n /\ n \leq size
Behind(n, k, size) == IF size < 0 THEN n > k ELSE n < k

Visited(i, j) ==
  \/ Behind(Line(i, j), Outer, Lines)
  \/ Line(i, j) = Outer /\ Behind(Pos(i, j), Inner, Width)

InBox(i, j) == Runs(Line(i, j), Lines) /\ Runs(Pos(i, j), Width)

-----------------------------------------------------------------------------
LEMMA PixelModule ==
  ASSUME module \in Module
  PROVE  /\ p.x \in Int /\ p.y \in Int /\ p.w \in Int /\ p.h \in Int
         /\ module.x \in Int /\ module.y \in Int
         /\ module.w \in Nat /\ module.h \in Nat
         /\ \/ p.w = module.w /\ p.x = module.x
            \/ p.w = -module.w /\ p.x = module.x + module.w - 1
         /\ \/ p.h = module.h /\ p.y = module.y
            \/ p.h = -module.h /\ p.y = module.y + module.h - 1
<1>1. /\ module.x \in Int /\ module.y \in Int
      /\ module.w \in Nat /\ module.h \in Nat
  BY DEF Module
<1>2. /\ p.x = IF FromLeft(module) THEN module.x ELSE module.x + module.w - 1
      /\ p.w = IF FromLeft(module) THEN module.w ELSE -module.w
      /\ p.y = IF FromTop(module) THEN module.y ELSE module.y + module.h - 1
      /\ p.h = IF FromTop(module) THEN module.h ELSE -module.h
  BY DEF p, getPixelModule, Module
<1>3. CASE FromLeft(module) /\ FromTop(module)
  BY <1>1, <1>2, <1>3
<1>4. CASE FromLeft(module) /\ ~FromTop(module)
  BY <1>1, <1>2, <1>4
<1>5. CASE ~FromLeft(module) /\ FromTop(module)
  BY <1>1, <1>2, <1>5
<1>6. CASE ~FromLeft(module) /\ ~FromTop(module)
  BY <1>1, <1>2, <1>6
<1> QED BY <1>3, <1>4, <1>5, <1>6

(* The cells of the module are those the loops run through ...             *)
LEMMA BoxCoordinates ==
  ASSUME module \in Module, NEW i \in Int, NEW j \in Int
  PROVE  <<i, j>> \in Box <=> InBox(i, j)
<1>1. <<i, j>> \in Box <=>
        /\ module.y \leq i /\ i < module.y + module.h
        /\ module.x \leq j /\ j < module.x + module.w
  BY PixelModule DEF Box
<1> QED BY <1>1, PixelModule DEF InBox, Runs, Line, Pos, Lines, Width, Opposite

(* ... and its coordinates determine a cell.                               *)
LEMMA CoordinatesDetermine ==
  ASSUME module \in Module,
         NEW i \in Int, NEW j \in Int, NEW i2 \in Int, NEW j2 \in Int,
         Line(i, j) = Line(i2, j2), Pos(i, j) = Pos(i2, j2)
  PROVE  i = i2 /\ j = j2
<1>1. CASE V
  <2>1. j = j2
    BY <1>1, PixelModule DEF Line
  <2> QED BY <1>1, <2>1, PixelModule DEF Pos, Opposite
<1>2. CASE ~V
  <2>1. i = i2
    BY <1>2, PixelModule DEF Line
  <2> QED BY <1>2, <2>1, PixelModule DEF Pos, Opposite
<1> QED BY <1>1, <1>2

LEMMA CoordinatesType ==
  ASSUME module \in Module, NEW i \in Int, NEW j \in Int
  PROVE  Line(i, j) \in Int /\ Pos(i, j) \in Int
BY PixelModule DEF Line, Pos, Opposite

(* Neighbours on a line, or across the turn at the end of it, are          *)
(* neighbours on the canvas.                                               *)
LEMMA Neighbours ==
  ASSUME module \in Module, NEW i \in Int, NEW j \in Int,
         NEW i2 \in Int, NEW j2 \in Int,
         \/ /\ Line(i2, j2) = Line(i, j)
            /\ Pos(i2, j2) = Step(Pos(i, j), Width)
         \/ /\ Line(i2, j2) = Step(Line(i, j), Lines)
            /\ Pos(i, j) = Width + Opposite(Width) /\ Pos(i2, j2) = 0
  PROVE  Distance(<<i, j>>, <<i2, j2>>) = 1
<1>1. CASE V
  <2>1. \/ /\ j2 = j /\ (i2 = i + 1 \/ i2 = i - 1)
        \/ /\ (j2 = j + 1 \/ j2 = j - 1) /\ i2 = i
    <3>1. CASE /\ Line(i2, j2) = Line(i, j)
               /\ Pos(i2, j2) = Step(Pos(i, j), Width)
      <4>1. j2 = j
        BY <1>1, <3>1, PixelModule DEF Line
      <4>2. i2 = i + 1 \/ i2 = i - 1
        BY <1>1, <3>1, <4>1, PixelModule DEF Pos, Step, Opposite
      <4> QED BY <4>1, <4>2
    <3>2. CASE /\ Line(i2, j2) = Step(Line(i, j), Lines)
               /\ Pos(i, j) = Width + Opposite(Width) /\ Pos(i2, j2) = 0
      <4>1. j2 = j + 1 \/ j2 = j - 1
        BY <1>1, <3>2, PixelModule DEF Line, Step
      <4>2. (j2 - p.x) % 2 = 0 <=> (j - p.x) % 2 # 0
        BY <4>1, PixelModule
      <4>3. i2 = i
        BY <1>1, <3>2, <4>2, PixelModule DEF Pos, Opposite, Width
      <4> QED BY <4>1, <4>3
    <3> QED BY <3>1, <3>2
  <2> QED BY <2>1 DEF Distance
<1>2. CASE ~V
  <2>1. \/ /\ i2 = i /\ (j2 = j + 1 \/ j2 = j - 1)
        \/ /\ (i2 = i + 1 \/ i2 = i - 1) /\ j2 = j
    <3>1. CASE /\ Line(i2, j2) = Line(i, j)
               /\ Pos(i2, j2) = Step(Pos(i, j), Width)
      <4>1. i2 = i
        BY <1>2, <3>1, PixelModule DEF Line
      <4>2. j2 = j + 1 \/ j2 = j - 1
        BY <1>2, <3>1, <4>1, PixelModule DEF Pos, Step, Opposite
      <4> QED BY <4>1, <4>2
    <3>2. CASE /\ Line(i2, j2) = Step(Line(i, j), Lines)
               /\ Pos(i, j) = Width + Opposite(Width) /\ Pos(i2, j2) = 0
      <4>1. i2 = i + 1 \/ i2 = i - 1
        BY <1>2, <3>2, PixelModule DEF Line, Step
      <4>2. (i2 - p.y) % 2 = 0 <=> (i - p.y) % 2 # 0
        BY <4>1, PixelModule
      <4>3. j2 = j
        BY <1>2, <3>2, <4>2, PixelModule DEF Pos, Forward, Opposite, Width
      <4> QED BY <4>1, <4>3
    <3> QED BY <3>1, <3>2
  <2> QED BY <2>1 DEF Distance
<1> QED BY <1>1, <1>2

-----------------------------------------------------------------------------
Entry == [i : Int, j : Int, src : Nat \cup {Blank}]

TypeInv ==
  /\ module \in Modules /\ dir \in BOOLEAN
  /\ col \in Int /\ row \in Int
  /\ Counts(col, p.w) /\ Counts(row, p.h)
  /\ ~V => dir = Forward(row)
  /\ out \in Seq(Entry)

LEMMA EntryType ==
  ASSUME NEW i \in Int, NEW j \in Int PROVE Visit(i, j) \in Entry
<1>1. isInMatrix(i, j) => i \in Nat /\ j \in Nat
  BY ScanAssumption DEF isInMatrix
<1>2. ASSUME NEW a \in Nat, NEW b \in Nat PROVE getMatrixIdx(a, b) \in Nat
  <2>1. a * matrixW \in Nat
    BY ScanAssumption
  <2> HIDE DEF getMatrixIdx
  <2> QED BY <2>1 DEF getMatrixIdx
<1> QED BY <1>1, <1>2 DEF Visit, Entry

LEMMA SizesKept ==
  ASSUME module' = module
  PROVE  /\ V' = V /\ Lines' = Lines /\ Width' = Width
         /\ p'.x = p.x /\ p'.y = p.y /\ p'.w = p.w /\ p'.h = p.h
         /\ \A i, j : Line(i, j)' = Line(i, j) /\ Pos(i, j)' = Pos(i, j)
         /\ \A i, j : InBox(i, j)' = InBox(i, j)
         /\ \A r : Forward(r)' = Forward(r)
<1>1. p' = p /\ V' = V
  BY DEF p, V
<1> QED BY <1>1 DEF Lines, Width, Line, Pos, InBox, Forward, Runs

LEMMA TypeInit == Init => TypeInv
<1> SUFFICES ASSUME Init PROVE TypeInv
  OBVIOUS
<1>1. module \in Module /\ module \in Modules
  BY ScanAssumption DEF Init
<1>2. p.w \in Int /\ p.h \in Int
  BY <1>1, PixelModule
<1>3. /\ col = 0 /\ row = 0 /\ out = <<>> /\ dir = (p.w > 0)
  BY DEF Init
<1>4. Forward(0) = (p.w > 0)
  BY <1>2 DEF Forward
<1> QED BY <1>1, <1>2, <1>3, <1>4 DEF TypeInv, Counts

LEMMA TypeNext == TypeInv /\ [Next]_vars => TypeInv'
<1> SUFFICES ASSUME TypeInv, [Next]_vars PROVE TypeInv'
  OBVIOUS
<1>1. module \in Module
  BY ScanAssumption DEF TypeInv
<1>2. p.x \in Int /\ p.y \in Int /\ p.w \in Int /\ p.h \in Int
  BY <1>1, PixelModule
<1>3. /\ col \in Int /\ row \in Int /\ Counts(col, p.w) /\ Counts(row, p.h)
      /\ out \in Seq(Entry)
  BY DEF TypeInv
<1>4. ASSUME NEW n \in Int, NEW size \in Int, Counts(n, size), Inside(n, size)
      PROVE  Step(n, size) \in Int /\ Counts(Step(n, size), size)
  BY <1>4 DEF Counts, Inside, Step
<1>5. ASSUME NEW size \in Int PROVE Counts(0, size)
  BY DEF Counts
<1>6. CASE VisitV
  <2>1. module' = module /\ dir' = dir /\ col' = col /\ row' = Step(row, p.h)
        /\ V /\ Inside(row, p.h)
    BY <1>6 DEF VisitV, V
  <2>2. PICK i \in Int : out' = Append(out, Visit(i, col + p.x))
    BY <1>6, <1>2, <1>3, SMTT(30) DEF VisitV, Back
  <2>3. out' \in Seq(Entry)
    BY <2>2, <1>2, <1>3, EntryType
  <2> QED BY <1>2, <1>3, <1>4, <2>1, <2>3, SizesKept DEF TypeInv
<1>7. CASE VisitH
  <2>1. module' = module /\ dir' = dir /\ row' = row /\ col' = Step(col, p.w)
        /\ ~V /\ Inside(col, p.w)
    BY <1>7 DEF VisitH, V
  <2>2. PICK j \in Int : out' = Append(out, Visit(row + p.y, j))
    BY <1>7, <1>2, <1>3 DEF VisitH, Back
  <2>3. out' \in Seq(Entry)
    BY <2>2, <1>2, <1>3, EntryType
  <2> QED BY <1>2, <1>3, <1>4, <2>1, <2>3, SizesKept DEF TypeInv
<1>8. CASE NextCol
  <2>1. module' = module /\ dir' = dir /\ col' = Step(col, p.w) /\ row' = 0
        /\ out' = out /\ V /\ Inside(col, p.w)
    BY <1>8 DEF NextCol, V
  <2> QED BY <1>2, <1>3, <1>4, <1>5, <2>1, SizesKept DEF TypeInv
<1>9. CASE NextRow
  <2>1. module' = module /\ dir' = ~dir /\ row' = Step(row, p.h) /\ col' = 0
        /\ out' = out /\ ~V /\ Inside(row, p.h)
    BY <1>9 DEF NextRow, V
  <2>2. Forward(row') <=> ~Forward(row)
    BY <1>2, <1>3, <2>1 DEF Forward, Step
  <2>3. dir' = Forward(row')
    BY <2>1, <2>2 DEF TypeInv, Forward
  <2> QED BY <1>2, <1>3, <1>4, <1>5, <2>1, <2>3, SizesKept DEF TypeInv
<1>10. CASE UNCHANGED vars
  <2>1. module' = module
    BY <1>10 DEF vars
  <2> QED BY <1>10, <2>1, SizesKept DEF TypeInv, vars
<1> QED BY <1>6, <1>7, <1>8, <1>9, <1>10 DEF Next

LEMMA TypeInvariant == Spec => []TypeInv
BY TypeInit, TypeNext, PTL DEF Spec

(* The counters stay within the size of the module on either side of zero. *)
THEOREM TypeCorrect == Spec => []TypeOK
<1>1. TypeInv => TypeOK
  <2> SUFFICES ASSUME TypeInv PROVE TypeOK
    OBVIOUS
  <2>1. module \in Module
    BY ScanAssumption DEF TypeInv
  <2>2. col \in -module.w..module.w /\ row \in -module.h..module.h
    BY <2>1, PixelModule, SMTT(30) DEF TypeInv, Counts
  <2> QED BY <2>2 DEF TypeInv, TypeOK, Entry
<1> QED BY <1>1, TypeInvariant, PTL

-----------------------------------------------------------------------------
(* What has been visited is what lies behind the counters, once; and the   *)
(* last cell visited is the one before the counters.                       *)
InsideSeen ==
  \A n \in 1..Len(out) : InBox(out[n].i, out[n].j) /\ Visited(out[n].i, out[n].j)
AllSeen ==
  \A i, j \in Int : InBox(i, j) /\ Visited(i, j) =>
    \E n \in 1..Len(out) : out[n].i = i /\ out[n].j = j
OnceSeen ==
  \A n, q \in 1..Len(out) : out[n].i = out[q].i /\ out[n].j = out[q].j => n = q
LastSeen ==
  Len(out) > 0 =>
    LET c == out[Len(out)]
    IN  \/ /\ Inner # 0 /\ Line(c.i, c.j) = Outer
           /\ Step(Pos(c.i, c.j), Width) = Inner
        \/ /\ Inner = 0 /\ Step(Line(c.i, c.j), Lines) = Outer
           /\ Pos(c.i, c.j) = Width + Opposite(Width)

(* The number of a cell on the strip, from its coordinates.                *)
Size(n) == IF n < 0 THEN -n ELSE n
Numbered ==
  /\ Len(out) = Size(Outer) * Size(Width) + Size(Inner)
  /\ \A n \in 1..Len(out) :
       n - 1 = Size(Line(out[n].i, out[n].j)) * Size(Width)
                 + Size(Pos(out[n].i, out[n].j))

WalkInv ==
  InsideSeen /\ AllSeen /\ OnceSeen /\ LastSeen /\ StripIsContinuous /\ Numbered

LEMMA WalkTypes ==
  ASSUME TypeInv
  PROVE  /\ module \in Module /\ out \in Seq(Entry) /\ Len(out) \in Nat
         /\ Lines \in Int /\ Width \in Int /\ Outer \in Int /\ Inner \in Int
         /\ Counts(Outer, Lines) /\ Counts(Inner, Width)
         /\ \A n \in 1..Len(out) : out[n].i \in Int /\ out[n].j \in Int
<1>1. module \in Module
  BY ScanAssumption DEF TypeInv
<1>2. out \in Seq(Entry) /\ Len(out) \in Nat
  BY DEF TypeInv
<1>3. \A n \in 1..Len(out) : out[n] \in Entry
  BY <1>2
<1>4. \A n \in 1..Len(out) : out[n].i \in Int /\ out[n].j \in Int
  BY <1>3 DEF Entry
<1> QED BY <1>1, <1>2, <1>4, PixelModule DEF TypeInv, Lines, Width, Outer, Inner

LEMMA SizeSteps ==
  ASSUME NEW n \in Int, NEW size \in Int, Counts(n, size), Inside(n, size)
  PROVE  Size(n) \in Nat /\ Size(Step(n, size)) = Size(n) + 1
BY DEF Counts, Inside, Step, Size

LEMMA VisitNumbers ==
  ASSUME TypeInv, Numbered, module' = module, NEW i \in Int, NEW j \in Int,
         Line(i, j) = Outer, Pos(i, j) = Inner, Inside(Inner, Width),
         out' = Append(out, Visit(i, j)),
         Outer' = Outer, Inner' = Step(Inner, Width)
  PROVE  Numbered'
<1> DEFINE L == Len(out)
           base == Size(Outer) * Size(Width)
<1>1. /\ module \in Module /\ out \in Seq(Entry) /\ L \in Nat
      /\ Width \in Int /\ Outer \in Int /\ Inner \in Int /\ Counts(Inner, Width)
  BY WalkTypes
<1>2. /\ Width' = Width
      /\ \A a, b : Line(a, b)' = Line(a, b) /\ Pos(a, b)' = Pos(a, b)
  BY SizesKept
<1>3. Visit(i, j) \in Entry /\ Visit(i, j).i = i /\ Visit(i, j).j = j
  BY EntryType DEF Visit
<1>4. /\ Len(out') = L + 1 /\ out'[L + 1].i = i /\ out'[L + 1].j = j
      /\ \A n \in 1..L : out'[n] = out[n]
  BY <1>1, <1>3
<1>5. /\ base \in Int /\ Size(Inner) \in Nat
      /\ Size(Step(Inner, Width)) = Size(Inner) + 1 /\ L = base + Size(Inner)
  <2>1. Size(Outer) \in Int /\ Size(Width) \in Int
    BY <1>1 DEF Size
  <2> QED BY <1>1, <2>1, SizeSteps DEF Numbered
<1> HIDE DEF base
<1>6. Len(out') = base + Size(Step(Inner, Width))
  BY <1>1, <1>4, <1>5
<1>7. ASSUME NEW n \in 1..L + 1
      PROVE  n - 1 = Size(Line(out'[n].i, out'[n].j)) * Size(Width)
                       + Size(Pos(out'[n].i, out'[n].j))
  <2>1. CASE n \in 1..L
    BY <1>4, <2>1 DEF Numbered
  <2>2. CASE n = L + 1
    BY <1>1, <1>4, <1>5, <2>2, SMTT(30) DEF base
  <2> QED BY <1>1, <2>1, <2>2
<1> QED BY <1>2, <1>4, <1>6, <1>7 DEF Numbered, base, Size

LEMMA NextLineNumbers ==
  ASSUME TypeInv, Numbered, module' = module, out' = out,
         Inside(Outer, Lines), ~Inside(Inner, Width),
         Outer' = Step(Outer, Lines), Inner' = 0
  PROVE  Numbered'
<1>1. /\ Lines \in Int /\ Width \in Int /\ Outer \in Int /\ Inner \in Int
      /\ Counts(Outer, Lines) /\ Counts(Inner, Width)
  BY WalkTypes
<1>2. /\ Width' = Width
      /\ \A a, b : Line(a, b)' = Line(a, b) /\ Pos(a, b)' = Pos(a, b)
  BY SizesKept
<1>3. Inner = Width
  BY <1>1 DEF Counts, Inside
<1>4. Size(Step(Outer, Lines)) = Size(Outer) + 1
  BY <1>1, SizeSteps
<1>5. (Size(Outer) + 1) * Size(Width) + 0 = Size(Outer) * Size(Width) + Size(Width)
  <2>1. Size(Outer) \in Int /\ Size(Width) \in Int
    BY <1>1 DEF Size
  <2> QED BY <2>1
<1>6. Size(0) = 0
  BY DEF Size
<1>7. Len(out') = Size(Step(Outer, Lines)) * Size(Width) + Size(0)
  BY <1>3, <1>4, <1>5, <1>6 DEF Numbered
<1> QED BY <1>2, <1>7 DEF Numbered, Size

(* One more cell on the line.                                              *)
LEMMA VisitStep ==
  ASSUME TypeInv, WalkInv, module' = module, NEW i \in Int, NEW j \in Int,
         Line(i, j) = Outer, Pos(i, j) = Inner,
         Inside(Outer, Lines), Inside(Inner, Width),
         out' = Append(out, Visit(i, j)),
         Outer' = Outer, Inner' = Step(Inner, Width)
  PROVE  WalkInv'
<1> DEFINE L == Len(out)
<1>1. /\ module \in Module /\ out \in Seq(Entry) /\ L \in Nat
      /\ Lines \in Int /\ Width \in Int /\ Outer \in Int /\ Inner \in Int
      /\ Counts(Outer, Lines) /\ Counts(Inner, Width)
      /\ \A n \in 1..L : out[n].i \in Int /\ out[n].j \in Int
  BY WalkTypes
<1>2. /\ Lines' = Lines /\ Width' = Width
      /\ \A a, b : Line(a, b)' = Line(a, b) /\ Pos(a, b)' = Pos(a, b)
      /\ \A a, b : InBox(a, b)' = InBox(a, b)
  BY SizesKept
<1>3. Visit(i, j) \in Entry /\ Visit(i, j).i = i /\ Visit(i, j).j = j
  BY EntryType DEF Visit
<1>4. /\ Len(out') = L + 1 /\ out'[L + 1].i = i /\ out'[L + 1].j = j
      /\ \A n \in 1..L : out'[n] = out[n]
  BY <1>1, <1>3
<1>5. InBox(i, j) /\ ~Visited(i, j)
  BY <1>1 DEF InBox, Visited, Runs, Counts, Inside, Behind
<1>6. ASSUME NEW a \in Int, NEW b \in Int
      PROVE  Visited(a, b)' <=> Visited(a, b) \/ (a = i /\ b = j)
  <2>1. Line(a, b) \in Int /\ Pos(a, b) \in Int
    BY <1>1, CoordinatesType
  <2>2. a = i /\ b = j <=> Line(a, b) = Outer /\ Pos(a, b) = Inner
    BY <1>1, CoordinatesDetermine
  <2>3. Visited(a, b)' <=> \/ Behind(Line(a, b), Outer, Lines)
                           \/ /\ Line(a, b) = Outer
                              /\ Behind(Pos(a, b), Step(Inner, Width), Width)
    BY <1>2 DEF Visited, Behind
  <2>4. Behind(Pos(a, b), Step(Inner, Width), Width) <=>
          Behind(Pos(a, b), Inner, Width) \/ Pos(a, b) = Inner
    BY <1>1, <2>1 DEF Behind, Step
  <2> QED BY <2>2, <2>3, <2>4 DEF Visited
<1>7. InsideSeen'
  BY <1>1, <1>2, <1>4, <1>5, <1>6 DEF WalkInv, InsideSeen
<1>8. AllSeen'
  <2> SUFFICES ASSUME NEW a \in Int, NEW b \in Int, InBox(a, b)', Visited(a, b)'
               PROVE  \E n \in 1..Len(out') : out'[n].i = a /\ out'[n].j = b
    BY DEF AllSeen
  <2>1. InBox(a, b)
    BY <1>2
  <2>2. CASE a = i /\ b = j
    BY <2>2, <1>1, <1>4
  <2>3. CASE Visited(a, b)
    <3>1. PICK n \in 1..L : out[n].i = a /\ out[n].j = b
      BY <2>1, <2>3 DEF WalkInv, AllSeen
    <3>2. n \in 1..Len(out')
      BY <1>1, <1>4
    <3>3. out'[n] = out[n]
      BY <1>4
    <3> QED BY <3>1, <3>2, <3>3
  <2> QED BY <2>2, <2>3, <1>6
<1>9. OnceSeen'
  <2>1. SUFFICES ASSUME NEW n \in 1..L + 1, NEW q \in 1..L + 1,
                        out'[n].i = out'[q].i, out'[n].j = out'[q].j
                 PROVE  n = q
    BY <1>4 DEF OnceSeen
  <2>2. \A m \in 1..L : ~(out[m].i = i /\ out[m].j = j)
    BY <1>5 DEF WalkInv, InsideSeen
  <2>3. CASE n \in 1..L /\ q \in 1..L
    BY <2>1, <2>3, <1>4 DEF WalkInv, OnceSeen
  <2>4. CASE n = L + 1 \/ q = L + 1
    BY <2>1, <2>2, <2>4, <1>1, <1>4
  <2> QED BY <2>3, <2>4, <1>1
<1>10. LastSeen'
  <2>1. Step(Inner, Width) # 0
    BY <1>1 DEF Step, Counts, Inside
  <2> QED BY <2>1, <1>1, <1>2, <1>4 DEF LastSeen, Step
<1>11. StripIsContinuous'
  <2>1. SUFFICES ASSUME NEW n \in 1..L
                 PROVE  Distance(<<out'[n].i, out'[n].j>>,
                                 <<out'[n + 1].i, out'[n + 1].j>>) = 1
    <3>1. 1..Len(out') - 1 = 1..L
      BY <1>1, <1>4
    <3> QED BY <3>1 DEF StripIsContinuous, Cell
  <2>2. CASE n \in 1..L - 1
    <3>1. Distance(<<out[n].i, out[n].j>>, <<out[n + 1].i, out[n + 1].j>>) = 1
      BY <2>2 DEF WalkInv, StripIsContinuous, Cell
    <3>2. out'[n] = out[n] /\ out'[n + 1] = out[n + 1]
      BY <2>2, <1>1, <1>4
    <3> QED BY <3>1, <3>2
  <2>3. CASE n = L
    <3>1. /\ out'[n].i = out[L].i /\ out'[n].j = out[L].j
          /\ out'[n + 1].i = i /\ out'[n + 1].j = j
          /\ out[L].i \in Int /\ out[L].j \in Int /\ L > 0
      BY <2>1, <2>3, <1>1, <1>4
    <3>2. Distance(<<out[L].i, out[L].j>>, <<i, j>>) = 1
      BY <3>1, <1>1, Neighbours, SMTT(30) DEF WalkInv, LastSeen
    <3> QED BY <3>1, <3>2
  <2>4. n \in 1..L - 1 \/ n = L
    BY <1>1
  <2> QED BY <2>2, <2>3, <2>4
<1>12. Numbered'
  BY VisitNumbers DEF WalkInv
<1> QED BY <1>7, <1>8, <1>9, <1>10, <1>11, <1>12 DEF WalkInv

(* The end of a line.                                                      *)
LEMMA NextLine ==
  ASSUME TypeInv, WalkInv, module' = module, out' = out,
         Inside(Outer, Lines), ~Inside(Inner, Width),
         Outer' = Step(Outer, Lines), Inner' = 0
  PROVE  WalkInv'
<1>1. /\ module \in Module /\ out \in Seq(Entry) /\ Len(out) \in Nat
      /\ Lines \in Int /\ Width \in Int /\ Outer \in Int /\ Inner \in Int
      /\ Counts(Outer, Lines) /\ Counts(Inner, Width)
      /\ \A n \in 1..Len(out) : out[n].i \in Int /\ out[n].j \in Int
  BY WalkTypes
<1>2. /\ Lines' = Lines /\ Width' = Width
      /\ \A a, b : Line(a, b)' = Line(a, b) /\ Pos(a, b)' = Pos(a, b)
      /\ \A a, b : InBox(a, b)' = InBox(a, b)
  BY SizesKept
<1>3. Inner = Width
  BY <1>1 DEF Counts, Inside
<1>4. ASSUME NEW a \in Int, NEW b \in Int, InBox(a, b)
      PROVE  Visited(a, b)' <=> Visited(a, b)
  <2>1. Line(a, b) \in Int /\ Pos(a, b) \in Int
    BY <1>1, CoordinatesType
  <2>2. ~Behind(Pos(a, b), 0, Width) /\ Behind(Pos(a, b), Inner, Width)
    BY <1>1, <1>3, <1>4, <2>1 DEF InBox, Runs, Behind
  <2>3. Behind(Line(a, b), Step(Outer, Lines), Lines) <=>
          Behind(Line(a, b), Outer, Lines) \/ Line(a, b) = Outer
    BY <1>1, <2>1 DEF Behind, Step
  <2>4. Visited(a, b)' <=> \/ Behind(Line(a, b), Step(Outer, Lines), Lines)
                           \/ /\ Line(a, b) = Step(Outer, Lines)
                              /\ Behind(Pos(a, b), 0, Width)
    BY <1>2 DEF Visited, Behind
  <2> QED BY <2>2, <2>3, <2>4 DEF Visited
<1>5. InsideSeen'
  BY <1>1, <1>2, <1>4 DEF WalkInv, InsideSeen
<1>6. AllSeen'
  BY <1>1, <1>2, <1>4 DEF WalkInv, AllSeen
<1>7. OnceSeen' /\ StripIsContinuous'
  BY DEF WalkInv, OnceSeen, StripIsContinuous, Cell, Distance
<1>8. LastSeen'
  <2>1. SUFFICES ASSUME Len(out) > 0
                 PROVE  LET c == out[Len(out)]
                        IN  /\ Step(Line(c.i, c.j), Lines) = Step(Outer, Lines)
                            /\ Pos(c.i, c.j) = Width + Opposite(Width)
    BY <1>2 DEF LastSeen, Step, Opposite
  <2> DEFINE c == out[Len(out)]
  <2>2. c.i \in Int /\ c.j \in Int /\ InBox(c.i, c.j)
    BY <1>1, <2>1 DEF WalkInv, InsideSeen
  <2>3. Line(c.i, c.j) \in Int /\ Pos(c.i, c.j) \in Int
    BY <1>1, <2>2, CoordinatesType
  <2>4. Width # 0
    BY <1>1, <2>2, <2>3 DEF InBox, Runs
  <2>5. Line(c.i, c.j) = Outer /\ Step(Pos(c.i, c.j), Width) = Width
    BY <1>3, <2>1, <2>4 DEF WalkInv, LastSeen
  <2>6. Pos(c.i, c.j) = Width + Opposite(Width)
    BY <1>1, <2>3, <2>5 DEF Step, Opposite
  <2> QED BY <2>5, <2>6
<1>9. Numbered'
  BY NextLineNumbers DEF WalkInv
<1> QED BY <1>5, <1>6, <1>7, <1>8, <1>9 DEF WalkInv

LEMMA WalkInit == Init => WalkInv
<1> SUFFICES ASSUME Init PROVE WalkInv
  OBVIOUS
<1>1. /\ out = <<>> /\ Len(out) = 0 /\ Outer = 0 /\ Inner = 0
      /\ module \in Module
  BY ScanAssumption DEF Init, Outer, Inner
<1>2. ASSUME NEW i \in Int, NEW j \in Int, InBox(i, j) PROVE ~Visited(i, j)
  <2>1. Line(i, j) \in Int /\ Pos(i, j) \in Int
    BY <1>1, CoordinatesType
  <2>2. Lines \in Int /\ Width \in Int
    BY <1>1, PixelModule DEF Lines, Width
  <2> QED BY <1>1, <1>2, <2>1, <2>2 DEF InBox, Visited, Runs, Behind
<1>3. Numbered
  <2>1. Size(Width) \in Int
    BY <1>1, PixelModule DEF Size, Width
  <2> QED BY <1>1, <2>1 DEF Numbered, Size
<1> QED BY <1>1, <1>2, <1>3 DEF WalkInv, InsideSeen, AllSeen, OnceSeen, LastSeen,
                                StripIsContinuous

LEMMA WalkNext == TypeInv /\ WalkInv /\ [Next]_vars => WalkInv'
<1> SUFFICES ASSUME TypeInv, WalkInv, [Next]_vars PROVE WalkInv'
  OBVIOUS
<1>1. /\ module \in Module /\ col \in Int /\ row \in Int
      /\ p.x \in Int /\ p.y \in Int /\ p.w \in Int /\ p.h \in Int
  BY WalkTypes, PixelModule DEF TypeInv
<1>2. CASE VisitV
  <2> DEFINE i == IF col % 2 = 0 THEN p.y + row ELSE Back(p.y, p.h, row)
             j == col + p.x
  <2>1. /\ V /\ module' = module /\ col' = col /\ row' = Step(row, p.h)
        /\ Inside(col, p.w) /\ Inside(row, p.h)
        /\ out' = Append(out, Visit(i, j))
    BY <1>2 DEF VisitV, V
  <2>2. i \in Int /\ j \in Int
    BY <1>1 DEF Back
  <2>3. Line(i, j) = col /\ Pos(i, j) = row
    <3>1. j - p.x = col
      BY <1>1
    <3>2. i = IF col % 2 = 0 THEN p.y + row ELSE p.y + p.h + Opposite(p.h) - row
      BY <1>1 DEF Back, Opposite
    <3>3. Opposite(p.h) \in Int
      BY DEF Opposite
    <3> HIDE DEF i, j
    <3>4. Line(i, j) = col
      BY <2>1, <3>1 DEF Line
    <3>5. Pos(i, j) =
            IF col % 2 = 0 THEN i - p.y ELSE p.y + p.h + Opposite(p.h) - i
      BY <2>1, <3>1 DEF Pos
    <3>6. Pos(i, j) = row
      BY <1>1, <3>2, <3>3, <3>5
    <3> QED BY <3>4, <3>6
  <2>4. /\ Outer = col /\ Inner = row /\ Lines = p.w /\ Width = p.h
        /\ Outer' = col' /\ Inner' = row'
    BY <2>1, SizesKept DEF Outer, Inner, Lines, Width
  <2> HIDE DEF i, j
  <2> QED BY <2>1, <2>2, <2>3, <2>4, VisitStep
<1>3. CASE VisitH
  <2> DEFINE i == row + p.y
             j == IF dir THEN col + p.x ELSE Back(p.x, p.w, col)
  <2>1. /\ ~V /\ module' = module /\ row' = row /\ col' = Step(col, p.w)
        /\ Inside(col, p.w) /\ Inside(row, p.h)
        /\ out' = Append(out, Visit(i, j))
    BY <1>3 DEF VisitH, V
  <2>2. i \in Int /\ j \in Int
    BY <1>1 DEF Back
  <2>3. Line(i, j) = row /\ Pos(i, j) = col
    <3>1. dir = Forward(i - p.y) /\ i - p.y = row
      <4>1. i - p.y = row
        BY <1>1
      <4> HIDE DEF i
      <4> QED BY <4>1, <2>1 DEF TypeInv
    <3> HIDE DEF i
    <3> QED BY <1>1, <2>1, <3>1 DEF Line, Pos, Back, Opposite
  <2>4. /\ Outer = row /\ Inner = col /\ Lines = p.h /\ Width = p.w
        /\ Outer' = row' /\ Inner' = col'
    BY <2>1, SizesKept DEF Outer, Inner, Lines, Width
  <2> HIDE DEF i, j
  <2> QED BY <2>1, <2>2, <2>3, <2>4, VisitStep
<1>4. CASE NextCol
  <2>1. /\ V /\ module' = module /\ out' = out /\ col' = Step(col, p.w)
        /\ row' = 0 /\ Inside(col, p.w) /\ ~Inside(row, p.h)
    BY <1>4 DEF NextCol, V
  <2>2. /\ Outer = col /\ Inner = row /\ Lines = p.w /\ Width = p.h
        /\ Outer' = col' /\ Inner' = row'
    BY <2>1, SizesKept DEF Outer, Inner, Lines, Width
  <2> QED BY <2>1, <2>2, NextLine
<1>5. CASE NextRow
  <2>1. /\ ~V /\ module' = module /\ out' = out /\ row' = Step(row, p.h)
        /\ col' = 0 /\ Inside(row, p.h) /\ ~Inside(col, p.w)
    BY <1>5 DEF NextRow, V
  <2>2. /\ Outer = row /\ Inner = col /\ Lines = p.h /\ Width = p.w
        /\ Outer' = row' /\ Inner' = col'
    BY <2>1, SizesKept DEF Outer, Inner, Lines, Width
  <2> QED BY <2>1, <2>2, NextLine
<1>6. CASE UNCHANGED vars
  <2>1. /\ module' = module /\ out' = out /\ Outer' = Outer /\ Inner' = Inner
        /\ Lines' = Lines /\ Width' = Width
        /\ \A a, b : Line(a, b)' = Line(a, b) /\ Pos(a, b)' = Pos(a, b)
        /\ \A a, b : InBox(a, b)' = InBox(a, b)
    BY <1>6, SizesKept DEF vars, Outer, Inner
  <2>2. \A a, b : Visited(a, b)' = Visited(a, b)
    BY <2>1 DEF Visited, Behind
  <2>3. InsideSeen' /\ AllSeen'
    BY <2>1, <2>2 DEF WalkInv, InsideSeen, AllSeen
  <2>4. OnceSeen' /\ StripIsContinuous'
    BY <2>1 DEF WalkInv, OnceSeen, StripIsContinuous, Cell
  <2>5. LastSeen'
    BY <2>1 DEF WalkInv, LastSeen, Step, Opposite
  <2>6. Numbered'
    BY <2>1 DEF WalkInv, Numbered, Size
  <2> QED BY <2>3, <2>4, <2>5, <2>6 DEF WalkInv
<1> QED BY <1>2, <1>3, <1>4, <1>5, <1>6 DEF Next

LEMMA WalkInvariant == Spec => [](TypeInv /\ WalkInv)
BY WalkInit, WalkNext, TypeInvariant, PTL DEF Spec

(* For a module of any size, anywhere and in any direction, the walk       *)
(* numbers its cells: each feeds exactly one LED and no other cell any.    *)
THEOREM WalkNumbersCells == Spec => []EveryCellOnce
<1>1. ASSUME TypeInv, WalkInv PROVE EveryCellOnce
  <2>1. /\ module \in Module /\ Len(out) \in Nat
        /\ Lines \in Int /\ Width \in Int /\ Outer \in Int /\ Inner \in Int
        /\ Counts(Outer, Lines)
        /\ \A n \in 1..Len(out) : out[n].i \in Int /\ out[n].j \in Int
    BY <1>1, WalkTypes
  <2>2. \A n \in 1..Len(out) : Cell(n) \in Box
    BY <1>1, <2>1, BoxCoordinates DEF WalkInv, InsideSeen, Cell
  <2>3. \A n, q \in 1..Len(out) : n # q => Cell(n) # Cell(q)
    BY <1>1 DEF WalkInv, OnceSeen, Cell
  <2>4. ASSUME Done, NEW c \in Box PROVE \E n \in 1..Len(out) : Cell(n) = c
    <3>1. PICK i \in Int, j \in Int : c = <<i, j>>
      BY <2>1, PixelModule DEF Box
    <3>2. InBox(i, j)
      BY <2>1, <2>4, <3>1, BoxCoordinates
    <3>3. ~Inside(Outer, Lines)
      BY <2>4 DEF Done, V, Outer, Lines
    <3>4. Visited(i, j)
      <4>1. Line(i, j) \in Int
        BY <2>1, CoordinatesType
      <4> QED BY <2>1, <3>2, <3>3, <4>1
              DEF InBox, Runs, Visited, Behind, Inside, Counts
    <3>5. PICK n \in 1..Len(out) : out[n].i = i /\ out[n].j = j
      BY <1>1, <3>2, <3>4 DEF WalkInv, AllSeen
    <3> QED BY <3>1, <3>5 DEF Cell
  <2> QED BY <2>2, <2>3, <2>4 DEF EveryCellOnce
<1> QED BY <1>1, WalkInvariant, PTL

(* And the strip never has to jump.                                        *)
THEOREM WalkIsContinuous == Spec => []StripIsContinuous
<1>1. WalkInv => StripIsContinuous
  BY DEF WalkInv
<1> QED BY <1>1, WalkInvariant, PTL

-----------------------------------------------------------------------------
(* What is sent for a cell depends on the cell alone.                      *)
EntriesAreVisits == \A n \in 1..Len(out) : out[n] = Visit(out[n].i, out[n].j)

LEMMA AppendsVisit ==
  ASSUME TypeInv, EntriesAreVisits, NEW i \in Int, NEW j \in Int,
         out' = Append(out, Visit(i, j))
  PROVE  EntriesAreVisits'
<1>1. out \in Seq(Entry)
  BY DEF TypeInv
<1>2. Visit(i, j).i = i /\ Visit(i, j).j = j
  BY DEF Visit
<1> DEFINE v == Visit(i, j)
<1> HIDE DEF v
<1>3. /\ Len(out') = Len(out) + 1 /\ out'[Len(out) + 1] = v
      /\ \A n \in 1..Len(out) : out'[n] = out[n]
      /\ Len(out) \in Nat
  BY <1>1 DEF v
<1>4. v = Visit(v.i, v.j)
  BY <1>2 DEF v
<1>5. ASSUME NEW n \in 1..Len(out') PROVE out'[n] = Visit(out'[n].i, out'[n].j)
  <2>1. CASE n \in 1..Len(out)
    <3>1. out'[n] = out[n]
      BY <1>3, <2>1
    <3> QED BY <3>1, <2>1 DEF EntriesAreVisits
  <2>2. CASE n = Len(out) + 1
    BY <1>3, <1>4, <2>2
  <2> QED BY <1>3, <2>1, <2>2
<1>6. \A a, b : Visit(a, b)' = Visit(a, b)
  BY DEF Visit, isInMatrix, getMatrixIdx
<1> QED BY <1>5, <1>6 DEF EntriesAreVisits

LEMMA EntriesInvariant == Spec => []EntriesAreVisits
<1>1. Init => EntriesAreVisits
  BY DEF Init, EntriesAreVisits
<1>2. ASSUME TypeInv, EntriesAreVisits, [Next]_vars PROVE EntriesAreVisits'
  <2>1. /\ p.x \in Int /\ p.y \in Int /\ p.w \in Int /\ p.h \in Int
        /\ col \in Int /\ row \in Int
    BY <1>2, ScanAssumption, PixelModule DEF TypeInv
  <2>2. CASE VisitV
    <3>1. PICK i \in Int : out' = Append(out, Visit(i, col + p.x))
      BY <2>1, <2>2 DEF VisitV, Back
    <3>2. col + p.x \in Int
      BY <2>1
    <3> QED BY <1>2, <3>1, <3>2, AppendsVisit
  <2>3. CASE VisitH
    <3>1. PICK j \in Int : out' = Append(out, Visit(row + p.y, j))
      BY <2>1, <2>3 DEF VisitH, Back
    <3>2. row + p.y \in Int
      BY <2>1
    <3> QED BY <1>2, <3>1, <3>2, AppendsVisit
  <2>4. CASE out' = out
    BY <1>2, <2>4 DEF EntriesAreVisits, Visit, isInMatrix, getMatrixIdx
  <2>5. NextCol \/ NextRow \/ UNCHANGED vars => out' = out
    BY DEF NextCol, NextRow, vars
  <2> QED BY <1>2, <2>2, <2>3, <2>4, <2>5 DEF Next
<1> QED BY <1>1, <1>2, TypeInvariant, PTL DEF Spec

(* Two cells of the canvas have different places in the array of pixels.   *)
LEMMA IndexIsInjective ==
  ASSUME NEW i \in Int, NEW j \in Int, NEW k \in Int, NEW l \in Int,
         isInMatrix(i, j), isInMatrix(k, l),
         getMatrixIdx(i, j) = getMatrixIdx(k, l)
  PROVE  i = k /\ j = l
<1> DEFINE W == matrixW
<1>1. /\ W \in Nat \ {0} /\ j \in 0..W - 1 /\ l \in 0..W - 1
  BY ScanAssumption DEF isInMatrix
<1>2. i * W \in Int /\ k * W \in Int
  BY <1>1
<1>3. i * W + j = k * W + l
  <2>1. i * W * 4 + j * 4 = k * W * 4 + l * 4
    BY DEF getMatrixIdx
  <2> DEFINE a == i * W
             b == k * W
  <2>2. a \in Int /\ b \in Int /\ a * 4 + j * 4 = b * 4 + l * 4
    BY <1>2, <2>1
  <2> HIDE DEF a, b
  <2>3. a + j = b + l
    BY <1>1, <2>2
  <2> QED BY <2>3 DEF a, b
<1> HIDE DEF W
<1>4. ASSUME NEW m \in Int, NEW n \in Int, NEW r \in 0..W - 1, NEW s \in 0..W - 1,
             m < n
      PROVE  m * W + r < n * W + s
  <2>1. n * W = (n - m) * W + m * W
    BY <1>1
  <2>2. (n - m) * W \geq W
    <3> DEFINE d == n - m
    <3>1. d \in Nat /\ d \geq 1
      BY <1>4
    <3> HIDE DEF d
    <3>2. d * W \geq W
      BY <1>1, <3>1
    <3> QED BY <3>2 DEF d
  <2>3. m * W \in Int /\ n * W \in Int /\ (n - m) * W \in Int
    BY <1>1
  <2> QED BY <1>1, <2>1, <2>2, <2>3
<1>5. ~(i < k) /\ ~(k < i)
  BY <1>1, <1>2, <1>3, <1>4
<1>6. i = k
  BY <1>5
<1> QED BY <1>1, <1>2, <1>3, <1>6

(* No pixel of the canvas is sent to two LEDs, for any canvas and any      *)
(* module, whichever edges it reaches over.                                *)
THEOREM PixelsFeedOne == Spec => []SourcesAreDistinct
<1>1. ASSUME TypeInv, WalkInv, EntriesAreVisits PROVE SourcesAreDistinct
  <2> SUFFICES ASSUME NEW n \in 1..Len(out), NEW q \in 1..Len(out),
                      out[n].src = out[q].src, out[n].src # Blank
               PROVE  n = q
    BY DEF SourcesAreDistinct
  <2>1. /\ out[n].i \in Int /\ out[n].j \in Int
        /\ out[q].i \in Int /\ out[q].j \in Int
    BY <1>1, WalkTypes
  <2>2. ASSUME NEW m \in 1..Len(out), out[m].src # Blank
        PROVE  /\ isInMatrix(out[m].i, out[m].j)
               /\ out[m].src = getMatrixIdx(out[m].i, out[m].j)
    <3>1. out[m] = Visit(out[m].i, out[m].j)
      BY <1>1 DEF EntriesAreVisits
    <3>2. out[m].src = IF isInMatrix(out[m].i, out[m].j)
                       THEN getMatrixIdx(out[m].i, out[m].j) ELSE Blank
      <4> DEFINE a == out[m].i
                 b == out[m].j
      <4>1. out[m] = Visit(a, b)
        BY <3>1
      <4>2. Visit(a, b).src = IF isInMatrix(a, b) THEN getMatrixIdx(a, b) ELSE Blank
        BY DEF Visit
      <4> QED BY <4>1, <4>2
    <3> QED BY <2>2, <3>2
  <2>3. out[n].i = out[q].i /\ out[n].j = out[q].j
    BY <2>1, <2>2, IndexIsInjective
  <2> QED BY <1>1, <2>3 DEF WalkInv, OnceSeen
<1> QED BY <1>1, WalkInvariant, EntriesInvariant, PTL

-----------------------------------------------------------------------------
(* Where BorderPainter draws the corner number n of its line, in the       *)
(* coordinates of the walk: at the start (odd n) or the end of one of the  *)
(* first three lines.                                                      *)
CornerLine(n) == IF n < 3 THEN 0 ELSE IF n < 5 THEN 1 ELSE 2
CornerPos(n) == IF n \in {1, 3, 5} THEN 0 ELSE Size(Width) - 1
At(i, j, n) == /\ Runs(Line(i, j), Lines) /\ Runs(Pos(i, j), Width)
               /\ Size(Line(i, j)) = CornerLine(n)
               /\ Size(Pos(i, j)) = CornerPos(n)

LEMMA CornersAreTurns ==
  ASSUME module \in Module, module.w \geq 3, module.h \geq 3, NEW n \in 1..6
  PROVE  \E i, j \in Int : Fed(PreviewCorners[n]) = <<i, j>> /\ At(i, j, n)
<1> DEFINE x == module.x
           y == module.y
           w == module.w
           h == module.h
           c == IF FromLeft(module) THEN x ELSE x + w - 1
           r == IF FromTop(module) THEN y ELSE y + h - 1
           dC == IF FromLeft(module) THEN 1 ELSE -1
           dR == IF FromTop(module) THEN 1 ELSE -1
           a == CornerLine(n)
           b == IF n \in {1, 4, 5} THEN 0 ELSE 1
<1>1. /\ x \in Int /\ y \in Int /\ w \in Nat /\ h \in Nat
      /\ p.x = c /\ p.y = r
      /\ p.w = IF FromLeft(module) THEN w ELSE -w
      /\ p.h = IF FromTop(module) THEN h ELSE -h
  BY DEF p, getPixelModule, Module
<1>2. CASE V
  <2> DEFINE i == r + b * (dR * (h - 1))
             j == c + a * dC
  <2>1. PreviewCorners[n] = <<i, j>>
    BY <1>1, <1>2 DEF PreviewCorners, V, CornerLine
  <2>2. Fed(<<i, j>>) = <<i, j>>
    BY <1>2 DEF Fed, V, isVerticalDirection
  <2>3. i \in Int /\ j \in Int
    BY <1>1 DEF CornerLine
  <2>4. Line(i, j) = a * dC
    BY <1>1, <1>2 DEF Line, CornerLine
  <2>5. (j - p.x) % 2 = 0 <=> n \notin {3, 4}
    BY <1>1 DEF CornerLine
  <2>6. /\ Size(Pos(i, j)) = CornerPos(n) /\ Runs(Pos(i, j), Width)
    <3> DEFINE far == dR * (h - 1)
    <3>1. /\ far = IF FromTop(module) THEN h - 1 ELSE 1 - h
          /\ p.h + Opposite(p.h) = far /\ far \in Int
      BY <1>1 DEF Opposite
    <3>2. i - p.y = IF n \in {1, 4, 5} THEN 0 ELSE far
      BY <1>1, <3>1
    <3>3. p.y + p.h + Opposite(p.h) - i = IF n \in {1, 4, 5} THEN far ELSE 0
      BY <1>1, <3>1 DEF Opposite
    <3>4. Pos(i, j) = IF n \in {1, 3, 5} THEN 0 ELSE far
      <4> HIDE DEF i, j, far
      <4> QED BY <1>2, <2>5, <3>2, <3>3 DEF Pos
    <3>5. Width = p.h
      BY <1>2 DEF Width
    <3> HIDE DEF i, j, far
    <3> QED BY <1>1, <3>1, <3>4, <3>5 DEF Size, CornerPos, Runs
  <2>7. Size(Line(i, j)) = CornerLine(n) /\ Runs(Line(i, j), Lines)
    BY <1>1, <1>2, <2>4 DEF Size, CornerLine, Lines, Runs
  <2> QED BY <2>1, <2>2, <2>3, <2>6, <2>7 DEF At
<1>3. CASE ~V
  <2> DEFINE i == r + a * dR
             e == c + b * (dC * (w - 1))
             j == IF FromLeft(module) THEN e ELSE 2 * x + w - 1 - e
  <2>1. PreviewCorners[n] = <<i, e>>
    BY <1>1, <1>3 DEF PreviewCorners, V, CornerLine
  <2>2. Fed(<<i, e>>) = <<i, j>>
    <3>1. module.d \in {"ZIGZAGH_BC", "ZIGZAGH_DA"} <=> ~FromLeft(module)
      BY <1>3 DEF V, isVerticalDirection, FromLeft, Module, ModuleDirection
    <3> QED BY <3>1 DEF Fed
  <2>3. i \in Int /\ e \in Int /\ j \in Int
    BY <1>1 DEF CornerLine
  <2>4. Line(i, j) = a * dR
    BY <1>1, <1>3 DEF Line, CornerLine
  <2>5. (i - p.y) % 2 = 0 <=> n \notin {3, 4}
    BY <1>1 DEF CornerLine
  <2>6. /\ Size(Pos(i, j)) = CornerPos(n) /\ Runs(Pos(i, j), Width)
    BY <1>1, <1>3, <2>5 DEF Pos, Forward, Opposite, Size, CornerPos, Width, Runs
  <2>7. Size(Line(i, j)) = CornerLine(n) /\ Runs(Line(i, j), Lines)
    BY <1>1, <1>3, <2>4 DEF Size, CornerLine, Lines, Runs
  <2> QED BY <2>1, <2>2, <2>3, <2>6, <2>7 DEF At
<1> QED BY <1>2, <1>3

(* A strip laid along the line that BorderPainter draws shows the image,   *)
(* mirrored where rows start on the right, for any module of at least      *)
(* three lines of three LEDs.                                              *)
THEOREM PreviewTellsWalk == Spec => []PreviewUpToMirror
<1>1. ASSUME TypeInv, WalkInv PROVE PreviewUpToMirror
  <2> DEFINE W == IF isVerticalDirection(module) THEN module.h ELSE module.w
             turn == <<1, W, W + 1, 2 * W, 2 * W + 1, 3 * W>>
  <2> SUFFICES ASSUME module.w \geq 3, module.h \geq 3, NEW n \in 1..6,
                      turn[n] \leq Len(out)
               PROVE  Cell(turn[n]) = Fed(PreviewCorners[n])
    BY DEF PreviewUpToMirror
  <2>1. /\ module \in Module /\ out \in Seq(Entry) /\ Len(out) \in Nat
        /\ Lines \in Int /\ Width \in Int
        /\ \A q \in 1..Len(out) : out[q].i \in Int /\ out[q].j \in Int
    BY <1>1, WalkTypes
  <2>2. W = Size(Width) /\ W \in Nat /\ W \geq 3
    <3>1. p.w = module.w \/ p.w = -module.w
      BY <2>1, PixelModule
    <3>2. p.h = module.h \/ p.h = -module.h
      BY <2>1, PixelModule
    <3>3. module.w \in Nat /\ module.h \in Nat
      BY <2>1, PixelModule
    <3>4. CASE V
      <4>1. W = module.h /\ Width = p.h
        BY <3>4 DEF V, Width
      <4> HIDE DEF W
      <4> QED BY <3>2, <3>3, <4>1 DEF Size
    <3>5. CASE ~V
      <4>1. W = module.w /\ Width = p.w
        BY <3>5 DEF V, Width
      <4> HIDE DEF W
      <4> QED BY <3>1, <3>3, <4>1 DEF Size
    <3> QED BY <3>4, <3>5
  <2> DEFINE t == turn[n]
  <2>3. t \in 1..Len(out) /\ t - 1 = CornerLine(n) * W + CornerPos(n)
    <3> HIDE DEF W
    <3>1. t = IF n = 1 THEN 1 ELSE IF n = 2 THEN W ELSE IF n = 3 THEN W + 1
              ELSE IF n = 4 THEN 2 * W ELSE IF n = 5 THEN 2 * W + 1 ELSE 3 * W
      OBVIOUS
    <3> HIDE DEF t, turn
    <3>2. t \in Nat /\ t \geq 1 /\ t - 1 = CornerLine(n) * W + CornerPos(n)
      BY <2>2, <3>1 DEF CornerLine, CornerPos
    <3>3. t \leq Len(out)
      BY DEF t
    <3> QED BY <2>1, <3>2, <3>3
  <2> HIDE DEF t, turn
  <2> DEFINE i == out[t].i
             j == out[t].j
  <2>4. i \in Int /\ j \in Int /\ InBox(i, j)
    BY <1>1, <2>1, <2>3 DEF WalkInv, InsideSeen
  <2>5. t - 1 = Size(Line(i, j)) * W + Size(Pos(i, j))
    BY <1>1, <2>2, <2>3 DEF WalkInv, Numbered
  <2> HIDE DEF i, j, W
  <2>6. Line(i, j) \in Int /\ Pos(i, j) \in Int
    BY <2>1, <2>4, CoordinatesType
  <2>7. Size(Line(i, j)) = CornerLine(n) /\ Size(Pos(i, j)) = CornerPos(n)
    <3> DEFINE l == Size(Line(i, j))
               q == Size(Pos(i, j))
               k == CornerLine(n)
               m == CornerPos(n)
    <3>1. l \in Nat /\ q \in 0..W - 1 /\ k \in {0, 1, 2} /\ m \in 0..W - 1
      BY <2>1, <2>2, <2>4, <2>6 DEF InBox, Runs, Size, CornerLine, CornerPos
    <3>2. l * W + q = k * W + m
      BY <2>3, <2>5
    <3> HIDE DEF l, q, k, m
    <3>3. l < 3
      <4>1. l * W < 3 * W
        BY <2>2, <3>1, <3>2, SMTT(30)
      <4> QED BY <2>2, <3>1, <4>1
    <3>4. l \in {0, 1, 2}
      BY <3>1, <3>3
    <3>5. l = k /\ q = m
      <4>1. CASE l = k
        BY <2>2, <3>1, <3>2, <3>4, <4>1
      <4>2. CASE l # k
        <5>1. l * W \in {0, W, 2 * W} /\ k * W \in {0, W, 2 * W}
          BY <2>2, <3>1, <3>4
        <5>2. /\ l = 0 => l * W = 0
              /\ l = 1 => l * W = W
              /\ l = 2 => l * W = 2 * W
              /\ k = 0 => k * W = 0
              /\ k = 1 => k * W = W
              /\ k = 2 => k * W = 2 * W
          BY <2>2
        <5> DEFINE lw == l * W
                   kw == k * W
        <5>3. lw + q = kw + m
          BY <3>2
        <5> HIDE DEF lw, kw
        <5>4. /\ lw = IF l = 0 THEN 0 ELSE IF l = 1 THEN W ELSE 2 * W
              /\ kw = IF k = 0 THEN 0 ELSE IF k = 1 THEN W ELSE 2 * W
          BY <3>1, <3>4, <5>2 DEF lw, kw
        <5> QED BY <2>2, <3>1, <3>4, <4>2, <5>3, <5>4, SMTT(30)
      <4> QED BY <4>1, <4>2
    <3> QED BY <3>5 DEF l, q, k, m
  <2>8. PICK i2 \in Int, j2 \in Int :
          Fed(PreviewCorners[n]) = <<i2, j2>> /\ At(i2, j2, n)
    BY <2>1, CornersAreTurns
  <2>9. Line(i2, j2) \in Int /\ Pos(i2, j2) \in Int
    BY <2>1, CoordinatesType
  <2>10. Line(i, j) = Line(i2, j2) /\ Pos(i, j) = Pos(i2, j2)
    <3>1. ASSUME NEW a \in Int, NEW b \in Int, NEW size \in Int,
                 Runs(a, size), Runs(b, size), Size(a) = Size(b)
          PROVE  a = b
      BY <3>1 DEF Runs, Size
    <3>2. /\ Runs(Line(i, j), Lines) /\ Runs(Line(i2, j2), Lines)
          /\ Size(Line(i, j)) = Size(Line(i2, j2))
      BY <2>4, <2>7, <2>8 DEF InBox, At
    <3>3. /\ Runs(Pos(i, j), Width) /\ Runs(Pos(i2, j2), Width)
          /\ Size(Pos(i, j)) = Size(Pos(i2, j2))
      BY <2>4, <2>7, <2>8 DEF InBox, At
    <3> QED BY <2>1, <2>6, <2>9, <3>1, <3>2, <3>3
  <2>11. i = i2 /\ j = j2
    BY <2>1, <2>4, <2>10, CoordinatesDetermine
  <2> QED BY <2>8, <2>11 DEF Cell, i, j, t
<1> QED BY <1>1, WalkInvariant, PTL
=============================================================================
